---------------------------- MODULE ZoneEdit_proofs ----------------------------
(***************************************************************************)
(* What merge sends in place of a zone, for every zone and change set: one *)
(* lemma for each of its four loops, the zone they make together, and the  *)
(* properties of ZoneEdit.                                                 *)
(***************************************************************************)
EXTENDS ZoneEdit, TLAPS

Takes == INSTANCE FoldFacts WITH Step <- TakeOver
Drops == INSTANCE FoldFacts WITH Step <- Drop
Puttings == INSTANCE FoldFacts WITH Step <- Put
Emits == INSTANCE FoldFacts WITH Step <- Emit

Distinct(s) == \A i, j \in DOMAIN s : s[i] = s[j] => i = j

\* What merge carries: its three variables.
Carried(m) == m = [set |-> m.set, order |-> m.order, out |-> m.out]

\* merge after its first, second and third loop.
Taken(current) == Takes!Fold(Nothing, current)
Left(current, cs) == Drops!Fold(Taken(current), cs.delete)
Full(current, cs) == Puttings!Fold(Left(current, cs), Puts(cs))

LEMMA MergeUnfolds ==
    ASSUME NEW current, NEW cs
    PROVE  merge(current, cs)
              = Emits!Fold(Full(current, cs), Full(current, cs).order).out
<1>1. FoldLeft(TakeOver, Nothing, current) = Taken(current)
    BY Zenon DEF Taken, Takes!Fold, FoldLeft, Takes!FoldLeft, MapThenFoldSet,
                 Takes!MapThenFoldSet, Max, Takes!Max
<1>2. ASSUME NEW m, NEW s PROVE FoldLeft(Drop, m, s) = Drops!Fold(m, s)
    BY Zenon DEF Drops!Fold, FoldLeft, Drops!FoldLeft, MapThenFoldSet,
                 Drops!MapThenFoldSet, Max, Drops!Max
<1>3. ASSUME NEW m, NEW s PROVE FoldLeft(Put, m, s) = Puttings!Fold(m, s)
    BY Zenon DEF Puttings!Fold, FoldLeft, Puttings!FoldLeft, MapThenFoldSet,
                 Puttings!MapThenFoldSet, Max, Puttings!Max
<1>4. ASSUME NEW m, NEW s PROVE FoldLeft(Emit, m, s) = Emits!Fold(m, s)
    BY Zenon DEF Emits!Fold, FoldLeft, Emits!FoldLeft, MapThenFoldSet,
                 Emits!MapThenFoldSet, Max, Emits!Max
<1>. QED  BY <1>1, <1>2, <1>3, <1>4, Zenon DEF merge, Left, Full

LEMMA Replaced ==
    ASSUME NEW m, Carried(m), NEW set, NEW order
    PROVE  [m EXCEPT !.set = set, !.order = order]
              = [set |-> set, order |-> order, out |-> m.out]
<1>. DEFINE one == [m EXCEPT !.set = set]
<1>1. [m EXCEPT !.set = set, !.order = order] = [one EXCEPT !.order = order]
    OBVIOUS
<1>2. one = [set |-> set, order |-> m.order, out |-> m.out]
    BY DEF Carried
<1>. HIDE DEF one
<1>3. one = [set |-> one.set, order |-> one.order, out |-> one.out]
    BY <1>2
<1>4. [one EXCEPT !.order = order]
         = [set |-> one.set, order |-> order, out |-> one.out]
    BY <1>3
<1>. QED  BY <1>1, <1>2, <1>4

-----------------------------------------------------------------------------
\* The first loop: the published records by key, in their order.
LEMMA TakenIs ==
    ASSUME NEW c, IsZone(c)
    PROVE  LET m == Taken(c)
           IN  /\ Carried(m)
               /\ DOMAIN m.set = Keys(c)
               /\ \A i \in DOMAIN c : m.set[keyOf(c[i])] = Plain(c[i])
               /\ m.order = [i \in DOMAIN c |-> keyOf(c[i])]
               /\ m.out = <<>>
<1>. DEFINE n == Len(c)
<1>1. n \in Nat /\ DOMAIN c = 1 .. n /\ c \in Seq(ToSet(c))
    BY DEF IsZone
<1>2. PICK run : /\ run[0] = Nothing
                 /\ \A i \in 1 .. n : run[i] = TakeOver(run[i - 1], c[i])
                 /\ run[n] = Taken(c)
    BY <1>1, Takes!FoldIsALoop DEF Taken
<1>3. \A i, j \in 1 .. n : keyOf(c[i]) = keyOf(c[j]) => i = j
    BY <1>1 DEF IsZone
<1>. HIDE DEF n
<1>. DEFINE Inv(i) ==
        /\ Carried(run[i])
        /\ DOMAIN run[i].set = { keyOf(c[j]) : j \in 1 .. i }
        /\ \A j \in 1 .. i : run[i].set[keyOf(c[j])] = Plain(c[j])
        /\ run[i].order = [j \in 1 .. i |-> keyOf(c[j])]
        /\ run[i].out = <<>>
     T == { i \in Nat : Inv(i) }
<1>4. 0 \in T
    <2>1. run[0].order = [j \in 1 .. 0 |-> keyOf(c[j])]
        BY <1>2 DEF Nothing
    <2>. QED  BY <1>2, <2>1 DEF Nothing, Carried
<1>5. ASSUME NEW i \in 1 .. n, i - 1 \in T
      PROVE  i \in T
    <2>. DEFINE m == run[i - 1]
                k == keyOf(c[i])
    <2>1. Inv(i - 1) /\ i - 1 \in Nat
        BY <1>5
    <2>2. k \notin DOMAIN m.set
        BY <1>1, <1>3, <2>1
    <2>3. run[i] = [set   |-> Assign(m.set, k, Plain(c[i])),
                    order |-> Append(m.order, k), out |-> <<>>]
        <3>1. run[i] = TakeOver(m, c[i])
            BY <1>2
        <3>2. Remember(m.order, m.set, k) = Append(m.order, k)
            BY <2>2 DEF Remember
        <3>3. TakeOver(m, c[i]) = [m EXCEPT !.set = Assign(m.set, k, Plain(c[i])),
                                           !.order = Append(m.order, k)]
            BY <3>2 DEF TakeOver
        <3>. HIDE DEF m, k
        <3>. QED  BY <2>1, <3>1, <3>3, Replaced DEF m
    <2>4. Carried(run[i]) /\ run[i].out = <<>>
        BY <2>3 DEF Carried
    <2>5. 1 .. i = (1 .. (i - 1)) \union {i}
        BY <1>1
    <2>6. DOMAIN run[i].set = { keyOf(c[j]) : j \in 1 .. i }
        BY <2>1, <2>3, <2>5 DEF Assign
    <2>7. ASSUME NEW j \in 1 .. i
          PROVE  run[i].set[keyOf(c[j])] = Plain(c[j])
        <3>1. CASE j = i
            BY <2>3, <3>1 DEF Assign
        <3>2. CASE j # i
            <4>1. j \in 1 .. (i - 1) /\ keyOf(c[j]) \in DOMAIN m.set
                BY <2>1, <2>5, <3>2
            <4>2. run[i].set[keyOf(c[j])] = m.set[keyOf(c[j])]
                BY <2>2, <2>3, <4>1 DEF Assign
            <4>. QED  BY <2>1, <4>1, <4>2
        <3>. QED  BY <3>1, <3>2
    <2>8. run[i].order = [j \in 1 .. i |-> keyOf(c[j])]
        <3>1. m.order \in Seq({ keyOf(c[j]) : j \in 1 .. i }) /\ Len(m.order) = i - 1
            BY <2>1
        <3>. QED  BY <2>1, <2>3, <3>1
    <2>. QED  BY <2>4, <2>6, <2>7, <2>8
<1>6. n \in T
    <2>. HIDE DEF T
    <2>1. \A i \in 0 .. n : i \in T
        BY <1>1, <1>4, <1>5, Takes!UpTo
    <2>. QED  BY <1>1, <2>1
<1>7. { keyOf(c[j]) : j \in 1 .. n } = Keys(c)
    BY <1>1 DEF Keys, ToSet
<1>. QED  BY <1>1, <1>2, <1>6, <1>7

\* The second loop: what is to be deleted is gone, the order is kept.
LEMMA LeftIs ==
    ASSUME NEW m, Carried(m), NEW s, s \in Seq(ToSet(s))
    PROVE  LET f == Drops!Fold(m, s)
           IN  /\ Carried(f)
               /\ DOMAIN f.set
                     = DOMAIN m.set \ { providerKey(r) : r \in ToSet(s) }
               /\ \A k \in DOMAIN f.set : f.set[k] = m.set[k]
               /\ f.order = m.order
               /\ f.out = m.out
<1>. DEFINE n == Len(s)
            gone(i) == { providerKey(s[j]) : j \in 1 .. i }
<1>1. n \in Nat /\ DOMAIN s = 1 .. n
    OBVIOUS
<1>2. PICK run : /\ run[0] = m
                 /\ \A i \in 1 .. n : run[i] = Drop(run[i - 1], s[i])
                 /\ run[n] = Drops!Fold(m, s)
    BY Drops!FoldIsALoop
<1>. HIDE DEF n
<1>. DEFINE Inv(i) ==
        /\ Carried(run[i])
        /\ DOMAIN run[i].set = DOMAIN m.set \ gone(i)
        /\ \A k \in DOMAIN run[i].set : run[i].set[k] = m.set[k]
        /\ run[i].order = m.order
        /\ run[i].out = m.out
     T == { i \in Nat : Inv(i) }
<1>3. 0 \in T
    BY <1>2
<1>4. ASSUME NEW i \in 1 .. n, i - 1 \in T
      PROVE  i \in T
    <2>. DEFINE l == run[i - 1]
                d == providerKey(s[i])
                rest == [k \in DOMAIN l.set \ {d} |-> l.set[k]]
    <2>1. Inv(i - 1)
        BY <1>4
    <2>2. run[i] = [l EXCEPT !.set = rest]
        <3>1. run[i] = Drop(l, s[i])
            BY <1>2
        <3>2. Drop(l, s[i]) = [l EXCEPT !.set = rest]
            BY Zenon DEF Drop
        <3>. QED  BY <3>1, <3>2
    <2>3. run[i] = [set |-> rest, order |-> l.order, out |-> l.out]
        <3>. HIDE DEF rest, l
        <3>. QED  BY <2>1, <2>2 DEF Carried, l
    <2>4. Carried(run[i]) /\ run[i].order = m.order /\ run[i].out = m.out
        <3>. HIDE DEF rest
        <3>. QED  BY <2>1, <2>3 DEF Carried
    <2>5. run[i].set = rest
        <3>. HIDE DEF rest
        <3>. QED  BY <2>3
    <2>6. gone(i) = gone(i - 1) \union {d}
        <3>1. 1 .. i = (1 .. (i - 1)) \union {i}
            BY <1>1
        <3>. QED  BY <3>1
    <2>7. DOMAIN run[i].set = DOMAIN m.set \ gone(i)
        <3>. HIDE DEF gone, d
        <3>. QED  BY <2>1, <2>5, <2>6
    <2>8. \A k \in DOMAIN run[i].set : run[i].set[k] = m.set[k]
        BY <2>1, <2>5
    <2>. HIDE DEF gone
    <2>. QED  BY <1>1, <2>4, <2>7, <2>8
<1>5. n \in T
    <2>. HIDE DEF T
    <2>1. \A i \in 0 .. n : i \in T
        BY <1>1, <1>3, <1>4, Takes!UpTo
    <2>. QED  BY <1>1, <2>1
<1>6. gone(n) = { providerKey(r) : r \in ToSet(s) }
    BY <1>1 DEF ToSet
<1>. HIDE DEF gone
<1>. QED  BY <1>2, <1>5, <1>6

-----------------------------------------------------------------------------
\* The record the third loop starts from under a key.
Base(set, k) ==
    IF k \in DOMAIN set THEN set[k]
    ELSE [name |-> k.name, rrtype |-> k.rrtype, ttl |-> Null, rdata |-> <<>>,
          labels |-> {}, description |-> ""]

\* A record with the TTL and the values of a record of the change set.
Rewritten(b, r) ==
    [name |-> b.name, rrtype |-> b.rrtype, ttl |-> toTTL(r.ttl),
     rdata |-> Rdata(r), labels |-> b.labels, description |-> b.description]

LEMMA WrittenIs ==
    ASSUME NEW set, NEW r,
           providerKey(r) \in DOMAIN set => IsRecord(set[providerKey(r)])
    PROVE  Written(set, r) = Rewritten(Base(set, providerKey(r)), r)
<1>. DEFINE k == providerKey(r)
            b == set[k]
            t == toTTL(r.ttl)
            v == Rdata(r)
            one == [b EXCEPT !.ttl = t]
<1>1. CASE k \in DOMAIN set
    <2>1. Written(set, r) = [b EXCEPT !.ttl = t, !.rdata = v]
        BY <1>1, Zenon DEF Written
    <2>2. [b EXCEPT !.ttl = t, !.rdata = v] = [one EXCEPT !.rdata = v]
        <3>. HIDE DEF b, t, v
        <3>. QED  OBVIOUS
    <2>3. IsRecord(b)
        BY <1>1
    <2>4. one = [name |-> b.name, rrtype |-> b.rrtype, ttl |-> t,
                 rdata |-> b.rdata, labels |-> b.labels,
                 description |-> b.description]
        <3>. HIDE DEF b, t, v
        <3>. QED  BY <2>3 DEF IsRecord
    <2>5. one = [name |-> one.name, rrtype |-> one.rrtype, ttl |-> one.ttl,
                 rdata |-> one.rdata, labels |-> one.labels,
                 description |-> one.description]
        <3>. HIDE DEF b, t, v, one
        <3>. QED  BY <2>4
    <2>6. [one EXCEPT !.rdata = v]
             = [name |-> one.name, rrtype |-> one.rrtype, ttl |-> one.ttl,
                rdata |-> v, labels |-> one.labels,
                description |-> one.description]
        <3>. HIDE DEF b, t, v, one
        <3>. QED  BY <2>5
    <2>7. [one EXCEPT !.rdata = v] = Rewritten(b, r)
        <3>. HIDE DEF b, one
        <3>. QED  BY <2>4, <2>6 DEF Rewritten
    <2>8. Base(set, k) = b
        BY <1>1 DEF Base
    <2>. QED  BY <2>1, <2>2, <2>7, <2>8
<1>2. CASE k \notin DOMAIN set
    BY <1>2 DEF Written, Rewritten, Base
<1>. QED  BY <1>1, <1>2

LEMMA Appended ==
    ASSUME NEW s, s \in Seq(ToSet(s)), NEW e
    PROVE  LET t == Append(s, e)
           IN  /\ Len(s) \in Nat /\ DOMAIN s = 1 .. Len(s)
               /\ t \in Seq(ToSet(t))
               /\ ToSet(t) = ToSet(s) \union {e}
               /\ Len(t) = Len(s) + 1
               /\ DOMAIN t = 1 .. (Len(s) + 1)
               /\ \A p \in 1 .. Len(s) : t[p] = s[p]
               /\ t[Len(s) + 1] = e
               /\ Distinct(s) /\ e \notin ToSet(s) => Distinct(t)
<1>. DEFINE t == Append(s, e)
            S == ToSet(s) \union {e}
<1>1. s \in Seq(S) /\ e \in S
    BY DEF ToSet
<1>2. Len(s) \in Nat /\ DOMAIN s = 1 .. Len(s)
    OBVIOUS
<1>3. /\ t \in Seq(S) /\ Len(t) = Len(s) + 1
      /\ \A p \in 1 .. Len(s) : t[p] = s[p]
      /\ t[Len(s) + 1] = e
    <2>. HIDE DEF S
    <2>. QED  BY <1>1, <1>2
<1>4. DOMAIN t = 1 .. (Len(s) + 1)
    BY <1>3
<1>. HIDE DEF t
<1>5. ToSet(t) = S
    BY <1>2, <1>3, <1>4 DEF ToSet
<1>6. ASSUME Distinct(s), e \notin ToSet(s)
      PROVE  Distinct(t)
    <2>1. \A p \in 1 .. Len(s) : s[p] # e
        BY <1>2, <1>6 DEF ToSet
    <2>. QED  BY <1>2, <1>3, <1>4, <1>6, <2>1 DEF Distinct
<1>. QED  BY <1>2, <1>3, <1>4, <1>5, <1>6 DEF t

\* f is m with the records s under the keys written: under each the TTL and
\* the values of the last record there is; new keys go to the end.
IsFull(m, s, written, f) ==
    /\ Carried(f)
    /\ DOMAIN f.set = DOMAIN m.set \union written
    /\ \A k \in DOMAIN m.set \ written : f.set[k] = m.set[k]
    /\ \A j \in DOMAIN s :
          (\A l \in DOMAIN s : l > j => providerKey(s[l]) # providerKey(s[j]))
          => f.set[providerKey(s[j])]
                = Rewritten(Base(m.set, providerKey(s[j])), s[j])
    /\ f.order \in Seq(ToSet(f.order)) /\ Distinct(f.order)
    /\ ToSet(f.order) = ToSet(m.order) \union written
    /\ Len(m.order) <= Len(f.order)
    /\ \A p \in 1 .. Len(m.order) : f.order[p] = m.order[p]
    /\ written \subseteq DOMAIN m.set => f.order = m.order
    /\ f.out = m.out

\* The third loop: what is created or updated.
LEMMA FullIs ==
    ASSUME NEW m, Carried(m), NEW s, s \in Seq(ToSet(s)),
           NEW written, written = { providerKey(r) : r \in ToSet(s) },
           \A k \in DOMAIN m.set : IsRecord(m.set[k]),
           m.order \in Seq(ToSet(m.order)), Distinct(m.order),
           DOMAIN m.set \subseteq ToSet(m.order),
           written \intersect ToSet(m.order) \subseteq DOMAIN m.set
    PROVE  IsFull(m, s, written, Puttings!Fold(m, s))
<1>. DEFINE n == Len(s)
            key(j) == providerKey(s[j])
            put(i) == { key(j) : j \in 1 .. i }
<1>1. n \in Nat /\ DOMAIN s = 1 .. n
    OBVIOUS
<1>2. PICK run : /\ run[0] = m
                 /\ \A i \in 1 .. n : run[i] = Put(run[i - 1], s[i])
                 /\ run[n] = Puttings!Fold(m, s)
    BY Puttings!FoldIsALoop
<1>3. put(n) = written
    BY <1>1 DEF ToSet
<1>4. \A i \in 1 .. n : key(i) \in put(n)
    BY <1>1
<1>. HIDE DEF n
<1>. DEFINE Records(i) ==
        /\ DOMAIN run[i].set = DOMAIN m.set \union put(i)
        /\ \A k \in DOMAIN run[i].set : IsRecord(run[i].set[k])
        /\ \A k \in DOMAIN m.set \ put(i) : run[i].set[k] = m.set[k]
        /\ \A j \in 1 .. i : \E r :
              run[i].set[key(j)] = Rewritten(Base(m.set, key(j)), r)
        /\ \A j \in 1 .. i :
              (\A l \in 1 .. i : l > j => key(l) # key(j))
              => run[i].set[key(j)] = Rewritten(Base(m.set, key(j)), s[j])
     Order(i) ==
        /\ run[i].order \in Seq(ToSet(run[i].order)) /\ Distinct(run[i].order)
        /\ ToSet(run[i].order) = ToSet(m.order) \union put(i)
        /\ Len(m.order) <= Len(run[i].order)
        /\ \A p \in 1 .. Len(m.order) : run[i].order[p] = m.order[p]
        /\ put(i) \subseteq DOMAIN m.set => run[i].order = m.order
     T == { i \in Nat : /\ Carried(run[i]) /\ run[i].out = m.out
                        /\ Records(i) /\ Order(i) }
<1>5. 0 \in T
    <2>1. put(0) = {}
        OBVIOUS
    <2>. HIDE DEF put
    <2>. QED  BY <1>2, <2>1
<1>6. ASSUME NEW i \in 1 .. n, i - 1 \in T
      PROVE  i \in T
    <2>. DEFINE u == run[i - 1]
                k == key(i)
                w == Written(u.set, s[i])
    <2>1. Carried(u) /\ u.out = m.out /\ Records(i - 1) /\ Order(i - 1)
        BY <1>6
    <2>2. run[i] = [set |-> Assign(u.set, k, w),
                    order |-> Remember(u.order, u.set, k), out |-> m.out]
        <3>1. run[i] = Put(u, s[i])
            BY <1>2
        <3>2. Put(u, s[i]) = [u EXCEPT !.set = Assign(u.set, k, w),
                                       !.order = Remember(u.order, u.set, k)]
            BY Zenon DEF Put
        <3>3. Carried(u) /\ u.out = m.out
            BY <2>1
        <3>. HIDE DEF u, k, w, T, Records, Order, put, key
        <3>. QED  BY <3>1, <3>2, <3>3, Replaced
    <2>3. 1 .. i = (1 .. (i - 1)) \union {i} /\ put(i) = put(i - 1) \union {k}
        <3>1. 1 .. i = (1 .. (i - 1)) \union {i}
            BY <1>1
        <3>. QED  BY <3>1
    <2>4. Carried(run[i]) /\ run[i].out = m.out
        <3>. HIDE DEF u, k, w
        <3>. QED  BY <2>2 DEF Carried
    <2>5. run[i].set = [x \in DOMAIN u.set \union {k} |->
                           IF x = k THEN w ELSE u.set[x]]
        <3>. HIDE DEF u, k, w
        <3>. QED  BY <2>2 DEF Assign
    <2>6. w = Rewritten(Base(u.set, k), s[i])
        BY <2>1, WrittenIs
    <2>7. w = Rewritten(Base(m.set, k), s[i])
        <3>1. CASE k \in put(i - 1)
            <4>1. PICK j \in 1 .. (i - 1) : k = key(j)
                BY <3>1
            <4>2. PICK r : u.set[k] = Rewritten(Base(m.set, k), r)
                BY <2>1, <4>1
            <4>3. Base(u.set, k) = u.set[k]
                <5>. HIDE DEF u, put, k
                <5>. QED  BY <2>1, <3>1 DEF Base, u
            <4>4. Rewritten(u.set[k], s[i]) = Rewritten(Base(m.set, k), s[i])
                <5>. HIDE DEF u, k
                <5>. QED  BY <4>2 DEF Rewritten
            <4>. QED  BY <2>6, <4>3, <4>4
        <3>2. CASE k \notin put(i - 1)
            <4>1. Base(u.set, k) = Base(m.set, k)
                <5>. HIDE DEF put, k
                <5>. QED  BY <2>1, <3>2 DEF Base
            <4>. QED  BY <2>6, <4>1
        <3>. QED  BY <3>1, <3>2
    <2>8. Records(i)
        <3>1. DOMAIN run[i].set = DOMAIN m.set \union put(i)
            <4>. HIDE DEF put, k, w
            <4>. QED  BY <2>1, <2>3, <2>5
        <3>2. IsRecord(w)
            <4>. HIDE DEF w, k
            <4>. QED  BY <2>7 DEF Rewritten, IsRecord
        <3>3. \A x \in DOMAIN run[i].set : IsRecord(run[i].set[x])
            <4>. HIDE DEF w, k
            <4>. QED  BY <2>1, <2>5, <3>2
        <3>4. \A x \in DOMAIN m.set \ put(i) : run[i].set[x] = m.set[x]
            <4>. HIDE DEF put, w, k
            <4>. QED  BY <2>1, <2>3, <2>5
        <3>5. run[i].set[k] = w
            <4>. HIDE DEF w, k
            <4>. QED  BY <2>5
        <3>6. \A j \in 1 .. (i - 1) : key(j) # k =>
                 run[i].set[key(j)] = u.set[key(j)]
            <4>1. \A j \in 1 .. (i - 1) : key(j) \in DOMAIN u.set
                BY <2>1
            <4>. HIDE DEF w, k, key, u
            <4>. QED  BY <2>5, <4>1
        <3>7. ASSUME NEW j \in 1 .. i
              PROVE  \E r : run[i].set[key(j)] = Rewritten(Base(m.set, key(j)), r)
            <4>1. CASE key(j) = k
                <5>. HIDE DEF w, k, key
                <5>. QED  BY <2>7, <3>5, <4>1
            <4>2. CASE key(j) # k
                <5>1. j \in 1 .. (i - 1)
                    BY <2>3, <4>2
                <5>2. PICK r : u.set[key(j)] = Rewritten(Base(m.set, key(j)), r)
                    BY <2>1, <5>1
                <5>. HIDE DEF w, k, key, u
                <5>. QED  BY <3>6, <4>2, <5>1, <5>2
            <4>. QED  BY <4>1, <4>2
        <3>8. ASSUME NEW j \in 1 .. i,
                     \A l \in 1 .. i : l > j => key(l) # key(j)
              PROVE  run[i].set[key(j)] = Rewritten(Base(m.set, key(j)), s[j])
            <4>1. CASE j = i
                <5>. HIDE DEF w
                <5>. QED  BY <2>7, <3>5, <4>1
            <4>2. CASE j # i
                <5>1. j \in 1 .. (i - 1) /\ i > j /\ i \in 1 .. i
                    BY <1>1, <4>2
                <5>2. key(j) # k
                    BY <3>8, <5>1
                <5>3. \A l \in 1 .. (i - 1) : l > j => key(l) # key(j)
                    BY <2>3, <3>8
                <5>4. u.set[key(j)] = Rewritten(Base(m.set, key(j)), s[j])
                    BY <2>1, <5>1, <5>3
                <5>. HIDE DEF w, k, key, u
                <5>. QED  BY <3>6, <5>1, <5>2, <5>4
            <4>. QED  BY <4>1, <4>2
        <3>. HIDE DEF put, key
        <3>. QED  BY <3>1, <3>3, <3>4, <3>7, <3>8
    <2>9. Order(i)
        <3>1. CASE k \in DOMAIN u.set
            <4>1. run[i].order = u.order
                <5>. HIDE DEF u, k, w
                <5>. QED  BY <2>2, <3>1 DEF Remember
            <4>2. k \in ToSet(m.order) \union put(i - 1)
                <5>. HIDE DEF put, k
                <5>. QED  BY <2>1, <3>1
            <4>. HIDE DEF put, k
            <4>. QED  BY <2>1, <2>3, <4>1, <4>2
        <3>2. CASE k \notin DOMAIN u.set
            <4>1. run[i].order = Append(u.order, k)
                <5>. HIDE DEF u, k, w
                <5>. QED  BY <2>2, <3>2 DEF Remember
            <4>2. k \notin DOMAIN m.set /\ k \notin put(i - 1)
                <5>. HIDE DEF put, k
                <5>. QED  BY <2>1, <3>2
            <4>3. k \notin ToSet(u.order)
                <5>1. k \in put(n)
                    BY <1>4
                <5>. HIDE DEF put, k
                <5>. QED  BY <1>3, <2>1, <4>2, <5>1
            <4>4. Order(i - 1)
                BY <2>1
            <4>. HIDE DEF u, k, put
            <4>5. ToSet(m.order) \union put(i) = ToSet(u.order) \union {k}
                BY <2>3, <4>4 DEF u
            <4>6. k \in put(i) /\ Len(m.order) \in Nat
                BY <2>3
            <4>7. LET t == run[i].order
                  IN  /\ t \in Seq(ToSet(t)) /\ Distinct(t)
                      /\ ToSet(t) = ToSet(u.order) \union {k}
                      /\ Len(m.order) <= Len(t)
                      /\ \A p \in 1 .. Len(m.order) : t[p] = m.order[p]
                <5>1. /\ u.order \in Seq(ToSet(u.order)) /\ Distinct(u.order)
                      /\ Len(m.order) <= Len(u.order)
                      /\ \A p \in 1 .. Len(m.order) : u.order[p] = m.order[p]
                    BY <4>4 DEF u
                <5>. HIDE DEF Order
                <5>2. LET t == Append(u.order, k)
                      IN  /\ Len(u.order) \in Nat
                          /\ t \in Seq(ToSet(t)) /\ Distinct(t)
                          /\ ToSet(t) = ToSet(u.order) \union {k}
                          /\ Len(t) = Len(u.order) + 1
                          /\ \A p \in 1 .. Len(u.order) : t[p] = u.order[p]
                    BY <4>3, <5>1, Appended
                <5>. QED  BY <4>1, <4>6, <5>1, <5>2
            <4>. QED  BY <4>2, <4>5, <4>6, <4>7
        <3>. QED  BY <3>1, <3>2
    <2>. HIDE DEF Records, Order
    <2>. QED  BY <1>1, <2>4, <2>8, <2>9
<1>7. n \in T
    <2>. HIDE DEF T
    <2>1. \A i \in 0 .. n : i \in T
        BY <1>1, <1>5, <1>6, Takes!UpTo
    <2>. QED  BY <1>1, <2>1
<1>8. /\ Carried(run[n]) /\ run[n].out = m.out
      /\ Records(n) /\ Order(n)
    BY <1>7
<1>. HIDE DEF put
<1>. QED  BY <1>1, <1>2, <1>3, <1>8 DEF IsFull

-----------------------------------------------------------------------------
\* out holds the records of set under the first i keys of order, in order;
\* pos says where the key of each is.
Lists(pos, out, set, order, i) ==
    /\ out \in Seq(ToSet(out))
    /\ pos \in [1 .. Len(out) -> 1 .. i]
    /\ \A p, q \in 1 .. Len(out) : p < q => pos[p] < pos[q]
    /\ \A p \in 1 .. Len(out) :
          order[pos[p]] \in DOMAIN set /\ out[p] = set[order[pos[p]]]
    /\ \A j \in 1 .. i :
          order[j] \in DOMAIN set => \E p \in 1 .. Len(out) : pos[p] = j

\* One more record is listed.
LEMMA ListedNext ==
    ASSUME NEW o, NEW set, NEW order, NEW i \in Nat \ {0}, NEW pos,
           Lists(pos, o, set, order, i - 1), order[i] \in DOMAIN set
    PROVE  \E at : Lists(at, Append(o, set[order[i]]), set, order, i)
<1>. DEFINE e == set[order[i]]
            l == Len(o)
            out == Append(o, e)
            at == [p \in 1 .. (l + 1) |-> IF p = l + 1 THEN i ELSE pos[p]]
<1>1. /\ l \in Nat /\ out \in Seq(ToSet(out)) /\ Len(out) = l + 1
      /\ \A p \in 1 .. l : out[p] = o[p]
      /\ out[l + 1] = e
    <2>1. o \in Seq(ToSet(o))
        BY DEF Lists
    <2>. HIDE DEF e
    <2>. QED  BY <2>1, Appended
<1>2. /\ pos \in [1 .. l -> 1 .. (i - 1)]
      /\ \A p, q \in 1 .. l : p < q => pos[p] < pos[q]
      /\ \A p \in 1 .. l : order[pos[p]] \in DOMAIN set /\ o[p] = set[order[pos[p]]]
      /\ \A j \in 1 .. (i - 1) :
            order[j] \in DOMAIN set => \E p \in 1 .. l : pos[p] = j
    BY DEF Lists
<1>. HIDE DEF out, l
<1>3. /\ \A p \in 1 .. (l + 1) : p = l + 1 \/ p \in 1 .. l
      /\ 1 .. l \subseteq 1 .. (l + 1) /\ l + 1 \in 1 .. (l + 1)
      /\ \A p \in 1 .. l : p # l + 1
    BY <1>1
<1>4. /\ at[l + 1] = i
      /\ \A p \in 1 .. l : at[p] = pos[p] /\ pos[p] \in 1 .. (i - 1)
    BY <1>1, <1>2, <1>3
<1>5. at \in [1 .. (l + 1) -> 1 .. i]
    BY <1>1, <1>2
<1>. HIDE DEF at, e
<1>6. ASSUME NEW p \in 1 .. (l + 1), NEW q \in 1 .. (l + 1), p < q
      PROVE  at[p] < at[q]
    <2>1. p \in 1 .. l
        BY <1>1, <1>6
    <2>2. at[p] = pos[p] /\ pos[p] \in 1 .. (i - 1)
        BY <1>4, <2>1
    <2>3. CASE q = l + 1
        BY <1>4, <2>2, <2>3
    <2>4. CASE q # l + 1
        <3>1. q \in 1 .. l
            BY <1>3, <2>4
        <3>. QED  BY <1>2, <1>4, <1>6, <2>1, <2>2, <3>1
    <2>. QED  BY <2>3, <2>4
<1>7. \A p \in 1 .. (l + 1) : order[at[p]] \in DOMAIN set /\ out[p] = set[order[at[p]]]
    BY <1>1, <1>2, <1>3, <1>4 DEF e
<1>8. ASSUME NEW j \in 1 .. i, order[j] \in DOMAIN set
      PROVE  \E p \in 1 .. (l + 1) : at[p] = j
    <2>1. CASE j = i
        BY <1>3, <1>4, <2>1
    <2>2. CASE j # i
        <3>1. j \in 1 .. (i - 1)
            BY <2>2
        <3>. QED  BY <1>2, <1>3, <1>4, <1>8, <3>1
    <2>. QED  BY <2>1, <2>2
<1>9. Lists(at, out, set, order, i)
    BY <1>1, <1>5, <1>6, <1>7, <1>8 DEF Lists
<1>. QED  BY <1>9, Zenon DEF out, e

\* The fourth loop: every record is returned once, in the order of the keys.
LEMMA EmittedIs ==
    ASSUME NEW f, Carried(f), f.out = <<>>, f.order \in Seq(ToSet(f.order))
    PROVE  LET out == Emits!Fold(f, f.order).out
           IN  /\ \E pos : Lists(pos, out, f.set, f.order, Len(f.order))
               /\ ToSet(f.order) \subseteq DOMAIN f.set =>
                     /\ Len(out) = Len(f.order)
                     /\ \A i \in 1 .. Len(out) : out[i] = f.set[f.order[i]]
<1>. DEFINE order == f.order
            n == Len(order)
<1>1. n \in Nat /\ DOMAIN order = 1 .. n
    OBVIOUS
<1>2. PICK run : /\ run[0] = f
                 /\ \A i \in 1 .. n : run[i] = Emit(run[i - 1], order[i])
                 /\ run[n] = Emits!Fold(f, order)
    BY Emits!FoldIsALoop
<1>3. \A i \in 1 .. n : order[i] \in ToSet(order)
    BY <1>1 DEF ToSet
<1>. HIDE DEF n
<1>. DEFINE All(i) == \A j \in 1 .. i : order[j] \in DOMAIN f.set
            Inv(i) == LET out == run[i].out
                      IN  /\ run[i] = [set |-> f.set, order |-> order,
                                       out |-> out]
                          /\ \E pos : Lists(pos, out, f.set, order, i)
                          /\ All(i) =>
                                /\ Len(out) = i
                                /\ \A j \in 1 .. i : out[j] = f.set[order[j]]
            T == { i \in Nat : Inv(i) }
<1>4. 0 \in T
    <2>1. Lists([p \in 1 .. 0 |-> 0], <<>>, f.set, order, 0)
        BY DEF Lists
    <2>. QED  BY <1>2, <2>1 DEF Carried
<1>5. ASSUME NEW i \in 1 .. n, i - 1 \in T
      PROVE  i \in T
    <2>. DEFINE u == run[i - 1]
                k == order[i]
    <2>1. Inv(i - 1) /\ run[i] = Emit(u, k)
        BY <1>2, <1>5
    <2>2. PICK pos : Lists(pos, u.out, f.set, order, i - 1)
        BY <2>1
    <2>3. u = [set |-> f.set, order |-> order, out |-> u.out] /\ u.set = f.set
        <3>1. u = [set |-> f.set, order |-> order, out |-> u.out]
            BY <2>1
        <3>. HIDE DEF u
        <3>. QED  BY <3>1
    <2>4. 1 .. i = (1 .. (i - 1)) \union {i}
        BY <1>1
    <2>5. CASE k \notin DOMAIN f.set
        <3>1. run[i] = u
            <4>. HIDE DEF u, k
            <4>. QED  BY <2>1, <2>3, <2>5 DEF Emit
        <3>2. Lists(pos, u.out, f.set, order, i)
            <4>. HIDE DEF u
            <4>. QED  BY <2>2, <2>4, <2>5 DEF Lists
        <3>3. ~All(i)
            BY <2>4, <2>5
        <3>. HIDE DEF All
        <3>. QED  BY <1>1, <2>3, <3>1, <3>2, <3>3
    <2>6. CASE k \in DOMAIN f.set
        <3>. DEFINE e == f.set[k]
                    out == Append(u.out, e)
                    l == Len(u.out)
        <3>1. run[i] = [set |-> f.set, order |-> order, out |-> out]
            <4>1. run[i] = [u EXCEPT !.out = out]
                <5>1. Emit(u, k) = [u EXCEPT !.out = Append(u.out, u.set[k])]
                    BY <2>3, <2>6, Zenon DEF Emit
                <5>. HIDE DEF u, k
                <5>. QED  BY <2>1, <2>3, <5>1
            <4>. HIDE DEF u, out
            <4>. QED  BY <2>3, <4>1
        <3>2. /\ l \in Nat /\ out \in Seq(ToSet(out)) /\ Len(out) = l + 1
              /\ \A p \in 1 .. l : out[p] = u.out[p]
              /\ out[l + 1] = e
            <4>. HIDE DEF e, u
            <4>. QED  BY <2>2, Appended DEF Lists
        <3>3. \E at : Lists(at, out, f.set, order, i)
            BY <1>1, <2>2, <2>6, ListedNext
        <3>4. ASSUME All(i)
              PROVE  Len(out) = i /\ \A j \in 1 .. i : out[j] = f.set[order[j]]
            <4>1. All(i - 1)
                BY <2>4, <3>4
            <4>2. l = i - 1 /\ \A j \in 1 .. (i - 1) : u.out[j] = f.set[order[j]]
                BY <2>1, <4>1
            <4>3. out[i] = f.set[order[i]] /\ Len(out) = i
                <5>. HIDE DEF out, u, l
                <5>. QED  BY <1>1, <3>2, <4>2
            <4>4. \A j \in 1 .. (i - 1) : out[j] = f.set[order[j]]
                <5>. HIDE DEF out, u, l
                <5>. QED  BY <3>2, <4>2
            <4>. HIDE DEF out, u, l, e
            <4>. QED  BY <2>4, <4>3, <4>4
        <3>5. run[i].out = out
            <4>. HIDE DEF out
            <4>. QED  BY <3>1
        <3>. HIDE DEF out, All
        <3>. QED  BY <1>1, <3>1, <3>3, <3>4, <3>5
    <2>. QED  BY <2>5, <2>6
<1>6. n \in T
    <2>. HIDE DEF T
    <2>1. \A i \in 0 .. n : i \in T
        BY <1>1, <1>4, <1>5, Takes!UpTo
    <2>. QED  BY <1>1, <2>1
<1>7. Inv(n)
    BY <1>6
<1>. QED  BY <1>1, <1>2, <1>3, <1>7

-----------------------------------------------------------------------------
\* The last record of a change set under its name and type.
IsLast(cs, j) ==
    \A l \in DOMAIN Puts(cs) :
        l > j => providerKey(Puts(cs)[l]) # providerKey(Puts(cs)[j])

(***************************************************************************)
(* merge as a whole: the records by key, the keys in their order, and the  *)
(* records that are returned.                                              *)
(***************************************************************************)
THEOREM MergeIs ==
    ASSUME NEW c, IsZone(c), NEW cs, IsChangeSet(cs)
    PROVE  \E set, order, pos :
              /\ DOMAIN set = (Keys(c) \ deletedKeys(cs)) \union changedKeys(cs)
              /\ \A i \in DOMAIN c :
                    keyOf(c[i]) \in DOMAIN set \ changedKeys(cs)
                    => set[keyOf(c[i])] = Plain(c[i])
              /\ \A j \in DOMAIN Puts(cs) : IsLast(cs, j) =>
                    LET r == Puts(cs)[j]
                        k == providerKey(r)
                    IN  \E b : /\ set[k] = Rewritten(b, r)
                               /\ \A i \in DOMAIN c :
                                     keyOf(c[i]) = k => b = Plain(c[i])
                               /\ k \notin Keys(c) =>
                                     b.name = k.name /\ b.rrtype = k.rrtype
              /\ Distinct(order)
              /\ order \in Seq(ToSet(order)) /\ DOMAIN set \subseteq ToSet(order)
              /\ Len(c) <= Len(order)
              /\ \A i \in DOMAIN c : order[i] = keyOf(c[i])
              /\ Lists(pos, merge(c, cs), set, order, Len(order))
              /\ changedKeys(cs) \subseteq Keys(c)
                 /\ deletedKeys(cs) \intersect Keys(c) = {} =>
                    /\ Len(merge(c, cs)) = Len(c)
                    /\ \A i \in DOMAIN c : merge(c, cs)[i] = set[keyOf(c[i])]
<1>. DEFINE taken == Taken(c)
            left == Left(c, cs)
            full == Full(c, cs)
            keys == [i \in DOMAIN c |-> keyOf(c[i])]
            puts == Puts(cs)
            out == merge(c, cs)
<1>1. /\ Len(c) \in Nat /\ DOMAIN c = 1 .. Len(c) /\ c \in Seq(ToSet(c))
      /\ \A i \in DOMAIN c : IsRecord(c[i])
      /\ \A i, j \in DOMAIN c : keyOf(c[i]) = keyOf(c[j]) => i = j
    BY DEF IsZone, ToSet
<1>2. /\ cs.delete \in Seq(ToSet(cs.delete)) /\ puts \in Seq(ToSet(puts))
      /\ deletedKeys(cs) \intersect changedKeys(cs) = {}
    BY DEF IsChangeSet
<1>3. /\ Carried(taken) /\ DOMAIN taken.set = Keys(c) /\ taken.order = keys
      /\ \A i \in DOMAIN c : taken.set[keyOf(c[i])] = Plain(c[i])
      /\ taken.out = <<>>
    BY TakenIs
<1>. HIDE DEF taken, puts
<1>4. /\ Carried(left)
      /\ DOMAIN left.set = Keys(c) \ deletedKeys(cs)
      /\ \A k \in DOMAIN left.set : left.set[k] = taken.set[k]
      /\ left.order = keys /\ left.out = <<>>
    BY <1>2, <1>3, LeftIs DEF deletedKeys, Left, taken
<1>. HIDE DEF left
<1>5. /\ keys \in Seq(ToSet(keys)) /\ Len(keys) = Len(c) /\ DOMAIN keys = DOMAIN c
      /\ ToSet(keys) = Keys(c) /\ Distinct(keys)
    <2>1. keys \in Seq(ToSet(keys)) /\ Len(keys) = Len(c)
        BY <1>1 DEF ToSet
    <2>2. ToSet(keys) = Keys(c)
        BY DEF ToSet, Keys
    <2>. QED  BY <1>1, <2>1, <2>2 DEF Distinct
<1>6. \A i \in DOMAIN c : keys[i] = keyOf(c[i])
    OBVIOUS
<1>. HIDE DEF keys
<1>7. \A k \in Keys(c) : \E i \in DOMAIN c : k = keyOf(c[i])
    BY DEF Keys, ToSet
<1>8. \A k \in DOMAIN left.set : IsRecord(left.set[k])
    <2>1. \A i \in DOMAIN c : IsRecord(Plain(c[i]))
        BY <1>1 DEF IsRecord, Plain
    <2>. QED  BY <1>3, <1>4, <1>7, <2>1
<1>9. changedKeys(cs) = { providerKey(r) : r \in ToSet(puts) }
    BY DEF changedKeys, puts
<1>10. changedKeys(cs) \intersect ToSet(left.order) \subseteq DOMAIN left.set
    BY <1>2, <1>4, <1>5
<1>11. full = Puttings!Fold(left, puts)
    BY DEF Full, left, puts
<1>. HIDE DEF full, out
<1>12. IsFull(left, puts, changedKeys(cs), full)
    <2>1. /\ left.order \in Seq(ToSet(left.order)) /\ Distinct(left.order)
          /\ DOMAIN left.set \subseteq ToSet(left.order)
        BY <1>4, <1>5
    <2>. QED  BY <1>2, <1>4, <1>8, <1>9, <1>10, <1>11, <2>1, FullIs
<1>13. /\ Distinct(full.order) /\ full.order \in Seq(ToSet(full.order))
       /\ ToSet(full.order) = Keys(c) \union changedKeys(cs)
       /\ Len(c) <= Len(full.order) /\ full.out = <<>>
       /\ \A i \in DOMAIN c : full.order[i] = keyOf(c[i])
       /\ changedKeys(cs) \subseteq DOMAIN left.set => full.order = keys
    BY <1>1, <1>4, <1>5, <1>6, <1>12 DEF IsFull
<1>14. out = Emits!Fold(full, full.order).out
    BY MergeUnfolds DEF out, full
<1>15. PICK pos : Lists(pos, out, full.set, full.order, Len(full.order))
    BY <1>12, <1>13, <1>14, EmittedIs DEF IsFull
<1>16. ASSUME NEW i \in DOMAIN c,
              keyOf(c[i]) \in DOMAIN full.set \ changedKeys(cs)
       PROVE  full.set[keyOf(c[i])] = Plain(c[i])
    BY <1>3, <1>4, <1>12, <1>16 DEF IsFull
<1>17. ASSUME NEW j \in DOMAIN puts, IsLast(cs, j),
              NEW k, k = providerKey(puts[j])
       PROVE  \E b : /\ full.set[k] = Rewritten(b, puts[j])
                     /\ \A i \in DOMAIN c : keyOf(c[i]) = k => b = Plain(c[i])
                     /\ k \notin Keys(c) =>
                           b.name = k.name /\ b.rrtype = k.rrtype
    <2>. DEFINE b == Base(left.set, k)
    <2>1. full.set[k] = Rewritten(b, puts[j])
        BY <1>12, <1>17 DEF IsLast, IsFull, puts
    <2>2. ASSUME NEW i \in DOMAIN c, keyOf(c[i]) = k
          PROVE  b = Plain(c[i])
        <3>1. k \in Keys(c)
            BY <2>2 DEF Keys, ToSet
        <3>2. k \in changedKeys(cs)
            BY <1>17 DEF changedKeys, puts, ToSet
        <3>3. k \in DOMAIN left.set
            BY <1>2, <1>4, <3>1, <3>2
        <3>. QED  BY <1>3, <1>4, <2>2, <3>3 DEF Base
    <2>3. ASSUME k \notin Keys(c)
          PROVE  b.name = k.name /\ b.rrtype = k.rrtype
        BY <1>4, <2>3 DEF Base
    <2>. HIDE DEF b
    <2>. QED  BY <2>1, <2>2, <2>3
<1>18. ASSUME changedKeys(cs) \subseteq Keys(c),
              deletedKeys(cs) \intersect Keys(c) = {}
       PROVE  /\ Len(out) = Len(c)
              /\ \A i \in DOMAIN c : out[i] = full.set[keyOf(c[i])]
    <2>1. DOMAIN left.set = Keys(c) /\ DOMAIN full.set = Keys(c)
        BY <1>4, <1>12, <1>18 DEF IsFull
    <2>2. full.order = keys
        BY <1>13, <1>18, <2>1
    <2>3. Len(out) = Len(keys) /\ \A i \in 1 .. Len(out) : out[i] = full.set[keys[i]]
        BY <1>5, <1>12, <1>13, <1>14, <2>1, <2>2, EmittedIs
                DEF IsFull
    <2>. QED  BY <1>1, <1>5, <1>6, <2>3
<1>19. DOMAIN full.set = (Keys(c) \ deletedKeys(cs)) \union changedKeys(cs)
       /\ DOMAIN full.set \subseteq ToSet(full.order)
    BY <1>4, <1>12, <1>13 DEF IsFull
<1>. WITNESS full.set, full.order, pos
<1>. QED  BY <1>13, <1>15, <1>16, <1>17, <1>18, <1>19 DEF out, puts

-----------------------------------------------------------------------------
\* A key whose name is canonical, or cannot be parsed.
IsSettled(k) ==
    /\ k = recordKey(k.name, k.rrtype)
    /\ k.name \in DOMAIN Canonical => Canonical[k.name] = k.name

LEMMA KeysAreSettled ==
    /\ \A r : IsSettled(keyOf(r))
    /\ \A cs : IsChangeSet(cs) => \A k \in changedKeys(cs) : IsSettled(k)
    /\ \A r, k : RawKey(r) = k /\ IsSettled(k) => keyOf(r) = k
    /\ \A a, b : RawKey(a) = RawKey(b) => keyOf(a) = keyOf(b)
<1>1. ASSUME NEW r PROVE IsSettled(keyOf(r))
    BY CanonicalAssumption DEF IsSettled, keyOf, recordKey
<1>2. ASSUME NEW cs, IsChangeSet(cs), NEW k \in changedKeys(cs)
      PROVE  IsSettled(k)
    BY <1>2 DEF IsSettled, IsChangeSet, changedKeys, providerKey, recordKey
<1>3. ASSUME NEW a, NEW b, RawKey(a) = RawKey(b)
      PROVE  a.name = b.name /\ a.rrtype = b.rrtype
    BY <1>3 DEF RawKey, recordKey
<1>4. ASSUME NEW r, NEW k, RawKey(r) = k, IsSettled(k)
      PROVE  keyOf(r) = k
    <2>1. r.name = k.name /\ r.rrtype = k.rrtype
        BY <1>4 DEF RawKey, recordKey
    <2>. QED  BY <1>4, <2>1 DEF IsSettled, keyOf
<1>5. ASSUME NEW a, NEW b, RawKey(a) = RawKey(b)
      PROVE  keyOf(a) = keyOf(b)
    BY <1>3, <1>5 DEF keyOf
<1>. QED  BY <1>1, <1>2, <1>4, <1>5

LEMMA LastExists ==
    ASSUME NEW cs, IsChangeSet(cs), NEW k \in changedKeys(cs)
    PROVE  \E j \in DOMAIN Puts(cs) :
              IsLast(cs, j) /\ providerKey(Puts(cs)[j]) = k
<1>. DEFINE puts == Puts(cs)
            n == Len(puts)
            I == { j \in 1 .. n : providerKey(puts[j]) = k }
<1>1. n \in Nat /\ DOMAIN puts = 1 .. n
    BY DEF IsChangeSet
<1>2. I \in SUBSET (1 .. n) /\ I # {}
    BY <1>1 DEF changedKeys, ToSet
<1>3. \A J \in SUBSET (1 .. n) : J # {} => \E j \in J : \A l \in J : l <= j
    <2>. HIDE DEF n
    <2>. SUFFICES ASSUME NEW J \in SUBSET (1 .. n), J # {}
                  PROVE  \E j \in J : \A l \in J : l <= j
        OBVIOUS
    <2>. DEFINE V == { n - l : l \in J }
    <2>1. V \in SUBSET Nat /\ V # {}
        <3>1. \A l \in J : l \in 1 .. n /\ n - l \in Nat
            BY <1>1
        <3>. QED  BY <3>1
    <2>2. PICK m \in V : \A x \in V : m <= x
        <3>. HIDE DEF V
        <3>. QED  BY <2>1, Takes!LeastNumber
    <2>3. PICK j \in J : m = n - j
        OBVIOUS
    <2>4. \A l \in J : m <= n - l
        BY <2>2
    <2>. QED  BY <1>1, <2>3, <2>4
<1>4. PICK j \in I : \A l \in I : l <= j
    <2>. HIDE DEF I, n
    <2>. QED  BY <1>2, <1>3
<1>5. IsLast(cs, j)
    <2>1. ASSUME NEW l \in DOMAIN puts, l > j
          PROVE  providerKey(puts[l]) # k
        BY <1>1, <1>4, <2>1
    <2>. QED  BY <1>1, <1>4, <2>1 DEF IsLast
<1>. QED  BY <1>1, <1>4, <1>5

\* The mark changes nothing but labels.
IsMarked(x, cs, s) ==
    /\ s \in Seq(ToSet(s)) /\ Len(s) = Len(x) /\ DOMAIN s = DOMAIN x
    /\ \A p \in DOMAIN x :
          /\ IsRecord(s[p]) /\ s[p].ttl = x[p].ttl /\ s[p].rdata = x[p].rdata
          /\ s[p].description = x[p].description
          /\ RawKey(s[p]) = RawKey(x[p]) /\ keyOf(s[p]) = keyOf(x[p])
          /\ RawKey(x[p]) \in changedKeys(cs) => s[p].labels = managedBy
          /\ RawKey(x[p]) \notin changedKeys(cs) => s[p] = x[p]

LEMMA MarkedIs ==
    ASSUME NEW x, x \in Seq(ToSet(x)), \A p \in DOMAIN x : IsRecord(x[p]), NEW cs
    PROVE  IsMarked(x, cs, applyManagedBy(x, cs))
<1>. DEFINE s == applyManagedBy(x, cs)
<1>1. Len(x) \in Nat /\ DOMAIN x = 1 .. Len(x) /\ DOMAIN s = DOMAIN x
    BY DEF applyManagedBy
<1>2. s \in Seq(ToSet(s)) /\ Len(s) = Len(x)
    BY <1>1 DEF ToSet, applyManagedBy
<1>3. ASSUME NEW p \in DOMAIN x, RawKey(x[p]) \in changedKeys(cs)
      PROVE  s[p] = [name |-> x[p].name, rrtype |-> x[p].rrtype,
                     ttl |-> x[p].ttl, rdata |-> x[p].rdata,
                     labels |-> managedBy, description |-> x[p].description]
    <2>1. s[p] = [x[p] EXCEPT !.labels = managedBy]
        BY <1>3 DEF applyManagedBy
    <2>. HIDE DEF s
    <2>. QED  BY <2>1 DEF IsRecord
<1>4. ASSUME NEW p \in DOMAIN x, RawKey(x[p]) \notin changedKeys(cs)
      PROVE  s[p] = x[p]
    BY <1>4 DEF applyManagedBy
<1>. HIDE DEF s
<1>5. ASSUME NEW p \in DOMAIN x, RawKey(x[p]) \in changedKeys(cs)
      PROVE  /\ IsRecord(s[p]) /\ s[p].ttl = x[p].ttl
             /\ s[p].rdata = x[p].rdata
             /\ s[p].description = x[p].description
             /\ RawKey(s[p]) = RawKey(x[p])
             /\ s[p].labels = managedBy
    <2>. DEFINE a == s[p]
    <2>1. a = [name |-> x[p].name, rrtype |-> x[p].rrtype,
               ttl |-> x[p].ttl, rdata |-> x[p].rdata,
               labels |-> managedBy, description |-> x[p].description]
        BY <1>3, <1>5
    <2>. HIDE DEF a
    <2>2. /\ a.name = x[p].name /\ a.rrtype = x[p].rrtype /\ a.ttl = x[p].ttl
          /\ a.rdata = x[p].rdata /\ a.labels = managedBy
          /\ a.description = x[p].description
        BY <2>1
    <2>3. IsRecord(a)
        BY <2>1, <2>2 DEF IsRecord
    <2>. QED  BY <2>2, <2>3 DEF RawKey, a
<1>6. ASSUME NEW p \in DOMAIN x PROVE RawKey(s[p]) = RawKey(x[p])
    BY <1>4, <1>5
<1>7. ASSUME NEW p \in DOMAIN x PROVE keyOf(s[p]) = keyOf(x[p])
    BY <1>6, KeysAreSettled
<1>. QED  BY <1>1, <1>2, <1>4, <1>5, <1>6, <1>7 DEF IsMarked, s

LEMMA PlainIs ==
    ASSUME NEW r, IsRecord(r)
    PROVE  /\ IsRecord(Plain(r)) /\ Plain(Plain(r)) = Plain(r)
           /\ RawKey(Plain(r)) = RawKey(r) /\ keyOf(Plain(r)) = keyOf(r)
           /\ Plain(r).ttl = r.ttl /\ Plain(r).rdata = r.rdata
           /\ Plain(r).description = r.description
<1>. DEFINE b == Plain(r)
<1>1. b = [name |-> r.name, rrtype |-> r.rrtype, ttl |-> r.ttl,
           rdata |-> r.rdata, labels |-> IF r.labels = Null THEN {} ELSE r.labels,
           description |-> r.description]
    BY DEF Plain, IsRecord
<1>. HIDE DEF b
<1>2. IsRecord(b) /\ RawKey(b) = RawKey(r)
    BY <1>1 DEF IsRecord, RawKey
<1>3. Plain(b) = b
    <2>1. b.labels = IF r.labels = Null THEN {} ELSE r.labels
        BY <1>1
    <2>2. CASE b.labels # Null
        BY <2>2 DEF Plain
    <2>3. CASE b.labels = Null
        <3>1. {} = Null
            BY <2>1, <2>3
        <3>. QED  BY <1>2, <2>3, <3>1 DEF Plain, IsRecord
    <2>. QED  BY <2>2, <2>3
<1>. QED  BY <1>1, <1>2, <1>3, KeysAreSettled DEF b

-----------------------------------------------------------------------------
\* s is what the edit function sends in place of the zone c for cs.
IsSubmission(c, cs, s) ==
    /\ IsZone(s)
    /\ Keys(s) = (Keys(c) \ deletedKeys(cs)) \union changedKeys(cs)
    /\ \A i \in DOMAIN c, q \in DOMAIN s :
          keyOf(c[i]) = keyOf(s[q]) =>
             /\ RawKey(s[q]) = RawKey(c[i])
             /\ s[q].description = c[i].description
             /\ keyOf(s[q]) \notin changedKeys(cs) => s[q] = Plain(c[i])
    /\ \A q \in DOMAIN s :
          keyOf(s[q]) \notin Keys(c) => RawKey(s[q]) = keyOf(s[q])
    /\ \A q \in DOMAIN s, j \in DOMAIN Puts(cs) :
          IsLast(cs, j) /\ providerKey(Puts(cs)[j]) = keyOf(s[q]) =>
             /\ s[q].ttl = toTTL(Puts(cs)[j].ttl)
             /\ s[q].rdata = Rdata(Puts(cs)[j])
             /\ RawKey(s[q]) = keyOf(s[q]) => s[q].labels = managedBy
    /\ \A i, l \in DOMAIN c, p, q \in DOMAIN s :
          keyOf(c[i]) = keyOf(s[p]) /\ keyOf(c[l]) = keyOf(s[q]) /\ i < l => p < q
    /\ changedKeys(cs) \subseteq Keys(c) /\ deletedKeys(cs) \intersect Keys(c) = {}
       => /\ Len(s) = Len(c)
          /\ \A i \in DOMAIN c : keyOf(s[i]) = keyOf(c[i])

THEOREM SubmissionIs ==
    ASSUME NEW c, IsZone(c), NEW cs, IsChangeSet(cs)
    PROVE  IsSubmission(c, cs, Submission(c, cs))
<1>. DEFINE x == merge(c, cs)
            s == Submission(c, cs)
            puts == Puts(cs)
            changed == changedKeys(cs)
            deleted == deletedKeys(cs)
<1>1. /\ Len(c) \in Nat /\ DOMAIN c = 1 .. Len(c)
      /\ \A i \in DOMAIN c : IsRecord(c[i]) /\ c[i].ttl # 0
      /\ \A i \in DOMAIN c : keyOf(c[i]) \in Keys(c)
      /\ \A k \in Keys(c) : \E i \in DOMAIN c : k = keyOf(c[i])
      /\ \A i, l \in DOMAIN c : keyOf(c[i]) = keyOf(c[l]) => i = l
    BY DEF IsZone, Keys, ToSet
<1>2. PICK set, order, pos :
         /\ DOMAIN set = (Keys(c) \ deleted) \union changed
         /\ \A i \in DOMAIN c :
               keyOf(c[i]) \in DOMAIN set \ changed => set[keyOf(c[i])] = Plain(c[i])
         /\ \A j \in DOMAIN puts : IsLast(cs, j) =>
               LET r == puts[j]
                   k == providerKey(r)
               IN  \E b : /\ set[k] = Rewritten(b, r)
                          /\ \A i \in DOMAIN c : keyOf(c[i]) = k => b = Plain(c[i])
                          /\ k \notin Keys(c) =>
                                b.name = k.name /\ b.rrtype = k.rrtype
         /\ Distinct(order)
         /\ order \in Seq(ToSet(order)) /\ DOMAIN set \subseteq ToSet(order)
         /\ Len(c) <= Len(order)
         /\ \A i \in DOMAIN c : order[i] = keyOf(c[i])
         /\ Lists(pos, x, set, order, Len(order))
         /\ changed \subseteq Keys(c) /\ deleted \intersect Keys(c) = {} =>
               /\ Len(x) = Len(c)
               /\ \A i \in DOMAIN c : x[i] = set[keyOf(c[i])]
    BY MergeIs
<1>. HIDE DEF x, puts, changed, deleted
<1>3. ASSUME NEW i \in DOMAIN c
      PROVE  /\ IsRecord(Plain(c[i])) /\ RawKey(Plain(c[i])) = RawKey(c[i])
             /\ keyOf(Plain(c[i])) = keyOf(c[i]) /\ Plain(c[i]).ttl # 0
             /\ Plain(c[i]).description = c[i].description
    <2>1. IsRecord(c[i]) /\ c[i].ttl # 0
        BY <1>1
    <2>. QED  BY <2>1, PlainIs
<1>4. ASSUME NEW k \in changed
      PROVE  \E j \in DOMAIN puts : IsLast(cs, j) /\ providerKey(puts[j]) = k
    BY LastExists DEF changed, puts
<1>5. ASSUME NEW k \in changed
      PROVE  k = recordKey(k.name, k.rrtype) /\ IsSettled(k)
    BY KeysAreSettled DEF changed, IsSettled
\* What is written under a key of the change set.
<1>6. ASSUME NEW j \in DOMAIN puts, IsLast(cs, j),
             NEW k, k = providerKey(puts[j])
      PROVE  /\ IsRecord(set[k]) /\ set[k].ttl # 0 /\ keyOf(set[k]) = k
             /\ set[k].ttl = toTTL(puts[j].ttl) /\ set[k].rdata = Rdata(puts[j])
             /\ \A i \in DOMAIN c : keyOf(c[i]) = k =>
                   /\ RawKey(set[k]) = RawKey(c[i])
                   /\ set[k].description = c[i].description
             /\ k \notin Keys(c) => RawKey(set[k]) = k
    <2>1. PICK b : /\ set[k] = Rewritten(b, puts[j])
                   /\ \A i \in DOMAIN c : keyOf(c[i]) = k => b = Plain(c[i])
                   /\ k \notin Keys(c) => b.name = k.name /\ b.rrtype = k.rrtype
        BY <1>2, <1>6
    <2>. DEFINE e == set[k]
    <2>2. /\ e.name = b.name /\ e.rrtype = b.rrtype
          /\ e.ttl = toTTL(puts[j].ttl) /\ e.rdata = Rdata(puts[j])
          /\ e.description = b.description /\ IsRecord(e)
        BY <2>1 DEF Rewritten, IsRecord
    <2>. HIDE DEF e
    <2>3. RawKey(e) = RawKey(b)
        BY <2>2 DEF RawKey
    <2>4. e.ttl # 0
        BY <2>2, NullAssumption DEF toTTL
    <2>5. k \in changed
        BY <1>6 DEF changed, changedKeys, puts, ToSet
    <2>6. CASE k \notin Keys(c)
        <3>1. RawKey(e) = k
            BY <1>5, <2>1, <2>3, <2>5, <2>6 DEF RawKey
        <3>2. keyOf(e) = k
            BY <1>5, <2>5, <3>1, KeysAreSettled
        <3>. QED  BY <1>1, <2>2, <2>4, <2>6, <3>1, <3>2 DEF e
    <2>7. CASE k \in Keys(c)
        <3>1. PICK i \in DOMAIN c : k = keyOf(c[i])
            BY <1>1, <2>7
        <3>2. b = Plain(c[i])
            BY <2>1, <3>1
        <3>3. RawKey(e) = RawKey(c[i]) /\ e.description = c[i].description
            BY <1>3, <2>2, <2>3, <3>2
        <3>4. keyOf(e) = k
            BY <3>1, <3>3, KeysAreSettled
        <3>5. \A l \in DOMAIN c : keyOf(c[l]) = k => l = i
            BY <1>1, <3>1
        <3>. QED  BY <2>2, <2>4, <2>7, <3>3, <3>4, <3>5 DEF e
    <2>. QED  BY <2>6, <2>7
\* What is kept under a key, and what is written.
<1>7. ASSUME NEW k \in DOMAIN set
      PROVE  /\ IsRecord(set[k]) /\ set[k].ttl # 0 /\ keyOf(set[k]) = k
             /\ \A i \in DOMAIN c : keyOf(c[i]) = k =>
                   /\ RawKey(set[k]) = RawKey(c[i])
                   /\ set[k].description = c[i].description
                   /\ k \notin changed => set[k] = Plain(c[i])
             /\ k \notin Keys(c) => RawKey(set[k]) = k
    <2>1. CASE k \in changed
        <3>1. PICK j \in DOMAIN puts : IsLast(cs, j) /\ providerKey(puts[j]) = k
            BY <1>4, <2>1
        <3>. QED  BY <1>6, <2>1, <3>1
    <2>2. CASE k \notin changed
        <3>1. PICK i \in DOMAIN c : k = keyOf(c[i])
            BY <1>1, <1>2, <2>2
        <3>2. set[k] = Plain(c[i])
            BY <1>2, <2>2, <3>1
        <3>3. \A l \in DOMAIN c : keyOf(c[l]) = k => l = i
            BY <1>1, <3>1
        <3>. QED  BY <1>1, <1>3, <3>1, <3>2, <3>3
    <2>. QED  BY <2>1, <2>2
<1>8. /\ x \in Seq(ToSet(x)) /\ Len(x) \in Nat /\ DOMAIN x = 1 .. Len(x)
      /\ pos \in [1 .. Len(x) -> 1 .. Len(order)]
      /\ \A p, q \in DOMAIN x : p < q => pos[p] < pos[q]
      /\ \A p \in DOMAIN x :
            order[pos[p]] \in DOMAIN set /\ x[p] = set[order[pos[p]]]
      /\ \A j \in 1 .. Len(order) :
            order[j] \in DOMAIN set => \E p \in DOMAIN x : pos[p] = j
    <2>1. Lists(pos, x, set, order, Len(order))
        BY <1>2
    <2>2. x \in Seq(ToSet(x))
        BY <2>1 DEF Lists
    <2>3. Len(x) \in Nat /\ DOMAIN x = 1 .. Len(x)
        BY <2>2
    <2>. QED  BY <2>1, <2>2, <2>3 DEF Lists
<1>9. DOMAIN order = 1 .. Len(order) /\ Len(order) \in Nat
    BY <1>2
<1>10. ASSUME NEW p \in DOMAIN x
       PROVE  /\ keyOf(x[p]) = order[pos[p]] /\ x[p] = set[keyOf(x[p])]
              /\ keyOf(x[p]) \in DOMAIN set
    BY <1>7, <1>8
<1>11. \A p \in DOMAIN x : IsRecord(x[p])
    BY <1>7, <1>10
\* The mark is added.
<1>12. /\ s \in Seq(ToSet(s)) /\ Len(s) = Len(x) /\ DOMAIN s = DOMAIN x
       /\ \A p \in DOMAIN x :
             /\ IsRecord(s[p]) /\ s[p].ttl = x[p].ttl
             /\ s[p].rdata = x[p].rdata
             /\ s[p].description = x[p].description
             /\ RawKey(s[p]) = RawKey(x[p]) /\ keyOf(s[p]) = keyOf(x[p])
             /\ RawKey(x[p]) \in changed => s[p].labels = managedBy
             /\ RawKey(x[p]) \notin changed => s[p] = x[p]
    <2>1. s = applyManagedBy(x, cs)
        BY DEF Submission, x
    <2>. HIDE DEF s
    <2>2. IsMarked(x, cs, s)
        BY <1>8, <1>11, <2>1, MarkedIs
    <2>. QED  BY <2>2 DEF IsMarked, changed
<1>. HIDE DEF s
<1>13. \A p, q \in DOMAIN s : keyOf(s[p]) = keyOf(s[q]) => p = q
    <2>. SUFFICES ASSUME NEW p \in DOMAIN x, NEW q \in DOMAIN x,
                         keyOf(s[p]) = keyOf(s[q])
                  PROVE  p = q
        BY <1>12
    <2>1. order[pos[p]] = order[pos[q]]
        BY <1>10, <1>12
    <2>2. pos[p] \in DOMAIN order /\ pos[q] \in DOMAIN order
        BY <1>8, <1>9
    <2>3. pos[p] = pos[q]
        BY <1>2, <2>1, <2>2 DEF Distinct
    <2>4. p \in Nat /\ q \in Nat /\ ~(p < q) /\ ~(q < p)
        BY <1>8, <1>9, <2>2, <2>3
    <2>. QED  BY <2>4
<1>14. \A q \in DOMAIN s : /\ q \in DOMAIN x /\ x[q] = set[keyOf(s[q])]
                          /\ keyOf(s[q]) \in DOMAIN set
    BY <1>10, <1>12
<1>15. IsZone(s)
    <2>1. \A p \in DOMAIN s : IsRecord(s[p]) /\ s[p].ttl # 0
        BY <1>7, <1>12, <1>14
    <2>. QED  BY <1>12, <1>13, <2>1 DEF IsZone, ToSet
<1>16. Keys(s) = DOMAIN set
    <2>1. ASSUME NEW k \in DOMAIN set
          PROVE  \E p \in DOMAIN s : keyOf(s[p]) = k
        <3>1. PICK j \in 1 .. Len(order) : order[j] = k
            BY <1>2, <1>9 DEF ToSet
        <3>2. PICK p \in DOMAIN x : pos[p] = j
            BY <1>8, <3>1
        <3>. QED  BY <1>10, <1>12, <3>1, <3>2
    <2>. QED  BY <1>14, <2>1 DEF Keys, ToSet
<1>17. ASSUME NEW i \in DOMAIN c, NEW q \in DOMAIN s, keyOf(c[i]) = keyOf(s[q])
       PROVE  /\ RawKey(s[q]) = RawKey(c[i])
              /\ s[q].description = c[i].description
              /\ keyOf(s[q]) \notin changed => s[q] = Plain(c[i])
    <2>. DEFINE k == keyOf(s[q])
    <2>1. /\ k \in DOMAIN set /\ x[q] = set[k] /\ k = keyOf(x[q])
          /\ RawKey(set[k]) = RawKey(c[i])
          /\ set[k].description = c[i].description
          /\ k \notin changed => set[k] = Plain(c[i])
        BY <1>7, <1>12, <1>14, <1>17
    <2>2. RawKey(x[q]) \in changed => RawKey(x[q]) = k
        BY <1>5, <2>1, KeysAreSettled
    <2>. QED  BY <1>12, <1>14, <2>1, <2>2
<1>18. ASSUME NEW q \in DOMAIN s, keyOf(s[q]) \notin Keys(c)
       PROVE  RawKey(s[q]) = keyOf(s[q])
    BY <1>7, <1>12, <1>14, <1>18
<1>19. ASSUME NEW q \in DOMAIN s, NEW j \in DOMAIN puts, IsLast(cs, j),
              providerKey(puts[j]) = keyOf(s[q])
       PROVE  /\ s[q].ttl = toTTL(puts[j].ttl) /\ s[q].rdata = Rdata(puts[j])
              /\ RawKey(s[q]) = keyOf(s[q]) => s[q].labels = managedBy
    <2>1. keyOf(s[q]) \in changed
        BY <1>19 DEF changed, changedKeys, puts, ToSet
    <2>. QED  BY <1>6, <1>12, <1>14, <1>19, <2>1
<1>20. ASSUME NEW i \in DOMAIN c, NEW l \in DOMAIN c,
              NEW p \in DOMAIN s, NEW q \in DOMAIN s,
              keyOf(c[i]) = keyOf(s[p]), keyOf(c[l]) = keyOf(s[q]), i < l
       PROVE  p < q
    <2>1. /\ i \in DOMAIN order /\ l \in DOMAIN order
          /\ pos[p] \in DOMAIN order /\ pos[q] \in DOMAIN order
        <3>1. Len(c) <= Len(order)
            BY <1>2
        <3>2. p \in DOMAIN x /\ q \in DOMAIN x
            BY <1>12
        <3>. QED  BY <1>1, <1>8, <1>9, <3>1, <3>2
    <2>2. order[pos[p]] = order[i] /\ order[pos[q]] = order[l]
        BY <1>2, <1>10, <1>12, <1>20
    <2>3. pos[p] = i /\ pos[q] = l
        BY <1>2, <2>1, <2>2 DEF Distinct
    <2>4. p \in Nat /\ q \in Nat /\ p # q /\ ~(q < p)
        BY <1>8, <1>9, <1>12, <1>20, <2>1, <2>3
    <2>. QED  BY <2>4
<1>21. ASSUME changed \subseteq Keys(c), deleted \intersect Keys(c) = {}
       PROVE  Len(s) = Len(c) /\ \A i \in DOMAIN c : keyOf(s[i]) = keyOf(c[i])
    <2>1. Len(x) = Len(c) /\ \A i \in DOMAIN c : x[i] = set[keyOf(c[i])]
        BY <1>2, <1>21
    <2>2. \A i \in DOMAIN c : keyOf(c[i]) \in DOMAIN set /\ i \in DOMAIN x
        BY <1>1, <1>2, <1>8, <1>21, <2>1
    <2>. QED  BY <1>7, <1>12, <2>1, <2>2
<1>. QED  BY <1>2, <1>15, <1>16, <1>17, <1>18, <1>19, <1>20, <1>21
          DEF IsSubmission, s, puts, changed, deleted

-----------------------------------------------------------------------------
\* Zones that differ in absent labels only.
LEMMA UnchangedIs ==
    ASSUME NEW a, NEW b, IsZone(a), IsZone(b), unchanged(a, b)
    PROVE  /\ DOMAIN a = DOMAIN b /\ Keys(a) = Keys(b) /\ unchanged(b, a)
           /\ \A i \in DOMAIN a :
                 /\ keyOf(a[i]) = keyOf(b[i]) /\ RawKey(a[i]) = RawKey(b[i])
                 /\ a[i].ttl = b[i].ttl /\ a[i].rdata = b[i].rdata
                 /\ a[i].description = b[i].description
                 /\ Plain(a[i]) = Plain(b[i])
<1>1. DOMAIN a = DOMAIN b /\ Len(a) = Len(b)
    BY DEF unchanged, IsZone
<1>2. \A i \in DOMAIN a : IsRecord(a[i]) /\ IsRecord(b[i]) /\ Plain(a[i]) = Plain(b[i])
    BY <1>1 DEF unchanged, sameRecord, IsZone, ToSet
<1>3. ASSUME NEW i \in DOMAIN a
      PROVE  /\ keyOf(a[i]) = keyOf(b[i]) /\ RawKey(a[i]) = RawKey(b[i])
             /\ a[i].ttl = b[i].ttl /\ a[i].rdata = b[i].rdata
             /\ a[i].description = b[i].description
    <2>1. IsRecord(a[i]) /\ IsRecord(b[i]) /\ Plain(a[i]) = Plain(b[i])
        BY <1>2
    <2>. QED  BY <2>1, PlainIs
<1>4. Keys(a) = Keys(b)
    BY <1>1, <1>3 DEF Keys, ToSet
<1>5. unchanged(b, a)
    BY <1>1, <1>2 DEF unchanged, sameRecord
<1>. QED  BY <1>1, <1>2, <1>3, <1>4, <1>5

\* What DPF returns of a zone it was sent.
LEMMA ReturnedIs ==
    ASSUME NEW s, IsZone(s), NEW z \in AsReturned(s)
    PROVE  IsZone(z) /\ unchanged(z, s)
<1>. DEFINE bare(r) == [r EXCEPT !.labels = Null]
<1>1. /\ Len(s) \in Nat /\ DOMAIN s = 1 .. Len(s)
      /\ \A i \in DOMAIN s : IsRecord(s[i]) /\ s[i].ttl # 0
      /\ \A i, j \in DOMAIN s : keyOf(s[i]) = keyOf(s[j]) => i = j
    BY DEF IsZone, ToSet
<1>2. /\ DOMAIN z = DOMAIN s /\ Len(z) = Len(s) /\ z \in Seq(ToSet(z))
      /\ \A i \in DOMAIN s : z[i] = s[i] \/ (s[i].labels = {} /\ z[i] = bare(s[i]))
    <2>1. CASE z = s
        BY <2>1 DEF IsZone
    <2>2. CASE z # s
        <3>1. z = [i \in DOMAIN s |-> IF s[i].labels = {} THEN bare(s[i]) ELSE s[i]]
            BY <2>2 DEF AsReturned
        <3>. HIDE DEF bare
        <3>. QED  BY <1>1, <3>1 DEF ToSet
    <2>. QED  BY <2>1, <2>2
<1>3. ASSUME NEW i \in DOMAIN s
      PROVE  /\ IsRecord(z[i]) /\ z[i].ttl # 0 /\ keyOf(z[i]) = keyOf(s[i])
             /\ Plain(z[i]) = Plain(s[i])
    <2>. DEFINE r == s[i]
    <2>1. CASE z[i] = r
        BY <1>1, <2>1
    <2>2. CASE r.labels = {} /\ z[i] = bare(r)
        <3>1. IsRecord(r) /\ r.ttl # 0
            BY <1>1
        <3>. HIDE DEF r
        <3>. DEFINE b == bare(r)
        <3>2. b = [name |-> r.name, rrtype |-> r.rrtype, ttl |-> r.ttl,
                   rdata |-> r.rdata, labels |-> Null,
                   description |-> r.description]
            BY <3>1 DEF IsRecord
        <3>. HIDE DEF b
        <3>3. /\ b.name = r.name /\ b.rrtype = r.rrtype /\ b.ttl = r.ttl
              /\ b.rdata = r.rdata /\ b.labels = Null
              /\ b.description = r.description
            BY <3>2
        <3>4. IsRecord(b)
            BY <3>2, <3>3 DEF IsRecord
        <3>5. keyOf(b) = keyOf(r)
            BY <3>3 DEF keyOf
        <3>6. Plain(b) = r
            BY <2>2, <3>1, <3>3, <3>4 DEF Plain, IsRecord
        <3>7. Plain(r) = r
            BY <2>2, <3>1 DEF Plain, IsRecord
        <3>. QED  BY <2>2, <3>1, <3>3, <3>4, <3>5, <3>6, <3>7 DEF b, r
    <2>. HIDE DEF bare
    <2>. QED  BY <1>2, <2>1, <2>2
<1>4. IsZone(z)
    BY <1>1, <1>2, <1>3 DEF IsZone, ToSet
<1>. QED  BY <1>2, <1>3, <1>4 DEF unchanged, sameRecord

\* The value under a key is that of its one record.
LEMMA ValueIs ==
    ASSUME NEW s, IsZone(s)
    PROVE  /\ \A i \in DOMAIN s :
                 ValueAt(s, keyOf(s[i]))
                    = [ttl |-> s[i].ttl, rdata |-> s[i].rdata,
                       labels |-> IF s[i].labels = Null THEN {} ELSE s[i].labels]
           /\ \A k : k \notin Keys(s) => ValueAt(s, k) = Null
           /\ \A k \in Keys(s) : \E i \in DOMAIN s : k = keyOf(s[i])
<1>1. ASSUME NEW i \in DOMAIN s
      PROVE  ValueAt(s, keyOf(s[i]))
                = [ttl |-> s[i].ttl, rdata |-> s[i].rdata,
                   labels |-> IF s[i].labels = Null THEN {} ELSE s[i].labels]
    <2>. DEFINE k == keyOf(s[i])
                r == CHOOSE x \in ToSet(s) : keyOf(x) = k
    <2>1. k \in Keys(s) /\ s[i] \in ToSet(s)
        BY DEF Keys, ToSet
    <2>2. \A x \in ToSet(s) : keyOf(x) = k => x = s[i]
        BY DEF IsZone, ToSet
    <2>3. r = s[i]
        BY <2>1, <2>2
    <2>4. ValueAt(s, k) = [ttl |-> r.ttl, rdata |-> r.rdata,
                           labels |-> IF r.labels = Null THEN {} ELSE r.labels]
        BY <2>1 DEF ValueAt
    <2>. HIDE DEF r
    <2>. QED  BY <2>3, <2>4
<1>2. \A k : k \notin Keys(s) => ValueAt(s, k) = Null
    BY DEF ValueAt
<1>3. \A k \in Keys(s) : \E i \in DOMAIN s : k = keyOf(s[i])
    BY DEF Keys, ToSet
<1>. QED  BY <1>1, <1>2, <1>3

LEMMA TouchedIs ==
    ASSUME NEW cs, IsChangeSet(cs)
    PROVE  TouchedKeys(cs) = deletedKeys(cs) \union changedKeys(cs)
<1>. DEFINE d == cs.delete
            puts == Puts(cs)
<1>1. d \in Seq(ToSet(d)) /\ puts \in Seq(ToSet(puts))
    BY DEF IsChangeSet
<1>. HIDE DEF d, puts
<1>2. ToSet(d \o puts) = ToSet(d) \union ToSet(puts)
    <2>1. /\ Len(d) \in Nat /\ DOMAIN d = 1 .. Len(d)
          /\ Len(puts) \in Nat /\ DOMAIN puts = 1 .. Len(puts)
          /\ DOMAIN (d \o puts) = 1 .. (Len(d) + Len(puts))
          /\ \A i \in 1 .. Len(d) : (d \o puts)[i] = d[i]
          /\ \A i \in (Len(d) + 1) .. (Len(d) + Len(puts)) :
                (d \o puts)[i] = puts[i - Len(d)]
        BY <1>1
    <2>2. ASSUME NEW i \in DOMAIN puts
          PROVE  \E l \in DOMAIN (d \o puts) : (d \o puts)[l] = puts[i]
        <3>1. Len(d) + i \in (Len(d) + 1) .. (Len(d) + Len(puts))
              /\ (Len(d) + i) - Len(d) = i
            BY <2>1
        <3>. QED  BY <2>1, <3>1
    <2>3. ASSUME NEW i \in DOMAIN d
          PROVE  \E l \in DOMAIN (d \o puts) : (d \o puts)[l] = d[i]
        BY <2>1
    <2>4. ASSUME NEW i \in DOMAIN (d \o puts)
          PROVE  (d \o puts)[i] \in ToSet(d) \union ToSet(puts)
        <3>1. CASE i \in 1 .. Len(d)
            BY <2>1, <3>1 DEF ToSet
        <3>2. CASE i \notin 1 .. Len(d)
            <4>1. i \in (Len(d) + 1) .. (Len(d) + Len(puts))
                  /\ i - Len(d) \in 1 .. Len(puts)
                BY <2>1, <3>2
            <4>. QED  BY <2>1, <4>1 DEF ToSet
        <3>. QED  BY <3>1, <3>2
    <2>. QED  BY <2>2, <2>3, <2>4 DEF ToSet
<1>. QED  BY <1>2 DEF TouchedKeys, deletedKeys, changedKeys, d, puts

-----------------------------------------------------------------------------
\* A record is spelled the way it is compared.
Spelled(s) == \A i \in DOMAIN s : RawKey(s[i]) = keyOf(s[i])

\* The zone z holds what cs asks for.
Applied(z, cs) ==
    /\ ~Inexpressible(cs)
    /\ Spelled(z)
    /\ changedKeys(cs) \subseteq Keys(z)
    /\ deletedKeys(cs) \intersect Keys(z) = {}
    /\ \A i \in DOMAIN z, j \in DOMAIN Puts(cs) :
          IsLast(cs, j) /\ providerKey(Puts(cs)[j]) = keyOf(z[i]) =>
             /\ z[i].ttl = toTTL(Puts(cs)[j].ttl)
             /\ z[i].rdata = Rdata(Puts(cs)[j])
             /\ Plain(z[i]).labels = managedBy

\* The guard lets nothing pass that is spelled in a way of its own.
LEMMA GuardIs ==
    ASSUME NEW c, IsZone(c), NEW cs, IsChangeSet(cs), NEW s,
           IsSubmission(c, cs, s)
    PROVE  /\ ~LostUnasked(c, s, cs) => Spelled(s)
           /\ Spelled(c) => ~LostUnasked(c, s, cs) /\ Spelled(s)
<1>1. /\ IsZone(s)
      /\ Keys(s) = (Keys(c) \ deletedKeys(cs)) \union changedKeys(cs)
      /\ \A i \in DOMAIN c, q \in DOMAIN s :
            keyOf(c[i]) = keyOf(s[q]) => RawKey(s[q]) = RawKey(c[i])
      /\ \A q \in DOMAIN s :
            keyOf(s[q]) \notin Keys(c) => RawKey(s[q]) = keyOf(s[q])
      /\ deletedKeys(cs) \intersect changedKeys(cs) = {}
    BY DEF IsSubmission, IsChangeSet
<1>2. /\ \A k \in Keys(c) : \E i \in DOMAIN c : k = keyOf(c[i])
      /\ \A i \in DOMAIN c : keyOf(c[i]) \in Keys(c)
      /\ \A q \in DOMAIN s : keyOf(s[q]) \in Keys(s)
      /\ \A k \in Keys(s) : \E q \in DOMAIN s : k = keyOf(s[q])
    BY DEF Keys, ToSet
<1>3. \A p, q \in DOMAIN s : keyOf(s[p]) = keyOf(s[q]) => p = q
    BY <1>1 DEF IsZone
<1>4. LostUnasked(c, s, cs) <=>
         \E i \in DOMAIN c : /\ \A q \in DOMAIN s : RawKey(s[q]) # keyOf(c[i])
                             /\ keyOf(c[i]) \notin deletedKeys(cs)
    BY DEF LostUnasked, deletedKeys, ToSet
<1>5. ASSUME ~LostUnasked(c, s, cs), NEW q \in DOMAIN s
      PROVE  RawKey(s[q]) = keyOf(s[q])
    <2>1. CASE keyOf(s[q]) \in Keys(c)
        <3>1. PICK i \in DOMAIN c : keyOf(c[i]) = keyOf(s[q])
            BY <1>2, <2>1
        <3>2. keyOf(c[i]) \notin deletedKeys(cs)
            BY <1>1, <1>2, <3>1
        <3>3. PICK p \in DOMAIN s : RawKey(s[p]) = keyOf(c[i])
            BY <1>4, <1>5, <3>2
        <3>4. keyOf(s[p]) = keyOf(c[i])
            BY <3>3, KeysAreSettled
        <3>. QED  BY <1>3, <3>1, <3>3, <3>4
    <2>. QED  BY <1>1, <2>1
<1>6. ASSUME Spelled(c), NEW q \in DOMAIN s
      PROVE  RawKey(s[q]) = keyOf(s[q])
    BY <1>1, <1>2, <1>6 DEF Spelled
<1>7. ASSUME Spelled(c)
      PROVE  ~LostUnasked(c, s, cs)
    <2>1. ASSUME NEW i \in DOMAIN c, keyOf(c[i]) \notin deletedKeys(cs)
          PROVE  \E q \in DOMAIN s : RawKey(s[q]) = keyOf(c[i])
        <3>1. keyOf(c[i]) \in Keys(s)
            BY <1>1, <1>2, <2>1
        <3>. QED  BY <1>2, <1>6, <1>7, <3>1
    <2>. QED  BY <1>4, <2>1
<1>. QED  BY <1>5, <1>6, <1>7 DEF Spelled

\* The outcome of an edit, case by case.
LEMMA OutcomeIs ==
    ASSUME NEW c, NEW cs
    PROVE  LET s == Submission(c, cs)
           IN  /\ Outcome(c, cs) \in {"refused", "aborted", "skipped", "submitted"}
               /\ Outcome(c, cs) = "aborted" => LostUnasked(c, s, cs)
               /\ Outcome(c, cs) \in {"skipped", "submitted"} =>
                     ~Inexpressible(cs) /\ ~LostUnasked(c, s, cs)
               /\ Outcome(c, cs) = "skipped" => unchanged(c, s)
               /\ ~Inexpressible(cs) /\ ~LostUnasked(c, s, cs)
                  /\ unchanged(c, s) => Outcome(c, cs) = "skipped"
BY DEF Outcome

\* An edit that is not given up leaves what is sent, as DPF returns it.
LEMMA ApplyGives ==
    ASSUME IsZone(zone), NEW cs, IsChangeSet(cs), Apply(cs)
    PROVE  /\ IsZone(zone')
           /\ outcome' \in {"skipped", "submitted"} =>
                 /\ unchanged(zone', Submission(zone, cs))
                 /\ ~LostUnasked(zone, Submission(zone, cs), cs)
                 /\ ~Inexpressible(cs)
           /\ outcome' \in {"refused", "aborted", "skipped", "submitted"}
           /\ outcome' # "submitted" => zone' = zone
           /\ outcome' = "aborted" => LostUnasked(zone, Submission(zone, cs), cs)
<1>. DEFINE s == Submission(zone, cs)
<1>1. IsSubmission(zone, cs, s)
    BY SubmissionIs
<1>2. IsZone(s)
    BY <1>1 DEF IsSubmission
<1>3. outcome' = Outcome(zone, cs)
    BY DEF Apply
<1>4. outcome' # "submitted" => zone' = zone
    BY DEF Apply
<1>5. outcome' = "submitted" => zone' \in AsReturned(s)
    BY DEF Apply
<1>. HIDE DEF s
<1>6. outcome' = "submitted" => IsZone(zone') /\ unchanged(zone', s)
    BY <1>2, <1>5, ReturnedIs
<1>. QED  BY <1>3, <1>4, <1>6, OutcomeIs DEF s

-----------------------------------------------------------------------------
(***************************************************************************)
(* A zone stays a zone: no edit leaves two records under one name and type *)
(* or a TTL of 0 (toTTL), whatever people and change sets make of it.      *)
(***************************************************************************)
THEOREM TypeCorrect == Spec => []TypeOK
<1>1. Init => TypeOK
    BY ZonesAssumption DEF Init, TypeOK
<1>2. ASSUME TypeOK, [Next]_vars
      PROVE  TypeOK'
    <2>1. ASSUME NEW cs \in ChangeSets, Apply(cs)
          PROVE  TypeOK'
        <3>1. IsZone(zone) /\ IsChangeSet(cs)
            BY <1>2, ChangesAssumption DEF TypeOK
        <3>2. IsZone(zone')
              /\ outcome' \in {"refused", "aborted", "skipped", "submitted"}
            BY <2>1, <3>1, ApplyGives
        <3>3. request' \in ChangeSets
            BY <2>1 DEF Apply
        <3>. QED  BY <3>2, <3>3 DEF TypeOK
    <2>2. CASE OthersEdit
        BY <2>2, ZonesAssumption DEF OthersEdit, TypeOK
    <2>3. CASE UNCHANGED vars
        BY <1>2, <2>3 DEF vars, TypeOK
    <2>. QED  BY <1>2, <2>1, <2>2, <2>3 DEF Next
<1>. QED  BY <1>1, <1>2, PTL DEF Spec

-----------------------------------------------------------------------------
\* An edit that is not given up has done what was asked for.
LEMMA EditApplies ==
    ASSUME NEW c, IsZone(c), NEW cs, IsChangeSet(cs), NEW s,
           IsSubmission(c, cs, s), ~LostUnasked(c, s, cs), ~Inexpressible(cs),
           NEW z, IsZone(z), unchanged(z, s)
    PROVE  Applied(z, cs)
<1>1. /\ IsZone(s)
      /\ Keys(s) = (Keys(c) \ deletedKeys(cs)) \union changedKeys(cs)
      /\ \A q \in DOMAIN s, j \in DOMAIN Puts(cs) :
            IsLast(cs, j) /\ providerKey(Puts(cs)[j]) = keyOf(s[q]) =>
               /\ s[q].ttl = toTTL(Puts(cs)[j].ttl)
               /\ s[q].rdata = Rdata(Puts(cs)[j])
               /\ RawKey(s[q]) = keyOf(s[q]) => s[q].labels = managedBy
      /\ deletedKeys(cs) \intersect changedKeys(cs) = {}
    BY DEF IsSubmission, IsChangeSet
<1>2. Spelled(s)
    BY GuardIs
<1>3. /\ DOMAIN z = DOMAIN s /\ Keys(z) = Keys(s)
      /\ \A i \in DOMAIN z :
            /\ keyOf(z[i]) = keyOf(s[i]) /\ RawKey(z[i]) = RawKey(s[i])
            /\ z[i].ttl = s[i].ttl /\ z[i].rdata = s[i].rdata
            /\ Plain(z[i]) = Plain(s[i])
    BY <1>1, UnchangedIs
<1>4. ASSUME NEW i \in DOMAIN z, NEW j \in DOMAIN Puts(cs), IsLast(cs, j),
             providerKey(Puts(cs)[j]) = keyOf(z[i])
      PROVE  /\ z[i].ttl = toTTL(Puts(cs)[j].ttl)
             /\ z[i].rdata = Rdata(Puts(cs)[j])
             /\ Plain(z[i]).labels = managedBy
    <2>1. /\ s[i].ttl = toTTL(Puts(cs)[j].ttl) /\ s[i].rdata = Rdata(Puts(cs)[j])
          /\ s[i].labels = managedBy
        BY <1>1, <1>2, <1>3, <1>4 DEF Spelled
    <2>2. Plain(s[i]) = s[i]
        BY <2>1, NullAssumption DEF Plain
    <2>. QED  BY <1>3, <2>1, <2>2
<1>. QED  BY <1>1, <1>2, <1>3, <1>4 DEF Applied, Spelled

\* What holds what is asked for is left alone.
LEMMA AppliedAgain ==
    ASSUME NEW z, IsZone(z), NEW cs, IsChangeSet(cs), Applied(z, cs)
    PROVE  Outcome(z, cs) = "skipped"
<1>. DEFINE s == Submission(z, cs)
<1>1. IsSubmission(z, cs, s)
    BY SubmissionIs
<1>. HIDE DEF s
<1>2. ~LostUnasked(z, s, cs) /\ Spelled(s)
    BY <1>1, GuardIs DEF Applied
<1>3. /\ Len(s) = Len(z) /\ IsZone(s)
      /\ \A i \in DOMAIN z : keyOf(s[i]) = keyOf(z[i])
    BY <1>1 DEF IsSubmission, Applied
<1>4. DOMAIN s = DOMAIN z
    BY <1>3 DEF IsZone
<1>5. ASSUME NEW i \in DOMAIN z
      PROVE  Plain(z[i]) = Plain(s[i])
    <2>. DEFINE k == keyOf(z[i])
                a == Plain(z[i])
                b == Plain(s[i])
    <2>1. /\ IsRecord(z[i]) /\ IsRecord(s[i])
        BY <1>3, <1>4 DEF IsZone, ToSet
    <2>2. /\ RawKey(s[i]) = RawKey(z[i]) /\ s[i].description = z[i].description
          /\ k \notin changedKeys(cs) => s[i] = a
        BY <1>1, <1>3, <1>4 DEF IsSubmission
    <2>3. CASE k \notin changedKeys(cs)
        BY <2>1, <2>2, <2>3, PlainIs
    <2>4. CASE k \in changedKeys(cs)
        <3>1. PICK j \in DOMAIN Puts(cs) :
                 IsLast(cs, j) /\ providerKey(Puts(cs)[j]) = k
            BY <2>4, LastExists
        <3>2. /\ z[i].ttl = toTTL(Puts(cs)[j].ttl)
              /\ z[i].rdata = Rdata(Puts(cs)[j])
              /\ a.labels = managedBy
            BY <3>1 DEF Applied
        <3>3. /\ s[i].ttl = toTTL(Puts(cs)[j].ttl)
              /\ s[i].rdata = Rdata(Puts(cs)[j])
              /\ s[i].labels = managedBy
            BY <1>1, <1>2, <1>3, <1>4, <3>1 DEF IsSubmission, Spelled
        <3>4. b = s[i]
            BY <3>3, NullAssumption DEF Plain
        <3>5. /\ IsRecord(a) /\ IsRecord(b) /\ RawKey(a) = RawKey(b)
              /\ a.ttl = b.ttl /\ a.rdata = b.rdata /\ a.labels = b.labels
              /\ a.description = b.description
            BY <2>1, <2>2, <3>2, <3>3, <3>4, PlainIs
        <3>. HIDE DEF a, b
        <3>6. a.name = b.name /\ a.rrtype = b.rrtype
            BY <3>5 DEF RawKey, recordKey
        <3>7. a = b
            BY <3>5, <3>6 DEF IsRecord
        <3>. QED  BY <3>7 DEF a, b
    <2>. QED  BY <2>3, <2>4
<1>6. unchanged(z, s)
    BY <1>3, <1>4, <1>5 DEF unchanged, sameRecord
<1>. QED  BY <1>2, <1>6, OutcomeIs DEF s, Applied

\* After an edit that was not given up, until others edit, the zone holds what
\* was asked for.
HoldsRequest ==
    outcome \in {"skipped", "submitted"} =>
        request \in ChangeSets /\ Applied(zone, request)

LEMMA HoldsRequestIsInductive == Spec => []HoldsRequest
<1>1. Init => HoldsRequest
    BY DEF Init, HoldsRequest
<1>2. ASSUME TypeOK, HoldsRequest, [Next]_vars
      PROVE  HoldsRequest'
    <2>1. ASSUME NEW cs \in ChangeSets, Apply(cs),
                 outcome' \in {"skipped", "submitted"}
          PROVE  request' \in ChangeSets /\ Applied(zone', request')
        <3>1. IsZone(zone) /\ IsChangeSet(cs) /\ request' = cs
            BY <1>2, <2>1, ChangesAssumption DEF TypeOK, Apply
        <3>2. /\ IsZone(zone') /\ unchanged(zone', Submission(zone, cs))
              /\ ~LostUnasked(zone, Submission(zone, cs), cs)
              /\ ~Inexpressible(cs)
            BY <2>1, <3>1, ApplyGives
        <3>3. IsSubmission(zone, cs, Submission(zone, cs))
            BY <3>1, SubmissionIs
        <3>4. Applied(zone', cs)
            BY <3>1, <3>2, <3>3, EditApplies
        <3>. QED  BY <3>1, <3>4
    <2>2. ASSUME NEW cs \in ChangeSets, Apply(cs)
          PROVE  HoldsRequest'
        BY <2>1, <2>2 DEF HoldsRequest
    <2>3. CASE OthersEdit
        BY <2>3 DEF OthersEdit, HoldsRequest
    <2>4. CASE UNCHANGED vars
        BY <1>2, <2>4 DEF vars, HoldsRequest
    <2>. QED  BY <1>2, <2>2, <2>3, <2>4 DEF Next
<1>. QED  BY <1>1, <1>2, TypeCorrect, PTL DEF Spec

(***************************************************************************)
(* The change set ExternalDNS sends again, because it did not learn that   *)
(* it was applied, is skipped: merge and applyManagedBy produce the zone   *)
(* that is there (unchanged), however DPF returned it.                     *)
(***************************************************************************)
THEOREM RetriesAreNoops == Spec => []RetryIsNoop
<1>1. TypeOK /\ HoldsRequest => RetryIsNoop
    <2>. SUFFICES ASSUME TypeOK, HoldsRequest, outcome \in {"skipped", "submitted"}
                  PROVE  Outcome(zone, request) = "skipped"
        BY DEF RetryIsNoop
    <2>1. IsZone(zone) /\ IsChangeSet(request) /\ Applied(zone, request)
        BY ChangesAssumption DEF TypeOK, HoldsRequest
    <2>. QED  BY <2>1, AppliedAgain
<1>. QED  BY <1>1, TypeCorrect, HoldsRequestIsInductive, PTL

\* What the guard finds missing, in terms of the zone alone: merge keeps every
\* record that is not to be deleted, as it is spelled.
LEMMA LossIs ==
    ASSUME NEW c, IsZone(c), NEW cs, IsChangeSet(cs)
    PROVE  LostUnasked(c, Submission(c, cs), cs) <=>
              \E r \in ToSet(c) : /\ RawKey(r) # keyOf(r)
                                 /\ keyOf(r) \notin deletedKeys(cs)
<1>. DEFINE s == Submission(c, cs)
<1>1. IsSubmission(c, cs, s)
    BY SubmissionIs
<1>. HIDE DEF s
<1>2. /\ Keys(s) = (Keys(c) \ deletedKeys(cs)) \union changedKeys(cs)
      /\ \A i \in DOMAIN c, q \in DOMAIN s :
            keyOf(c[i]) = keyOf(s[q]) => RawKey(s[q]) = RawKey(c[i])
    BY <1>1 DEF IsSubmission
<1>3. /\ \A i \in DOMAIN c : keyOf(c[i]) \in Keys(c)
      /\ \A k \in Keys(s) : \E q \in DOMAIN s : k = keyOf(s[q])
    BY DEF Keys, ToSet
<1>4. LostUnasked(c, s, cs) <=>
         \E i \in DOMAIN c : /\ \A q \in DOMAIN s : RawKey(s[q]) # keyOf(c[i])
                             /\ keyOf(c[i]) \notin deletedKeys(cs)
    BY DEF LostUnasked, deletedKeys, ToSet
<1>5. ASSUME NEW i \in DOMAIN c, keyOf(c[i]) \notin deletedKeys(cs)
      PROVE  (\E p \in DOMAIN s : RawKey(s[p]) = keyOf(c[i]))
                <=> RawKey(c[i]) = keyOf(c[i])
    <2>1. ASSUME NEW p \in DOMAIN s, RawKey(s[p]) = keyOf(c[i])
          PROVE  RawKey(c[i]) = keyOf(c[i])
        <3>1. keyOf(s[p]) = keyOf(c[i])
            BY <2>1, KeysAreSettled
        <3>. QED  BY <1>2, <2>1, <3>1
    <2>2. PICK q \in DOMAIN s : keyOf(s[q]) = keyOf(c[i])
        BY <1>2, <1>3, <1>5
    <2>. QED  BY <1>2, <2>1, <2>2
<1>6. (\E r \in ToSet(c) : /\ RawKey(r) # keyOf(r)
                           /\ keyOf(r) \notin deletedKeys(cs))
         <=> \E i \in DOMAIN c : /\ RawKey(c[i]) # keyOf(c[i])
                                 /\ keyOf(c[i]) \notin deletedKeys(cs)
    BY DEF ToSet
<1>. QED  BY <1>4, <1>5, <1>6 DEF s

(***************************************************************************)
(* The check before the submission (guard, apply.go) stops an edit of      *)
(* merge exactly when a record that stays is not spelled in the canonical  *)
(* way: it never catches merge at losing one.                              *)
(***************************************************************************)
THEOREM AbortsAreMisspelt == Spec => AbortsOnlyMisspelt
<1>. DEFINE Exact == request' # Null =>
                (outcome' = "aborted" <=>
                    /\ ~Inexpressible(request')
                    /\ \E r \in ToSet(zone) :
                          /\ RawKey(r) # keyOf(r)
                          /\ keyOf(r) \notin deletedKeys(request'))
<1>1. ASSUME TypeOK, NEW cs \in ChangeSets, Apply(cs)
      PROVE  Exact
    <2>1. IsZone(zone) /\ IsChangeSet(cs) /\ request' = cs
        BY <1>1, ChangesAssumption DEF TypeOK, Apply
    <2>2. LostUnasked(zone, Submission(zone, cs), cs) <=>
             \E r \in ToSet(zone) : /\ RawKey(r) # keyOf(r)
                                   /\ keyOf(r) \notin deletedKeys(cs)
        BY <2>1, LossIs
    <2>3. outcome' = "aborted" <=>
             ~Inexpressible(cs) /\ LostUnasked(zone, Submission(zone, cs), cs)
        BY <1>1 DEF Apply, Outcome
    <2>. QED  BY <2>1, <2>2, <2>3
<1>2. ASSUME TypeOK, [Next]_vars
      PROVE  [Exact]_vars
    <2>1. CASE OthersEdit
        BY <2>1 DEF OthersEdit
    <2>. HIDE DEF Exact
    <2>. QED  BY <1>1, <1>2, <2>1 DEF Next
<1>. QED  BY <1>2, TypeCorrect, PTL DEF Spec, AbortsOnlyMisspelt

-----------------------------------------------------------------------------
LEMMA WantedIs ==
    ASSUME NEW cs, IsChangeSet(cs), NEW j \in DOMAIN Puts(cs), IsLast(cs, j),
           NEW k, k = providerKey(Puts(cs)[j])
    PROVE  /\ k \in changedKeys(cs)
           /\ Wanted(cs, k) = [ttl    |-> toTTL(Puts(cs)[j].ttl),
                               rdata  |-> Rdata(Puts(cs)[j]),
                               labels |-> managedBy]
<1>. DEFINE puts == Puts(cs)
            I == { l \in 1 .. Len(puts) : providerKey(puts[l]) = k }
            at == SelectLastInSeq(puts, LAMBDA r : providerKey(r) = k)
<1>1. Len(puts) \in Nat /\ DOMAIN puts = 1 .. Len(puts)
    BY DEF IsChangeSet
<1>2. k \in changedKeys(cs)
    BY DEF changedKeys, ToSet
<1>3. at = Max(I)
    <2>1. at = IF I # {} THEN Max(I) ELSE 0
        BY Zenon DEF SelectLastInSeq
    <2>2. j \in I
        BY <1>1
    <2>. QED  BY <2>1, <2>2
<1>4. Max(I) = j
    <2>1. I \in SUBSET Nat /\ j \in I /\ \A l \in I : l <= j
        BY <1>1 DEF IsLast
    <2>. HIDE DEF I
    <2>2. Takes!Max(I) = j
        BY <2>1, Takes!MaxIsIt
    <2>. QED  BY <2>2, Zenon DEF Max, Takes!Max
<1>5. Wanted(cs, k) = [ttl |-> toTTL(puts[at].ttl), rdata |-> Rdata(puts[at]),
                       labels |-> managedBy]
    BY <1>2, Zenon DEF Wanted
<1>. HIDE DEF at, I
<1>. QED  BY <1>2, <1>3, <1>4, <1>5

(***************************************************************************)
(* An edit that is not given up leaves under every key of the change set   *)
(* what is asked for, with the mark, and under every other key the value   *)
(* there was: merge and applyManagedBy are Merged of module ZoneContent.   *)
(***************************************************************************)
THEOREM EditsAreMerges == Spec => EditIsMerge
<1>. DEFINE Merges == outcome' \in {"skipped", "submitted"} =>
               \A k \in Keys(zone) \union Keys(zone') \union TouchedKeys(request') :
                   ValueAt(zone', k) =
                      IF k \in TouchedKeys(request') THEN Wanted(request', k)
                      ELSE ValueAt(zone, k)
<1>1. ASSUME TypeOK, NEW cs \in ChangeSets, Apply(cs),
             outcome' \in {"skipped", "submitted"},
             NEW k \in Keys(zone) \union Keys(zone') \union TouchedKeys(cs)
      PROVE  ValueAt(zone', k) = IF k \in TouchedKeys(cs) THEN Wanted(cs, k)
                                 ELSE ValueAt(zone, k)
    <2>. DEFINE s == Submission(zone, cs)
                value(r) == [ttl |-> r.ttl, rdata |-> r.rdata, labels |->
                                IF r.labels = Null THEN {} ELSE r.labels]
    <2>1. IsZone(zone) /\ IsChangeSet(cs)
        BY <1>1, ChangesAssumption DEF TypeOK
    <2>2. /\ IsZone(zone') /\ unchanged(zone', s)
          /\ ~LostUnasked(zone, s, cs)
        BY <1>1, <2>1, ApplyGives
    <2>3. IsSubmission(zone, cs, s)
        BY <2>1, SubmissionIs
    <2>. HIDE DEF s
    <2>4. /\ Spelled(s) /\ IsZone(s)
          /\ Keys(s) = (Keys(zone) \ deletedKeys(cs)) \union changedKeys(cs)
        BY <2>1, <2>2, <2>3, GuardIs DEF IsSubmission
    <2>5. TouchedKeys(cs) = deletedKeys(cs) \union changedKeys(cs)
          /\ deletedKeys(cs) \intersect changedKeys(cs) = {}
        BY <2>1, TouchedIs DEF IsChangeSet
    <2>6. /\ DOMAIN zone' = DOMAIN s /\ Keys(zone') = Keys(s)
          /\ \A i \in DOMAIN s : /\ keyOf(zone'[i]) = keyOf(s[i])
                                 /\ Plain(zone'[i]) = Plain(s[i])
        BY <2>2, <2>4, UnchangedIs
    <2>7. \A r : IsRecord(r) =>
             value(r) = [ttl    |-> Plain(r).ttl, rdata |-> Plain(r).rdata,
                         labels |-> Plain(r).labels]
        BY DEF IsRecord, Plain
    <2>8. /\ \A i \in DOMAIN s : IsRecord(s[i]) /\ IsRecord(zone'[i])
          /\ \A i \in DOMAIN zone : IsRecord(zone[i])
        BY <2>1, <2>2, <2>4, <2>6 DEF IsZone, ToSet
    <2>9. CASE k \in changedKeys(cs)
        <3>1. PICK j \in DOMAIN Puts(cs) :
                 IsLast(cs, j) /\ providerKey(Puts(cs)[j]) = k
            BY <2>1, <2>9, LastExists
        <3>2. PICK q \in DOMAIN s : keyOf(s[q]) = k
            BY <2>4, <2>9, ValueIs
        <3>3. /\ s[q].ttl = toTTL(Puts(cs)[j].ttl)
              /\ s[q].rdata = Rdata(Puts(cs)[j]) /\ s[q].labels = managedBy
            BY <2>3, <2>4, <3>1, <3>2 DEF IsSubmission, Spelled
        <3>4. Plain(s[q]) = s[q]
            BY <3>3, NullAssumption DEF Plain
        <3>5. ValueAt(zone', k) = value(zone'[q])
            BY <2>2, <2>6, <3>2, ValueIs
        <3>6. value(zone'[q]) = [ttl |-> s[q].ttl, rdata |-> s[q].rdata,
                                 labels |-> s[q].labels]
            <4>. HIDE DEF value
            <4>. QED  BY <2>6, <2>7, <2>8, <3>4
        <3>7. Wanted(cs, k) = [ttl |-> toTTL(Puts(cs)[j].ttl),
                               rdata |-> Rdata(Puts(cs)[j]), labels |-> managedBy]
            BY <2>1, <3>1, WantedIs
        <3>. HIDE DEF value
        <3>. QED  BY <2>5, <2>9, <3>3, <3>5, <3>6, <3>7
    <2>10. CASE k \in deletedKeys(cs) /\ k \notin changedKeys(cs)
        <3>1. ValueAt(zone', k) = Null
            BY <2>2, <2>4, <2>6, <2>10, ValueIs
        <3>2. Wanted(cs, k) = Null
            BY <2>10 DEF Wanted
        <3>. QED  BY <2>5, <2>10, <3>1, <3>2
    <2>11. CASE k \notin TouchedKeys(cs)
        <3>1. k \in Keys(zone) /\ k \in Keys(s)
            BY <2>4, <2>5, <2>6, <2>11
        <3>2. PICK i \in DOMAIN zone : keyOf(zone[i]) = k
            BY <2>1, <3>1, ValueIs
        <3>3. PICK q \in DOMAIN s : keyOf(s[q]) = k
            BY <2>4, <3>1, ValueIs
        <3>4. s[q] = Plain(zone[i])
            BY <2>3, <2>5, <2>11, <3>2, <3>3 DEF IsSubmission
        <3>5. Plain(zone'[q]) = Plain(zone[i])
            BY <2>6, <2>8, <3>4, PlainIs
        <3>6. ValueAt(zone', k) = value(zone'[q])
            BY <2>2, <2>6, <3>3, ValueIs
        <3>7. ValueAt(zone, k) = value(zone[i])
            BY <2>1, <3>2, ValueIs
        <3>. HIDE DEF value
        <3>. QED  BY <2>7, <2>8, <2>11, <3>5, <3>6, <3>7
    <2>. QED  BY <2>5, <2>9, <2>10, <2>11
<1>2. ASSUME TypeOK, [Next]_vars
      PROVE  [Merges]_vars
    <2>1. ASSUME NEW cs \in ChangeSets, Apply(cs)
          PROVE  Merges
        <3>1. request' = cs
            BY <2>1 DEF Apply
        <3>. QED  BY <1>1, <1>2, <2>1, <3>1
    <2>2. CASE OthersEdit
        BY <2>2 DEF OthersEdit
    <2>. QED  BY <1>2, <2>1, <2>2 DEF Next
<1>. QED  BY <1>2, TypeCorrect, PTL DEF Spec, EditIsMerge

(***************************************************************************)
(* The records a change set does not name keep every field and their       *)
(* order, whatever the outcome.                                            *)
(***************************************************************************)
THEOREM ForeignsUntouched == Spec => ForeignUntouched
<1>. DEFINE foreign(s, cs) == { i \in DOMAIN s : keyOf(s[i]) \notin TouchedKeys(cs) }
            Kept(a, b, cs) ==
               \E at \in [foreign(a, cs) -> foreign(b, cs)] :
                  /\ \A j \in foreign(b, cs) : \E i \in foreign(a, cs) : at[i] = j
                  /\ \A i, j \in foreign(a, cs) : i < j => at[i] < at[j]
                  /\ \A i \in foreign(a, cs) : sameRecord(a[i], b[at[i]])
<1>1. ASSUME NEW cs PROVE Kept(zone, zone, cs)
    <2>. DEFINE at == [i \in foreign(zone, cs) |-> i]
    <2>1. at \in [foreign(zone, cs) -> foreign(zone, cs)]
        OBVIOUS
    <2>. HIDE DEF foreign
    <2>. QED  BY <2>1 DEF sameRecord
<1>2. ASSUME TypeOK, NEW cs \in ChangeSets, Apply(cs)
      PROVE  Kept(zone, zone', cs)
    <2>. DEFINE s == Submission(zone, cs)
                F == foreign(zone, cs)
                G == foreign(zone', cs)
    <2>1. IsZone(zone) /\ IsChangeSet(cs)
        BY <1>2, ChangesAssumption DEF TypeOK
    <2>2. /\ zone' = zone \/ (IsZone(zone') /\ unchanged(zone', s))
        BY <1>2, <2>1, ApplyGives
    <2>3. CASE zone' = zone
        BY <1>1, <2>3
    <2>4. CASE IsZone(zone') /\ unchanged(zone', s)
        <3>1. IsSubmission(zone, cs, s)
            BY <2>1, SubmissionIs
        <3>. HIDE DEF s
        <3>2. /\ IsZone(s)
              /\ Keys(s) = (Keys(zone) \ deletedKeys(cs)) \union changedKeys(cs)
              /\ TouchedKeys(cs) = deletedKeys(cs) \union changedKeys(cs)
            BY <2>1, <3>1, TouchedIs DEF IsSubmission
        <3>3. /\ DOMAIN zone' = DOMAIN s
              /\ \A i \in DOMAIN s : /\ keyOf(zone'[i]) = keyOf(s[i])
                                     /\ Plain(zone'[i]) = Plain(s[i])
            BY <2>4, <3>2, UnchangedIs
        <3>4. /\ \A i \in DOMAIN zone : keyOf(zone[i]) \in Keys(zone)
              /\ \A i \in DOMAIN s : keyOf(s[i]) \in Keys(s)
            BY DEF Keys, ToSet
        <3>5. ASSUME NEW i \in F
              PROVE  \E q \in G : keyOf(s[q]) = keyOf(zone[i])
            <4>1. keyOf(zone[i]) \in Keys(s)
                BY <3>2, <3>4
            <4>2. PICK q \in DOMAIN s : keyOf(s[q]) = keyOf(zone[i])
                BY <3>2, <4>1, ValueIs
            <4>. QED  BY <3>3, <4>2
        <3>6. ASSUME NEW q \in G
              PROVE  \E i \in F : keyOf(s[q]) = keyOf(zone[i])
            <4>1. q \in DOMAIN s /\ keyOf(s[q]) \notin TouchedKeys(cs)
                BY <3>3
            <4>2. keyOf(s[q]) \in Keys(zone)
                BY <3>2, <3>4, <4>1
            <4>3. PICK i \in DOMAIN zone : keyOf(s[q]) = keyOf(zone[i])
                BY <2>1, <4>2, ValueIs
            <4>. QED  BY <4>1, <4>3
        <3>7. /\ F \subseteq DOMAIN zone /\ G \subseteq DOMAIN s
              /\ \A i \in F : keyOf(zone[i]) \notin changedKeys(cs)
            BY <3>2, <3>3
        <3>. DEFINE at == [i \in F |-> CHOOSE q \in G : keyOf(s[q]) = keyOf(zone[i])]
        <3>. HIDE DEF F, G
        <3>8. \A i \in F : at[i] \in G /\ keyOf(s[at[i]]) = keyOf(zone[i])
            BY <3>5
        <3>9. at \in [F -> G]
            BY <3>8
        <3>. HIDE DEF at
        <3>10. ASSUME NEW q \in G PROVE \E i \in F : at[i] = q
            <4>1. PICK i \in F : keyOf(s[q]) = keyOf(zone[i])
                BY <3>6
            <4>2. at[i] \in DOMAIN s /\ q \in DOMAIN s /\ keyOf(s[at[i]]) = keyOf(s[q])
                BY <3>7, <3>8, <4>1
            <4>. QED  BY <3>2, <4>2 DEF IsZone
        <3>11. ASSUME NEW i \in F, NEW j \in F, i < j PROVE at[i] < at[j]
            BY <3>1, <3>7, <3>8, <3>11 DEF IsSubmission
        <3>12. ASSUME NEW i \in F PROVE sameRecord(zone[i], zone'[at[i]])
            <4>1. s[at[i]] = Plain(zone[i]) /\ at[i] \in DOMAIN s
                BY <3>1, <3>7, <3>8 DEF IsSubmission
            <4>2. IsRecord(zone[i])
                BY <2>1, <3>7 DEF IsZone, ToSet
            <4>. QED  BY <3>3, <4>1, <4>2, PlainIs DEF sameRecord
        <3>. QED  BY <3>9, <3>10, <3>11, <3>12 DEF F, G
    <2>. QED  BY <2>2, <2>3, <2>4
<1>3. ASSUME TypeOK, [Next]_vars
      PROVE  [request' # Null => Kept(zone, zone', request')]_vars
    <2>1. ASSUME NEW cs \in ChangeSets, Apply(cs)
          PROVE  Kept(zone, zone', request')
        <3>1. request' = cs
            BY <2>1 DEF Apply
        <3>. QED  BY <1>2, <1>3, <2>1, <3>1
    <2>2. CASE OthersEdit
        BY <2>2 DEF OthersEdit
    <2>. HIDE DEF Kept
    <2>. QED  BY <1>3, <2>1, <2>2 DEF Next
<1>. QED  BY <1>3, TypeCorrect, PTL DEF Spec, ForeignUntouched
=============================================================================
