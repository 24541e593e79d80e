-------------------------- MODULE ApiConsumer_proofs --------------------------
(***************************************************************************)
(* Theorems about ApiConsumer: for any responses, and for documents of any *)
(* length that differ from them in any number of places, what the decoders *)
(* accept, what they report as missing, and what they return.              *)
(***************************************************************************)
EXTENDS ApiConsumer, OpenApiServer_proofs, FunctionTheorems, SequenceTheorems

-----------------------------------------------------------------------------
(* Members and their last places.                                          *)

\* The decoders fold with one callback each.
DetailFold == INSTANCE FoldRun WITH Op <- ReadErrorDetail
DetailsFold == INSTANCE FoldRun WITH Op <- ReadDetail
ErrorFold == INSTANCE FoldRun WITH Op <- ReadError
EnvelopeFold == INSTANCE FoldRun WITH Op <- ReadErrorEnvelope
HealthFold == INSTANCE FoldRun WITH Op <- ReadHealthStatus
OrganizationFold == INSTANCE FoldRun WITH Op <- ReadOrganization

\* s is a sequence.
Listed(s) == Len(s) \in Nat /\ s = [i \in 1 .. Len(s) |-> s[i]]

\* i is the last place of key among the members ms.
LastPlace(ms, key, i) ==
    /\ i \in DOMAIN ms
    /\ ms[i].key = key
    /\ \A j \in DOMAIN ms : ms[j].key = key => j =< i

\* A key that is among the members has a last place there.
LEMMA LastExists ==
    ASSUME NEW ms, Listed(ms), NEW key \in Keys(ms)
    PROVE  \E i : LastPlace(ms, key, i)
<1> DEFINE n == Len(ms)
           Has(k) == \E i \in 1 .. k : /\ ms[i].key = key
                                      /\ \A j \in 1 .. k : ms[j].key = key
                                                            => j =< i
           S == {k \in 0 .. n : (\E i \in 1 .. k : ms[i].key = key) => Has(k)}
<1>1. n \in Nat /\ DOMAIN ms = 1 .. n
  BY DEF Listed
<1>2. 0 \in S
  BY <1>1
<1>3. ASSUME NEW k \in 1 .. n, k - 1 \in S PROVE k \in S
  <2>1. CASE ms[k].key = key
    BY <1>1, <2>1
  <2>2. CASE ms[k].key # key
    <3> SUFFICES ASSUME NEW i \in 1 .. k, ms[i].key = key PROVE Has(k)
      BY <1>1
    <3>1. i \in 1 .. (k - 1)
      BY <1>1, <2>2
    <3>2. Has(k - 1)
      BY <1>3, <3>1
    <3> QED
      BY <1>1, <2>2, <3>2
  <2> QED
    BY <2>1, <2>2
<1> HIDE DEF S
<1>4. \A k \in 0 .. n : k \in S
  BY <1>1, <1>2, <1>3, DetailFold!UpTo
<1>5. (\E i \in 1 .. n : ms[i].key = key) => Has(n)
  <2> HIDE DEF Has
  <2>1. n \in S
    BY <1>1, <1>4
  <2> QED
    BY <2>1 DEF S
<1> QED
  BY <1>1, <1>5 DEF Keys, LastPlace

\* LastOf is the value at that place.
LEMMA LastIs ==
    ASSUME NEW ms, Listed(ms), NEW key, NEW i, LastPlace(ms, key, i)
    PROVE  LastOf(ms, key) = ms[i].val
<1> DEFINE places == {j \in DOMAIN ms : ms[j].key = key}
           last == CHOOSE j \in places : \A l \in places : l =< j
<1>1. DOMAIN ms \subseteq Nat
  BY DEF Listed
<1>2. i \in places /\ \A l \in places : l =< i
  BY DEF LastPlace
<1>3. last \in places /\ \A l \in places : l =< last
  BY <1>2
<1>4. last = i
  <2> HIDE DEF last
  <2> QED
    BY <1>1, <1>2, <1>3
<1> QED
  BY <1>4 DEF LastOf

\* A reading of the members of an object: the state s after each of them, and
\* what became of its value, r.
Reading(names, ms, target, s, r) ==
    /\ s[0] = [ok |-> TRUE, value |-> target, bits |-> {}]
    /\ \A i \in 1 .. Len(ms) :
          s[i] = IF ~s[i - 1].ok THEN s[i - 1]
                 ELSE IF ~Contains(names, ms[i].key)
                      THEN [s[i - 1] EXCEPT !.ok = FALSE]
                      ELSE [ok |-> r[i].ok,
                            value |-> [s[i - 1].value EXCEPT
                                         ![ms[i].key] = r[i].value],
                            bits |-> s[i - 1].bits \union
                                {(CHOOSE j \in DOMAIN names :
                                     names[j] = ms[i].key) - 1}]

\* The bit of a field.
Bit(names, key) == (CHOOSE j \in DOMAIN names : names[j] = key) - 1

\* The members up to the n-th are known and their values fit.
Fine(names, ms, r, n) ==
    \A i \in 1 .. n : ms[i].key \in Range(names) /\ r[i].ok

\* After each member: the reading goes on as long as the members are fine, and
\* it has the bits of the fields it has read.
LEMMA ReadingSteps ==
    ASSUME NEW names, Listed(names), NEW ms, Listed(ms), NEW target, NEW s,
           NEW r, Reading(names, ms, target, s, r),
           target = [f \in Range(names) |-> target[f]],
           \A i \in 1 .. Len(ms) : r[i].ok \in BOOLEAN
    PROVE  \A n \in 0 .. Len(ms) :
              /\ s[n].ok \in BOOLEAN
              /\ s[n].ok <=> Fine(names, ms, r, n)
              /\ s[n].ok =>
                    /\ s[n].value = [f \in Range(names) |-> s[n].value[f]]
                    /\ s[n].bits = {Bit(names, ms[i].key) : i \in 1 .. n}
                    /\ n # 0 => s[n].value = [s[n - 1].value EXCEPT
                                                 ![ms[n].key] = r[n].value]
<1> DEFINE Good(n) ==
       /\ DOMAIN s[n] = {"ok", "value", "bits"}
       /\ s[n].ok \in BOOLEAN
       /\ s[n].ok <=> Fine(names, ms, r, n)
       /\ s[n].ok =>
             /\ s[n].value = [f \in Range(names) |-> s[n].value[f]]
             /\ s[n].bits = {Bit(names, ms[i].key) : i \in 1 .. n}
             /\ n # 0 => s[n].value = [s[n - 1].value EXCEPT
                                          ![ms[n].key] = r[n].value]
           S == {n \in 0 .. Len(ms) : Good(n)}
<1>1. Len(ms) \in Nat
  BY DEF Listed
<1>2. \A k : Contains(names, k) <=> k \in Range(names)
  BY DEF Contains, Range, Listed
<1>3. 0 \in S
  <2>1. 1 .. 0 = {}
    OBVIOUS
  <2>2. s[0] = [ok |-> TRUE, value |-> target, bits |-> {}]
    BY DEF Reading
  <2>3. Fine(names, ms, r, 0)
    BY <2>1 DEF Fine
  <2>4. {Bit(names, ms[i].key) : i \in 1 .. 0} = {}
    BY <2>1
  <2>5. /\ s[0].value = target /\ s[0].bits = {} /\ s[0].ok = TRUE
        /\ DOMAIN s[0] = {"ok", "value", "bits"}
    BY <2>2
  <2>6. Good(0)
    BY <2>3, <2>4, <2>5
  <2> QED
    BY <1>1, <2>6
<1>4. ASSUME NEW n \in 1 .. Len(ms), n - 1 \in S PROVE n \in S
  <2> DEFINE k == ms[n].key
  <2>1. Good(n - 1)
    BY <1>4
  <2>2. s[n] = IF ~s[n - 1].ok THEN s[n - 1]
               ELSE IF k \notin Range(names)
                    THEN [s[n - 1] EXCEPT !.ok = FALSE]
                    ELSE [ok |-> r[n].ok,
                          value |-> [s[n - 1].value EXCEPT ![k] = r[n].value],
                          bits |-> s[n - 1].bits \union {Bit(names, k)}]
    BY <1>2 DEF Reading, Bit
  <2>3. Fine(names, ms, r, n) <=> /\ Fine(names, ms, r, n - 1)
                                  /\ k \in Range(names) /\ r[n].ok
    BY <1>1 DEF Fine
  <2> SUFFICES Good(n)
    BY <1>1
  <2>4. CASE ~s[n - 1].ok
    BY <2>1, <2>2, <2>3, <2>4
  <2>5. CASE s[n - 1].ok /\ k \notin Range(names)
    <3>1. s[n] = [s[n - 1] EXCEPT !.ok = FALSE]
      BY <2>2, <2>5
    <3>2. DOMAIN s[n] = {"ok", "value", "bits"} /\ s[n].ok = FALSE
      BY <2>1, <3>1
    <3>3. ~Fine(names, ms, r, n)
      BY <2>3, <2>5
    <3> QED
      BY <3>2, <3>3
  <2>6. CASE s[n - 1].ok /\ k \in Range(names)
    <3>1. s[n] = [ok |-> r[n].ok,
                  value |-> [s[n - 1].value EXCEPT ![k] = r[n].value],
                  bits |-> s[n - 1].bits \union {Bit(names, k)}]
      BY <2>2, <2>6
    <3>2. {Bit(names, ms[i].key) : i \in 1 .. n}
             = {Bit(names, ms[i].key) : i \in 1 .. (n - 1)}
                  \union {Bit(names, k)}
      BY <1>1
    <3>3. s[n].value = [f \in Range(names) |-> s[n].value[f]]
      BY <2>1, <2>6, <3>1
    <3>4. s[n].ok = r[n].ok /\ r[n].ok \in BOOLEAN
      BY <3>1
    <3>5. Fine(names, ms, r, n) <=> r[n].ok
      BY <2>1, <2>3, <2>6
    <3>6. /\ DOMAIN s[n] = {"ok", "value", "bits"}
          /\ s[n].bits = {Bit(names, ms[i].key) : i \in 1 .. n}
          /\ s[n].value = [s[n - 1].value EXCEPT ![k] = r[n].value]
      <4>1. /\ s[n].bits = s[n - 1].bits \union {Bit(names, k)}
            /\ s[n].value = [s[n - 1].value EXCEPT ![k] = r[n].value]
            /\ DOMAIN s[n] = {"ok", "value", "bits"}
        BY <3>1
      <4>2. s[n - 1].bits = {Bit(names, ms[i].key) : i \in 1 .. (n - 1)}
        BY <2>1, <2>6
      <4> QED
        BY <3>2, <4>1, <4>2
    <3>7. s[n].ok \in BOOLEAN /\ (s[n].ok <=> Fine(names, ms, r, n))
      BY <3>4, <3>5
    <3> HIDE DEF k
    <3> QED
      BY <3>3, <3>6, <3>7 DEF k
  <2> QED
    BY <1>1, <2>4, <2>5, <2>6
<1> HIDE DEF Good
<1>5. \A n \in 0 .. Len(ms) : n \in S
  <2> HIDE DEF S
  <2> QED
    BY <1>1, <1>3, <1>4, DetailFold!UpTo
<1> QED
  BY <1>5 DEF Good

-----------------------------------------------------------------------------
(* What is missing, in its order.                                          *)

\* A finite set of numbers can be put in order.
LEMMA OrderExists ==
    ASSUME NEW m \in SUBSET Nat, IsFiniteSet(m)
    PROVE  LET n == Cardinality(m)
           IN \E f \in [1 .. n -> m] :
                 \A i, j \in 1 .. n : i < j => f[i] < f[j]
<1> DEFINE n == Cardinality(m)
           upto(b) == {c \in m : c =< b}
           rank == [b \in m |-> Cardinality(upto(b))]
<1>1. n \in Nat
  BY FS_CardinalityType
<1>2. ASSUME NEW b \in m
      PROVE  IsFiniteSet(upto(b)) /\ rank[b] \in 1 .. n
  <2>1. upto(b) \in SUBSET m /\ b \in upto(b)
    OBVIOUS
  <2> HIDE DEF upto
  <2>2. IsFiniteSet(upto(b)) /\ Cardinality(upto(b)) =< n
    BY <2>1, FS_Subset
  <2>3. Cardinality(upto(b)) \in Nat /\ Cardinality(upto(b)) # 0
    BY <2>1, <2>2, FS_CardinalityType, FS_EmptySet
  <2> QED
    BY <1>1, <2>2, <2>3
<1>3. ASSUME NEW b \in m, NEW c \in m, b < c PROVE rank[b] < rank[c]
  <2>1. upto(b) \in SUBSET upto(c) /\ c \in upto(c) /\ c \notin upto(b)
    <3>1. b \in Nat /\ c \in Nat /\ \A d \in m : d \in Nat
      OBVIOUS
    <3>2. \A d \in upto(b) : d \in upto(c)
      BY <1>3, <3>1
    <3>3. c \in upto(c) /\ c \notin upto(b)
      BY <1>3, <3>1
    <3> QED
      BY <3>2, <3>3
  <2>2. IsFiniteSet(upto(c)) /\ IsFiniteSet(upto(b))
    BY <1>2
  <2> HIDE DEF upto
  <2>3. /\ Cardinality(upto(b)) =< Cardinality(upto(c))
        /\ Cardinality(upto(b)) = Cardinality(upto(c)) => upto(b) = upto(c)
    BY <2>1, <2>2, FS_Subset
  <2>4. Cardinality(upto(b)) \in Nat /\ Cardinality(upto(c)) \in Nat
    BY <2>2, FS_CardinalityType
  <2>5. rank[b] = Cardinality(upto(b)) /\ rank[c] = Cardinality(upto(c))
    OBVIOUS
  <2> HIDE DEF rank
  <2>6. Cardinality(upto(b)) # Cardinality(upto(c))
    BY <2>1, <2>3
  <2>7. Cardinality(upto(b)) < Cardinality(upto(c))
    BY <2>3, <2>4, <2>6
  <2> QED
    BY <2>5, <2>7
<1> HIDE DEF rank
<1>4. rank \in Injection(m, 1 .. n)
  <2>1. rank \in [m -> 1 .. n]
    BY <1>2 DEF rank
  <2>2. ASSUME NEW b \in m, NEW c \in m, rank[b] = rank[c] PROVE b = c
    <3>1. b \in Nat /\ c \in Nat
      OBVIOUS
    <3>2. rank[b] \in 1 .. n /\ rank[c] \in 1 .. n
      BY <2>1
    <3> HIDE DEF n
    <3>3. (b < c => rank[b] < rank[c]) /\ (c < b => rank[c] < rank[b])
      BY <1>3
    <3> QED
      BY <1>1, <2>2, <3>1, <3>2, <3>3
  <2>3. DOMAIN rank = m
    BY <2>1
  <2>4. IsInjective(rank)
    BY <2>2, <2>3 DEF IsInjective
  <2> QED
    BY <2>1, <2>4 DEF Injection
<1>5. IsFiniteSet(1 .. n) /\ Cardinality(1 .. n) = n
  BY <1>1, FS_Interval
<1>6. rank \in Surjection(m, 1 .. n)
  BY <1>4, <1>5, FS_Injection
<1> DEFINE f == [i \in 1 .. n |-> CHOOSE b \in m : rank[b] = i]
<1>7. ASSUME NEW i \in 1 .. n PROVE f[i] \in m /\ rank[f[i]] = i
  BY <1>6 DEF Surjection
<1> HIDE DEF f
<1>8. ASSUME NEW i \in 1 .. n, NEW j \in 1 .. n, i < j PROVE f[i] < f[j]
  <2>1. /\ f[i] \in m /\ rank[f[i]] = i
        /\ f[j] \in m /\ rank[f[j]] = j
    BY <1>7
  <2>2. f[i] # f[j]
    BY <1>1, <1>8, <2>1
  <2>3. i \in Nat /\ j \in Nat
    BY <1>1
  <2>4. f[j] < f[i] => rank[f[j]] < rank[f[i]]
    BY <1>3, <2>1
  <2>5. ~(f[j] < f[i])
    BY <1>8, <2>1, <2>3, <2>4
  <2>6. f[i] \in Nat /\ f[j] \in Nat
    BY <2>1
  <2> QED
    BY <2>2, <2>5, <2>6
<1>9. f \in [1 .. n -> m]
  BY <1>7 DEF f
<1> QED
  BY <1>8, <1>9

\* The names whose bits are in the mask.
Required(names, mask) == {names[b + 1] : b \in mask}

\* A list of names that are in the order of the schema.
InOrder(names, list) ==
    \A i, j \in DOMAIN list : i < j =>
        \E p, q \in DOMAIN names :
            p < q /\ names[p] = list[i] /\ names[q] = list[j]

\* What is reported as missing are the names of the bits, in their order.
LEMMA MissedInOrder ==
    ASSUME NEW names, NEW m \in SUBSET Nat, IsFiniteSet(m),
           \A b \in m : b + 1 \in DOMAIN names
    PROVE  /\ Range(Missed(names, m)) = Required(names, m)
           /\ InOrder(names, Missed(names, m))
<1> DEFINE n == Cardinality(m)
           f == CHOOSE g \in [1 .. n -> m] :
                   \A i, j \in 1 .. n : i < j => g[i] < g[j]
           list == Missed(names, m)
<1>1. list = [i \in 1 .. n |-> names[f[i] + 1]]
  BY DEF Missed
<1>2. f \in [1 .. n -> m] /\ \A i, j \in 1 .. n : i < j => f[i] < f[j]
  BY OrderExists
<1> HIDE DEF f
<1>3. n \in Nat
  BY FS_CardinalityType
<1>4. ASSUME NEW i \in 1 .. n, NEW j \in 1 .. n, f[i] = f[j] PROVE i = j
  <2>1. f[i] \in Nat /\ f[j] \in Nat
    BY <1>2
  <2>2. ~(i < j) /\ ~(j < i)
    BY <1>2, <1>4, <2>1
  <2> QED
    BY <1>3, <2>2
<1>5. f \in Injection(1 .. n, m)
  BY <1>2, <1>4 DEF Injection, IsInjective
<1>6. IsFiniteSet(1 .. n) /\ Cardinality(1 .. n) = n
  BY <1>3, FS_Interval
<1>7. f \in Surjection(1 .. n, m)
  BY <1>5, <1>6, FS_Injection
<1>8. \A b \in m : \E i \in 1 .. n : f[i] = b
  BY <1>7 DEF Surjection
<1> HIDE DEF list
<1>9. Range(list) = Required(names, m)
  BY <1>1, <1>2, <1>8 DEF Range, Required
<1>10. InOrder(names, list)
  <2> SUFFICES ASSUME NEW i \in 1 .. n, NEW j \in 1 .. n, i < j
               PROVE  \E p, q \in DOMAIN names :
                         p < q /\ names[p] = list[i] /\ names[q] = list[j]
    BY <1>1 DEF InOrder
  <2>1. f[i] \in m /\ f[j] \in m /\ f[i] < f[j]
    BY <1>2
  <2>2. f[i] \in Nat /\ f[j] \in Nat
    BY <2>1
  <2>3. f[i] + 1 < f[j] + 1
    BY <2>1, <2>2
  <2>4. f[i] + 1 \in DOMAIN names /\ f[j] + 1 \in DOMAIN names
    BY <2>1
  <2> QED
    BY <1>1, <2>3, <2>4
<1> QED
  BY <1>9, <1>10 DEF list

-----------------------------------------------------------------------------
(* Objects.                                                                *)

\* No name comes twice.
Distinct(names) == \A i, j \in DOMAIN names : names[i] = names[j] => i = j

\* What DecodeObject makes of an object once its members are read.
Outcome(names, mask, final) ==
    LET missed == mask \ final.bits
    IN IF ~final.ok THEN Refused(final.value)
       ELSE IF missed # {}
            THEN [Refused(final.value) EXCEPT !.missing = Missed(names, missed)]
            ELSE Read(final.value)

\* The value a name has in the end is the last that was read for it, or the
\* one of the target.
LEMMA Kept ==
    ASSUME NEW names, Listed(names), NEW ms, Listed(ms), NEW target, NEW s,
           NEW r, Reading(names, ms, target, s, r),
           target = [f \in Range(names) |-> target[f]],
           \A i \in 1 .. Len(ms) : r[i].ok \in BOOLEAN,
           s[Len(ms)].ok, NEW key \in Range(names)
    PROVE  /\ \A i : LastPlace(ms, key, i) =>
                        s[Len(ms)].value[key] = r[i].value
           /\ key \notin Keys(ms) => s[Len(ms)].value[key] = target[key]
<1> DEFINE Held(k, i) == /\ ms[i].key = key
                         /\ \A j \in 1 .. k : ms[j].key = key => j =< i
           Good(k) ==
              /\ \A i \in 1 .. k : Held(k, i) => s[k].value[key] = r[i].value
              /\ (\A j \in 1 .. k : ms[j].key # key)
                    => s[k].value[key] = target[key]
           S == {k \in 0 .. Len(ms) : Good(k)}
<1>1. Len(ms) \in Nat /\ DOMAIN ms = 1 .. Len(ms)
  BY DEF Listed
<1>2. \A k \in 0 .. Len(ms) :
         /\ s[k].ok \in BOOLEAN
         /\ s[k].ok <=> Fine(names, ms, r, k)
         /\ s[k].ok =>
              /\ s[k].value = [f \in Range(names) |-> s[k].value[f]]
              /\ s[k].bits = {Bit(names, ms[i].key) : i \in 1 .. k}
              /\ k # 0 => s[k].value = [s[k - 1].value EXCEPT
                                           ![ms[k].key] = r[k].value]
  BY ReadingSteps
<1>3. \A k \in 0 .. Len(ms) : s[k].ok
  <2>1. Len(ms) \in 0 .. Len(ms)
    BY <1>1
  <2>2. Fine(names, ms, r, Len(ms))
    BY <1>2, <2>1
  <2>3. \A k \in 0 .. Len(ms) : Fine(names, ms, r, k)
    BY <1>1, <2>2 DEF Fine
  <2> QED
    BY <1>2, <2>3
<1>4. 0 \in S
  <2>1. s[0].value = target
    BY DEF Reading
  <2>2. 1 .. 0 = {}
    OBVIOUS
  <2> QED
    BY <1>1, <2>1, <2>2
<1>5. ASSUME NEW k \in 1 .. Len(ms), k - 1 \in S PROVE k \in S
  <2>1. Good(k - 1)
    BY <1>5
  <2>2. /\ s[k].value = [s[k - 1].value EXCEPT ![ms[k].key] = r[k].value]
        /\ s[k - 1].value = [f \in Range(names) |-> s[k - 1].value[f]]
    <3>1. k \in 0 .. Len(ms) /\ k - 1 \in 0 .. Len(ms) /\ k # 0
      BY <1>1
    <3> QED
      BY <1>2, <1>3, <3>1
  <2>3. /\ k \in Nat /\ k - 1 \in Nat
        /\ \A j \in 1 .. k : j = k \/ j \in 1 .. (k - 1)
    BY <1>1
  <2>4. CASE ms[k].key = key
    <3>1. s[k].value[key] = r[k].value
      BY <2>2, <2>4
    <3>2. ASSUME NEW i \in 1 .. k, Held(k, i) PROVE i = k
      BY <2>3, <2>4, <3>2
    <3> QED
      BY <1>1, <2>3, <2>4, <3>1, <3>2
  <2>5. CASE ms[k].key # key
    <3>1. s[k].value[key] = s[k - 1].value[key]
      BY <2>2, <2>5
    <3>2. ASSUME NEW i \in 1 .. k, Held(k, i)
          PROVE  i \in 1 .. (k - 1) /\ Held(k - 1, i)
      BY <2>3, <2>5, <3>2
    <3>3. (\A j \in 1 .. k : ms[j].key # key)
             => \A j \in 1 .. (k - 1) : ms[j].key # key
      BY <2>3
    <3> HIDE DEF Held
    <3> QED
      BY <1>1, <2>1, <3>1, <3>2, <3>3
  <2> QED
    BY <2>4, <2>5
<1>6. \A k \in 0 .. Len(ms) : k \in S
  <2> HIDE DEF S
  <2> QED
    BY <1>1, <1>4, <1>5, DetailFold!UpTo
<1>7. Good(Len(ms))
  <2>1. Len(ms) \in S
    <3> HIDE DEF S
    <3> QED
      BY <1>1, <1>6
  <2> QED
    BY <2>1
<1> QED
  BY <1>1, <1>7 DEF LastPlace, Keys

\* An object is read without an error exactly if its members are fine and every
\* name of the mask is among them; what is missing is reported in order.
LEMMA ObjectRead ==
    ASSUME NEW names, Listed(names), Distinct(names),
           NEW mask \in SUBSET Nat, IsFiniteSet(mask),
           \A b \in mask : b + 1 \in DOMAIN names,
           NEW ms, Listed(ms), NEW target, NEW s,
           NEW r, Reading(names, ms, target, s, r),
           target = [f \in Range(names) |-> target[f]],
           \A i \in 1 .. Len(ms) : r[i].ok \in BOOLEAN,
           NEW d, d = Outcome(names, mask, s[Len(ms)])
    PROVE  /\ d.ok \in BOOLEAN
           /\ d.ok <=> /\ Fine(names, ms, r, Len(ms))
                       /\ Required(names, mask) \subseteq Keys(ms)
           /\ d.ok => s[Len(ms)].ok /\ d.value = s[Len(ms)].value
           /\ d.missing # <<>> =>
                 /\ Range(d.missing) = Required(names, mask) \ Keys(ms)
                 /\ InOrder(names, d.missing)
<1> DEFINE n == Len(ms)
           final == s[n]
           missed == mask \ final.bits
<1>1. n \in Nat /\ DOMAIN ms = 1 .. n
  BY DEF Listed
<1>2. /\ final.ok \in BOOLEAN
      /\ final.ok <=> Fine(names, ms, r, n)
      /\ final.ok => final.bits = {Bit(names, ms[i].key) : i \in 1 .. n}
  <2>1. n \in 0 .. n
    BY <1>1
  <2> QED
    BY <2>1, ReadingSteps
<1>3. DOMAIN names \subseteq Nat
  BY DEF Listed
<1>4. ASSUME NEW b \in mask PROVE Bit(names, names[b + 1]) = b
  <2> DEFINE j == CHOOSE i \in DOMAIN names : names[i] = names[b + 1]
  <2>1. j \in DOMAIN names /\ names[j] = names[b + 1]
    OBVIOUS
  <2>2. j = b + 1
    <3> HIDE DEF j
    <3> QED
      BY <2>1 DEF Distinct
  <2>3. b \in Nat
    OBVIOUS
  <2>4. Bit(names, names[b + 1]) = j - 1
    BY DEF Bit
  <2> HIDE DEF j
  <2> QED
    BY <2>2, <2>3, <2>4
<1>5. ASSUME final.ok, NEW b \in mask
      PROVE  b \in final.bits <=> names[b + 1] \in Keys(ms)
  <2>1. final.bits = {Bit(names, ms[i].key) : i \in 1 .. n}
    BY <1>2, <1>5
  <2>2. ASSUME NEW i \in 1 .. n, Bit(names, ms[i].key) = b
        PROVE  ms[i].key = names[b + 1]
    <3> DEFINE j == CHOOSE l \in DOMAIN names : names[l] = ms[i].key
    <3>1. ms[i].key \in Range(names)
      BY <1>2, <1>5 DEF Fine
    <3>2. j \in DOMAIN names /\ names[j] = ms[i].key
      BY <3>1 DEF Range
    <3>3. j - 1 = b
      BY <2>2 DEF Bit
    <3> HIDE DEF j
    <3>4. j = b + 1
      BY <1>3, <3>2, <3>3
    <3> QED
      BY <3>2, <3>4
  <2> QED
    BY <1>1, <1>4, <2>1, <2>2 DEF Keys
<1>6. final.ok => (missed = {} <=> Required(names, mask) \subseteq Keys(ms))
  <2> HIDE DEF final
  <2> QED
    BY <1>5 DEF Required
<1>7. final.ok \in BOOLEAN
      => (d.ok \in BOOLEAN /\ (d.ok <=> final.ok /\ missed = {}))
  BY DEF Outcome, Refused, Read
<1>8. final.ok \in BOOLEAN
  BY <1>2
<1>9. d.ok => final.ok /\ d.value = final.value
  BY DEF Outcome, Refused, Read
<1>10. ASSUME d.missing # <<>>
       PROVE  /\ Range(d.missing) = Required(names, mask) \ Keys(ms)
              /\ InOrder(names, d.missing)
  <2>1. final.ok /\ d.missing = Missed(names, missed)
    BY <1>10 DEF Outcome, Refused, Read
  <2>2. missed \in SUBSET Nat /\ IsFiniteSet(missed)
    BY FS_Subset
  <2>4. \A b : b \in missed <=> b \in mask /\ names[b + 1] \notin Keys(ms)
    <3> HIDE DEF final
    <3> QED
      BY <1>5, <2>1
  <2>5. /\ Range(Missed(names, missed)) = Required(names, missed)
        /\ InOrder(names, Missed(names, missed))
    <3>1. \A b \in missed : b + 1 \in DOMAIN names
      OBVIOUS
    <3> HIDE DEF missed
    <3> QED
      BY <2>2, <3>1, MissedInOrder
  <2> HIDE DEF missed
  <2>6. Required(names, missed) = Required(names, mask) \ Keys(ms)
    BY <2>4 DEF Required
  <2> QED
    BY <2>1, <2>5, <2>6
<1> HIDE DEF final, missed
<1> QED
  BY <1>2, <1>6, <1>7, <1>8, <1>9, <1>10 DEF final

-----------------------------------------------------------------------------
(* The decoders read member after member (FoldRun).                        *)

\* Decode of ErrorDetail is a reading of the members ...
LEMMA ErrorDetailReading ==
    ASSUME NEW target, NEW doc, doc.kind = "object", Listed(doc.members)
    PROVE  LET ms == doc.members
               r(s) == [i \in 1 .. Len(ms) |->
                          IF Contains(NamesOfErrorDetail, ms[i].key)
                          THEN ErrorDetailField(ms[i].key,
                                  s[i - 1].value[ms[i].key], ms[i].val)
                          ELSE Refused("")]
           IN \E s : /\ Reading(NamesOfErrorDetail, ms, target, s, r(s))
                     /\ DecodeErrorDetail(target, doc)
                           = Outcome(NamesOfErrorDetail, 0 .. 2, s[Len(ms)])
<1> DEFINE ms == doc.members
           start == [ok |-> TRUE, value |-> target, bits |-> {}]
           r(s) == [i \in 1 .. Len(ms) |->
                      IF Contains(NamesOfErrorDetail, ms[i].key)
                      THEN ErrorDetailField(ms[i].key,
                              s[i - 1].value[ms[i].key], ms[i].val)
                      ELSE Refused("")]
<1>1. Len(ms) \in Nat /\ DOMAIN ms = 1 .. Len(ms)
  BY DEF Listed
<1> HIDE DEF ms, start
<1>2. PICK s : /\ DetailFold!Run(s, start, ms)
               /\ FoldLeft(ReadErrorDetail, start, ms) = s[Len(ms)]
  <2>1. \E s : /\ DetailFold!Run(s, start, ms)
               /\ DetailFold!FoldLeft(ReadErrorDetail, start, ms) = s[Len(ms)]
    BY <1>1, DetailFold!FoldLeftRuns
  <2> QED
    BY <2>1 DEF FoldLeft, MapThenFoldSet, Max, DetailFold!FoldLeft,
       DetailFold!MapThenFoldSet, DetailFold!Max
<1>3. DecodeErrorDetail(target, doc)
         = Outcome(NamesOfErrorDetail, 0 .. 2, s[Len(ms)])
  BY <1>2 DEF DecodeErrorDetail, DecodeObject, Outcome, ms, start
<1>4. Reading(NamesOfErrorDetail, ms, target, s, r(s))
  BY Zenon, <1>2 DEF DetailFold!Run, ReadErrorDetail, ReadMember, Reading, start
<1> QED
  BY Zenon, <1>3, <1>4 DEF ms

\* ... and so is that of Error, whose details start from what is there ...
LEMMA ErrorReading ==
    ASSUME NEW target, NEW doc, doc.kind = "object", Listed(doc.members)
    PROVE  LET ms == doc.members
               r(s) == [i \in 1 .. Len(ms) |->
                          IF Contains(NamesOfError, ms[i].key)
                          THEN ErrorField(ms[i].key,
                                  s[i - 1].value[ms[i].key], ms[i].val)
                          ELSE Refused("")]
           IN \E s : /\ Reading(NamesOfError, ms, target, s, r(s))
                     /\ DecodeError(target, doc)
                           = Outcome(NamesOfError, 0 .. 2, s[Len(ms)])
<1> DEFINE ms == doc.members
           start == [ok |-> TRUE, value |-> target, bits |-> {}]
           r(s) == [i \in 1 .. Len(ms) |->
                      IF Contains(NamesOfError, ms[i].key)
                      THEN ErrorField(ms[i].key,
                              s[i - 1].value[ms[i].key], ms[i].val)
                      ELSE Refused("")]
<1>1. Len(ms) \in Nat /\ DOMAIN ms = 1 .. Len(ms)
  BY DEF Listed
<1> HIDE DEF ms, start
<1>2. PICK s : /\ ErrorFold!Run(s, start, ms)
               /\ FoldLeft(ReadError, start, ms) = s[Len(ms)]
  <2>1. \E s : /\ ErrorFold!Run(s, start, ms)
               /\ ErrorFold!FoldLeft(ReadError, start, ms) = s[Len(ms)]
    BY <1>1, ErrorFold!FoldLeftRuns
  <2> QED
    BY <2>1 DEF FoldLeft, MapThenFoldSet, Max, ErrorFold!FoldLeft,
       ErrorFold!MapThenFoldSet, ErrorFold!Max
<1>3. DecodeError(target, doc) = Outcome(NamesOfError, 0 .. 2, s[Len(ms)])
  BY <1>2 DEF DecodeError, DecodeObject, Outcome, ms, start
<1>4. Reading(NamesOfError, ms, target, s, r(s))
  BY Zenon, <1>2 DEF ErrorFold!Run, ReadError, ReadMember, Reading, start
<1> QED
  BY Zenon, <1>3, <1>4 DEF ms

\* ... of ErrorEnvelope ...
LEMMA ErrorEnvelopeReading ==
    ASSUME NEW target, NEW doc, doc.kind = "object", Listed(doc.members)
    PROVE  LET ms == doc.members
               r(s) == [i \in 1 .. Len(ms) |->
                          IF Contains(NamesOfErrorEnvelope, ms[i].key)
                          THEN ErrorEnvelopeField(ms[i].key,
                                  s[i - 1].value[ms[i].key], ms[i].val)
                          ELSE Refused("")]
           IN \E s : /\ Reading(NamesOfErrorEnvelope, ms, target, s, r(s))
                     /\ DecodeErrorEnvelope(target, doc)
                           = Outcome(NamesOfErrorEnvelope, {0}, s[Len(ms)])
<1> DEFINE ms == doc.members
           start == [ok |-> TRUE, value |-> target, bits |-> {}]
           r(s) == [i \in 1 .. Len(ms) |->
                      IF Contains(NamesOfErrorEnvelope, ms[i].key)
                      THEN ErrorEnvelopeField(ms[i].key,
                              s[i - 1].value[ms[i].key], ms[i].val)
                      ELSE Refused("")]
<1>1. Len(ms) \in Nat /\ DOMAIN ms = 1 .. Len(ms)
  BY DEF Listed
<1> HIDE DEF ms, start
<1>2. PICK s : /\ EnvelopeFold!Run(s, start, ms)
               /\ FoldLeft(ReadErrorEnvelope, start, ms) = s[Len(ms)]
  <2>1. \E s : /\ EnvelopeFold!Run(s, start, ms)
               /\ EnvelopeFold!FoldLeft(ReadErrorEnvelope, start, ms)
                      = s[Len(ms)]
    BY <1>1, EnvelopeFold!FoldLeftRuns
  <2> QED
    BY <2>1 DEF FoldLeft, MapThenFoldSet, Max, EnvelopeFold!FoldLeft,
       EnvelopeFold!MapThenFoldSet, EnvelopeFold!Max
<1>3. DecodeErrorEnvelope(target, doc)
         = Outcome(NamesOfErrorEnvelope, {0}, s[Len(ms)])
  BY Zenon, <1>2 DEF DecodeErrorEnvelope, DecodeObject, Outcome, ms, start
<1>4. Reading(NamesOfErrorEnvelope, ms, target, s, r(s))
  BY Zenon, <1>2 DEF EnvelopeFold!Run, ReadErrorEnvelope, ReadMember, Reading,
     start
<1> QED
  BY Zenon, <1>3, <1>4 DEF ms

\* ... of HealthStatus ...
LEMMA HealthStatusReading ==
    ASSUME NEW target, NEW doc, doc.kind = "object", Listed(doc.members)
    PROVE  LET ms == doc.members
               r(s) == [i \in 1 .. Len(ms) |->
                          IF Contains(NamesOfHealthStatus, ms[i].key)
                          THEN HealthStatusField(ms[i].key,
                                  s[i - 1].value[ms[i].key], ms[i].val)
                          ELSE Refused("")]
           IN \E s : /\ Reading(NamesOfHealthStatus, ms, target, s, r(s))
                     /\ DecodeHealthStatus(target, doc)
                           = Outcome(NamesOfHealthStatus, {0}, s[Len(ms)])
<1> DEFINE ms == doc.members
           start == [ok |-> TRUE, value |-> target, bits |-> {}]
           r(s) == [i \in 1 .. Len(ms) |->
                      IF Contains(NamesOfHealthStatus, ms[i].key)
                      THEN HealthStatusField(ms[i].key,
                              s[i - 1].value[ms[i].key], ms[i].val)
                      ELSE Refused("")]
<1>1. Len(ms) \in Nat /\ DOMAIN ms = 1 .. Len(ms)
  BY DEF Listed
<1> HIDE DEF ms, start
<1>2. PICK s : /\ HealthFold!Run(s, start, ms)
               /\ FoldLeft(ReadHealthStatus, start, ms) = s[Len(ms)]
  <2>1. \E s : /\ HealthFold!Run(s, start, ms)
               /\ HealthFold!FoldLeft(ReadHealthStatus, start, ms) = s[Len(ms)]
    BY <1>1, HealthFold!FoldLeftRuns
  <2> QED
    BY <2>1 DEF FoldLeft, MapThenFoldSet, Max, HealthFold!FoldLeft,
       HealthFold!MapThenFoldSet, HealthFold!Max
<1>3. DecodeHealthStatus(target, doc)
         = Outcome(NamesOfHealthStatus, {0}, s[Len(ms)])
  BY Zenon, <1>2 DEF DecodeHealthStatus, DecodeObject, Outcome, ms, start
<1>4. Reading(NamesOfHealthStatus, ms, target, s, r(s))
  BY Zenon, <1>2 DEF HealthFold!Run, ReadHealthStatus, ReadMember, Reading,
     start
<1> QED
  BY Zenon, <1>3, <1>4 DEF ms

\* ... and of Organization.
LEMMA OrganizationReading ==
    ASSUME NEW target, NEW doc, doc.kind = "object", Listed(doc.members)
    PROVE  LET ms == doc.members
               r(s) == [i \in 1 .. Len(ms) |->
                          IF Contains(NamesOfOrganization, ms[i].key)
                          THEN OrganizationField(ms[i].key,
                                  s[i - 1].value[ms[i].key], ms[i].val)
                          ELSE Refused("")]
           IN \E s : /\ Reading(NamesOfOrganization, ms, target, s, r(s))
                     /\ DecodeOrganization(target, doc)
                           = Outcome(NamesOfOrganization, 0 .. 4, s[Len(ms)])
<1> DEFINE ms == doc.members
           start == [ok |-> TRUE, value |-> target, bits |-> {}]
           r(s) == [i \in 1 .. Len(ms) |->
                      IF Contains(NamesOfOrganization, ms[i].key)
                      THEN OrganizationField(ms[i].key,
                              s[i - 1].value[ms[i].key], ms[i].val)
                      ELSE Refused("")]
<1>1. Len(ms) \in Nat /\ DOMAIN ms = 1 .. Len(ms)
  BY DEF Listed
<1> HIDE DEF ms, start
<1>2. PICK s : /\ OrganizationFold!Run(s, start, ms)
               /\ FoldLeft(ReadOrganization, start, ms) = s[Len(ms)]
  <2>1. \E s : /\ OrganizationFold!Run(s, start, ms)
               /\ OrganizationFold!FoldLeft(ReadOrganization, start, ms)
                      = s[Len(ms)]
    BY <1>1, OrganizationFold!FoldLeftRuns
  <2> QED
    BY <2>1 DEF FoldLeft, MapThenFoldSet, Max, OrganizationFold!FoldLeft,
       OrganizationFold!MapThenFoldSet, OrganizationFold!Max
<1>3. DecodeOrganization(target, doc)
         = Outcome(NamesOfOrganization, 0 .. 4, s[Len(ms)])
  BY Zenon, <1>2 DEF DecodeOrganization, DecodeObject, Outcome, ms, start
<1>4. Reading(NamesOfOrganization, ms, target, s, r(s))
  BY Zenon, <1>2 DEF OrganizationFold!Run, ReadOrganization, ReadMember,
     Reading, start
<1> QED
  BY Zenon, <1>3, <1>4 DEF ms

\* names is the list of an object's fields, and mask the set of their bits.
Schema(names, mask) ==
    /\ Listed(names) /\ Distinct(names)
    /\ mask \in SUBSET Nat /\ IsFiniteSet(mask)
    /\ \A b \in mask : b + 1 \in DOMAIN names

\* The target has the fields of the names.
Filled(names, v) == v = [f \in Range(names) |-> v[f]]

\* An object that is read without an error has each of the fields it requires
\* from the last member that has its name, and the others from the target.
LEMMA ObjectValue ==
    ASSUME NEW names, NEW mask, Schema(names, mask),
           NEW ms, Listed(ms), NEW target, Filled(names, target), NEW s,
           NEW r, Reading(names, ms, target, s, r),
           \A i \in 1 .. Len(ms) : r[i].ok \in BOOLEAN,
           NEW d, d = Outcome(names, mask, s[Len(ms)])
    PROVE  /\ d.ok \in BOOLEAN
           /\ d.ok <=> /\ Fine(names, ms, r, Len(ms))
                       /\ Required(names, mask) \subseteq Keys(ms)
           /\ d.ok =>
                 /\ Filled(names, d.value)
                 /\ \A key \in Range(names) \intersect Keys(ms) :
                       \E i \in DOMAIN ms :
                          /\ ms[i].key = key
                          /\ ms[i].val = LastOf(ms, key)
                          /\ d.value[key] = r[i].value
                 /\ \A key \in Range(names) \ Keys(ms) :
                       d.value[key] = target[key]
           /\ d.missing # <<>> =>
                 /\ Range(d.missing) = Required(names, mask) \ Keys(ms)
                 /\ InOrder(names, d.missing)
<1>1. /\ d.ok \in BOOLEAN
      /\ d.ok <=> /\ Fine(names, ms, r, Len(ms))
                  /\ Required(names, mask) \subseteq Keys(ms)
      /\ d.ok => s[Len(ms)].ok /\ d.value = s[Len(ms)].value
      /\ d.missing # <<>> =>
            /\ Range(d.missing) = Required(names, mask) \ Keys(ms)
            /\ InOrder(names, d.missing)
  BY ObjectRead DEF Schema, Filled
<1>2. ASSUME d.ok
      PROVE  /\ Filled(names, d.value)
             /\ \A key \in Range(names) \intersect Keys(ms) :
                   \E i \in DOMAIN ms :
                      /\ ms[i].key = key
                      /\ ms[i].val = LastOf(ms, key)
                      /\ d.value[key] = r[i].value
             /\ \A key \in Range(names) \ Keys(ms) :
                   d.value[key] = target[key]
  <2>1. s[Len(ms)].ok /\ d.value = s[Len(ms)].value
    BY <1>1, <1>2
  <2>2. Len(ms) \in 0 .. Len(ms)
    BY DEF Listed
  <2>3. Filled(names, d.value)
    BY <2>1, <2>2, ReadingSteps DEF Filled, Schema
  <2>4. ASSUME NEW key \in Range(names), key \in Keys(ms)
        PROVE  \E i \in DOMAIN ms :
                  /\ ms[i].key = key
                  /\ ms[i].val = LastOf(ms, key)
                  /\ d.value[key] = r[i].value
    <3>1. PICK i : LastPlace(ms, key, i)
      BY <2>4, LastExists
    <3>2. d.value[key] = r[i].value
      BY <2>1, <3>1, Kept DEF Schema, Filled
    <3>3. ms[i].val = LastOf(ms, key)
      BY <3>1, LastIs
    <3> QED
      BY <3>1, <3>2, <3>3 DEF LastPlace
  <2>5. ASSUME NEW key \in Range(names), key \notin Keys(ms)
        PROVE  d.value[key] = target[key]
    BY <2>1, <2>5, Kept DEF Schema, Filled
  <2> QED
    BY <2>3, <2>4, <2>5
<1> QED
  BY <1>1, <1>2

\* The fields of the five types, and those that are required.
LEMMA Schemas ==
    /\ Schema(NamesOfErrorDetail, 0 .. 2)
    /\ Range(NamesOfErrorDetail) = {"pointer", "code", "message"}
    /\ Required(NamesOfErrorDetail, 0 .. 2) = {"pointer", "code", "message"}
    /\ Schema(NamesOfError, 0 .. 2)
    /\ Range(NamesOfError) = {"code", "message", "requestId", "details"}
    /\ Required(NamesOfError, 0 .. 2) = {"code", "message", "requestId"}
    /\ Schema(NamesOfErrorEnvelope, {0})
    /\ Range(NamesOfErrorEnvelope) = {"error"}
    /\ Required(NamesOfErrorEnvelope, {0}) = {"error"}
    /\ Schema(NamesOfHealthStatus, {0})
    /\ Range(NamesOfHealthStatus) = {"status"}
    /\ Required(NamesOfHealthStatus, {0}) = {"status"}
    /\ Schema(NamesOfOrganization, 0 .. 4)
    /\ Range(NamesOfOrganization)
          = {"id", "name", "status", "createdAt", "updatedAt"}
    /\ Required(NamesOfOrganization, 0 .. 4)
          = {"id", "name", "status", "createdAt", "updatedAt"}
<1>1. /\ IsFiniteSet(0 .. 2) /\ IsFiniteSet(0 .. 4) /\ IsFiniteSet({0})
      /\ 0 .. 2 = {0, 1, 2} /\ 0 .. 4 = {0, 1, 2, 3, 4}
  <2>1. \A a \in Int, b \in Int : IsFiniteSet(a .. b)
    BY FS_Interval
  <2>2. IsFiniteSet({0})
    BY FS_Singleton
  <2>3. IsFiniteSet(0 .. 2) /\ IsFiniteSet(0 .. 4)
    <3>1. 0 \in Int /\ 2 \in Int /\ 4 \in Int
      OBVIOUS
    <3> QED
      BY <2>1, <3>1, Zenon
  <2>4. 0 .. 2 = {0, 1, 2} /\ 0 .. 4 = {0, 1, 2, 3, 4}
    OBVIOUS
  <2> QED
    BY <2>2, <2>3, <2>4
<1>2. /\ Schema(NamesOfErrorDetail, 0 .. 2)
      /\ Range(NamesOfErrorDetail) = {"pointer", "code", "message"}
      /\ Required(NamesOfErrorDetail, 0 .. 2) = {"pointer", "code", "message"}
  BY <1>1 DEF Schema, Listed, Distinct, Required, Range, NamesOfErrorDetail
<1>3. /\ Schema(NamesOfError, 0 .. 2)
      /\ Range(NamesOfError) = {"code", "message", "requestId", "details"}
      /\ Required(NamesOfError, 0 .. 2) = {"code", "message", "requestId"}
  BY <1>1 DEF Schema, Listed, Distinct, Required, Range, NamesOfError
<1>4. /\ Schema(NamesOfErrorEnvelope, {0})
      /\ Range(NamesOfErrorEnvelope) = {"error"}
      /\ Required(NamesOfErrorEnvelope, {0}) = {"error"}
  BY <1>1 DEF Schema, Listed, Distinct, Required, Range, NamesOfErrorEnvelope
<1>5. /\ Schema(NamesOfHealthStatus, {0})
      /\ Range(NamesOfHealthStatus) = {"status"}
      /\ Required(NamesOfHealthStatus, {0}) = {"status"}
  BY <1>1 DEF Schema, Listed, Distinct, Required, Range, NamesOfHealthStatus
<1>6. /\ Schema(NamesOfOrganization, 0 .. 4)
      /\ Range(NamesOfOrganization)
            = {"id", "name", "status", "createdAt", "updatedAt"}
      /\ Required(NamesOfOrganization, 0 .. 4)
            = {"id", "name", "status", "createdAt", "updatedAt"}
  BY <1>1 DEF Schema, Listed, Distinct, Required, Range, NamesOfOrganization
<1> QED
  BY <1>2, <1>3, <1>4, <1>5, <1>6

-----------------------------------------------------------------------------
(* What is accepted: details and the bodies without objects in them.       *)

\* Contains is membership.
LEMMA NamesContain ==
    ASSUME NEW names, Listed(names), NEW k
    PROVE  Contains(names, k) <=> k \in Range(names)
BY DEF Contains, Range, Listed

\* The two results of a decoder.
LEMMA ResultIs ==
    ASSUME NEW v
    PROVE  /\ Read(v).ok = TRUE /\ Read(v).value = v
           /\ Refused(v).ok = FALSE /\ Refused(v).value = v
BY DEF Read, Refused

\* A document whose members, if it is an object, are a sequence.
Flat(doc) == doc.kind = "object" => Listed(doc.members)

\* An array of such documents.
FlatItems(doc) == doc.kind = "array" =>
                     Listed(doc.items) /\ \A i \in DOMAIN doc.items :
                                             Flat(doc.items[i])

\* What DecodeErrorDetail accepts, and what it returns.
LEMMA ErrorDetailRead ==
    ASSUME NEW doc, Flat(doc), NEW d,
           d = DecodeErrorDetail(ZeroErrorDetail, doc)
    PROVE  /\ d.ok \in BOOLEAN
           /\ d.ok <=> ConformsErrorDetail(doc)
           /\ d.ok => d.value = [k \in {"pointer", "code", "message"} |->
                                    LastOf(doc.members, k).text]
<1>1. CASE doc.kind # "object"
  BY <1>1 DEF DecodeErrorDetail, DecodeObject, Refused, ConformsErrorDetail,
              Conforms
<1>2. CASE doc.kind = "object"
  <2> DEFINE ms == doc.members
             names == NamesOfErrorDetail
             keys == {"pointer", "code", "message"}
  <2>1. Listed(ms)
    BY <1>2 DEF Flat
  <2>2. PICK s, r :
           /\ r = [i \in 1 .. Len(ms) |->
                     IF Contains(names, ms[i].key)
                     THEN ErrorDetailField(ms[i].key,
                             s[i - 1].value[ms[i].key], ms[i].val)
                     ELSE Refused("")]
           /\ Reading(names, ms, ZeroErrorDetail, s, r)
           /\ d = Outcome(names, 0 .. 2, s[Len(ms)])
    BY Zenon, <1>2, <2>1, ErrorDetailReading
  <2> HIDE DEF ms, names
  <2>3. /\ Schema(names, 0 .. 2) /\ Range(names) = keys
        /\ Required(names, 0 .. 2) = keys
    BY Schemas DEF names
  <2>4. \A k : Contains(names, k) <=> k \in keys
    BY <2>3, NamesContain DEF Schema
  <2>5. ASSUME NEW i \in 1 .. Len(ms)
        PROVE  /\ r[i].ok \in BOOLEAN
               /\ ms[i].key \in keys =>
                     /\ r[i].ok <=> IsString(ms[i].val)
                     /\ r[i].ok => r[i].value = ms[i].val.text
    <3>1. r[i] = IF ms[i].key \in keys
                 THEN DecodeString(s[i - 1].value[ms[i].key], ms[i].val)
                 ELSE Refused("")
      BY Zenon, <2>2, <2>4 DEF ErrorDetailField
    <3> HIDE DEF keys
    <3>2. CASE ms[i].key \in keys /\ IsString(ms[i].val)
      <4>1. r[i] = Read(ms[i].val.text)
        BY <3>1, <3>2 DEF DecodeString, IsString
      <4> QED
        BY <3>2, <4>1 DEF Read
    <3>3. CASE ~(ms[i].key \in keys /\ IsString(ms[i].val))
      <4>1. r[i] = Refused("")
        BY Zenon, <3>1, <3>3 DEF DecodeString, IsString
      <4>2. r[i].ok = FALSE
        BY Zenon, <4>1, ResultIs
      <4> QED
        BY <3>3, <4>2
    <3> QED
      BY <3>2, <3>3
  <2>6. Filled(names, ZeroErrorDetail)
    BY Zenon, <2>3 DEF Filled, ZeroErrorDetail
  <2>7. /\ d.ok \in BOOLEAN
        /\ d.ok <=> Fine(names, ms, r, Len(ms)) /\ keys \subseteq Keys(ms)
        /\ d.ok =>
              /\ Filled(names, d.value)
              /\ \A key \in keys \intersect Keys(ms) :
                    \E i \in DOMAIN ms : /\ ms[i].key = key
                                         /\ ms[i].val = LastOf(ms, key)
                                         /\ d.value[key] = r[i].value
    <3>1. \A i \in 1 .. Len(ms) : r[i].ok \in BOOLEAN
      BY <2>5
    <3> DEFINE mask == 0 .. 2
    <3> HIDE DEF keys, mask
    <3>4. Reading(names, ms, ZeroErrorDetail, s, r)
      BY Zenon, <2>2
    <3>3. Schema(names, mask) /\ d = Outcome(names, mask, s[Len(ms)])
      BY Zenon, <2>2, <2>3 DEF mask
    <3>2. /\ d.ok \in BOOLEAN
          /\ d.ok <=> /\ Fine(names, ms, r, Len(ms))
                      /\ Required(names, mask) \subseteq Keys(ms)
          /\ d.ok =>
                /\ Filled(names, d.value)
                /\ \A key \in Range(names) \intersect Keys(ms) :
                      \E i \in DOMAIN ms :
                         /\ ms[i].key = key
                         /\ ms[i].val = LastOf(ms, key)
                         /\ d.value[key] = r[i].value
      BY <2>1, <2>6, <3>1, <3>3, <3>4, ObjectValue
    <3> QED
      BY <2>3, <3>2 DEF mask
  <2>8. DOMAIN ms = 1 .. Len(ms)
    BY <2>1 DEF Listed
  <2>9. ConformsErrorDetail(doc) <=>
           /\ keys \subseteq Keys(ms)
           /\ \A i \in DOMAIN ms : ms[i].key \in keys /\ IsString(ms[i].val)
    BY <1>2 DEF ConformsErrorDetail, Conforms, Keys, ms
  <2>10. d.ok <=> ConformsErrorDetail(doc)
    BY <2>3, <2>5, <2>7, <2>8, <2>9 DEF Fine
  <2>11. ASSUME d.ok
         PROVE  d.value = [k \in keys |-> LastOf(ms, k).text]
    <3>1. ASSUME NEW k \in keys PROVE d.value[k] = LastOf(ms, k).text
      BY <2>3, <2>5, <2>7, <2>8, <2>11 DEF Fine
    <3> QED
      BY <2>3, <2>7, <2>11, <3>1 DEF Filled
  <2> QED
    BY <2>7, <2>10, <2>11 DEF ms
<1> QED
  BY <1>1, <1>2

ZeroHealthStatus == [status |-> ""]

\* What DecodeHealthStatus accepts, returns and reports as missing.
LEMMA HealthStatusRead ==
    ASSUME NEW doc, Flat(doc), NEW d,
           d = DecodeHealthStatus(ZeroHealthStatus, doc)
    PROVE  /\ d.ok \in BOOLEAN
           /\ d.ok <=> ConformsBody("HealthStatus", doc)
           /\ d.ok => d.value = [k \in {"status"} |->
                                    LastOf(doc.members, k).text]
           /\ d.missing # <<>> =>
                 /\ Range(d.missing)
                       = Range(NamesOfHealthStatus) \ Keys(doc.members)
                 /\ InOrder(NamesOfHealthStatus, d.missing)
<1>1. CASE doc.kind # "object"
  <2>1. d = Refused(ZeroHealthStatus)
    BY <1>1 DEF DecodeHealthStatus, DecodeObject
  <2>2. d.ok = FALSE /\ d.missing = <<>>
    BY <2>1 DEF Refused
  <2> QED
    BY <1>1, <2>2 DEF ConformsBody, Conforms
<1>2. CASE doc.kind = "object"
  <2> DEFINE ms == doc.members
             names == NamesOfHealthStatus
             keys == {"status"}
             mask == {0}
  <2>1. Listed(ms)
    BY <1>2 DEF Flat
  <2>2. PICK s, r :
           /\ r = [i \in 1 .. Len(ms) |->
                     IF Contains(names, ms[i].key)
                     THEN HealthStatusField(ms[i].key,
                             s[i - 1].value[ms[i].key], ms[i].val)
                     ELSE Refused("")]
           /\ Reading(names, ms, ZeroHealthStatus, s, r)
           /\ d = Outcome(names, mask, s[Len(ms)])
    BY Zenon, <1>2, <2>1, HealthStatusReading
  <2> HIDE DEF ms, names, mask
  <2>3. /\ Schema(names, mask) /\ Range(names) = keys
        /\ Required(names, mask) = keys
    BY Schemas DEF names, mask
  <2>4. \A k : Contains(names, k) <=> k \in keys
    BY <2>3, NamesContain DEF Schema
  <2>5. ASSUME NEW i \in 1 .. Len(ms)
        PROVE  /\ r[i].ok \in BOOLEAN
               /\ ms[i].key \in keys =>
                     /\ r[i].ok <=> IsString(ms[i].val)
                     /\ r[i].ok => r[i].value = ms[i].val.text
    <3>1. r[i] = IF ms[i].key \in keys
                 THEN DecodeHealthStatusStatus(s[i - 1].value[ms[i].key],
                                               ms[i].val)
                 ELSE Refused("")
      BY Zenon, <2>2, <2>4 DEF HealthStatusField
    <3> HIDE DEF keys
    <3>2. CASE ms[i].key \in keys /\ IsString(ms[i].val)
      <4>1. r[i] = Read(ms[i].val.text)
        BY <3>1, <3>2 DEF DecodeHealthStatusStatus, IsString
      <4> QED
        BY <3>2, <4>1, ResultIs
    <3>3. CASE ~(ms[i].key \in keys /\ IsString(ms[i].val))
      <4>1. \E v : r[i] = Refused(v)
        BY Zenon, <3>1, <3>3 DEF DecodeHealthStatusStatus, IsString
      <4>2. r[i].ok = FALSE
        BY <4>1, ResultIs
      <4> QED
        BY <3>3, <4>2
    <3> QED
      BY <3>2, <3>3
  <2>6. Filled(names, ZeroHealthStatus)
    BY Zenon, <2>3 DEF Filled, ZeroHealthStatus
  <2>7. /\ d.ok \in BOOLEAN
        /\ d.ok <=> Fine(names, ms, r, Len(ms)) /\ keys \subseteq Keys(ms)
        /\ d.ok =>
              /\ Filled(names, d.value)
              /\ \A key \in keys \intersect Keys(ms) :
                    \E i \in DOMAIN ms : /\ ms[i].key = key
                                         /\ ms[i].val = LastOf(ms, key)
                                         /\ d.value[key] = r[i].value
        /\ d.missing # <<>> =>
              /\ Range(d.missing) = keys \ Keys(ms)
              /\ InOrder(names, d.missing)
    <3>1. \A i \in 1 .. Len(ms) : r[i].ok \in BOOLEAN
      BY <2>5
    <3>2. /\ Reading(names, ms, ZeroHealthStatus, s, r)
          /\ d = Outcome(names, mask, s[Len(ms)])
          /\ Schema(names, mask)
      BY Zenon, <2>2, <2>3
    <3> HIDE DEF keys
    <3>3. /\ d.ok \in BOOLEAN
          /\ d.ok <=> /\ Fine(names, ms, r, Len(ms))
                      /\ Required(names, mask) \subseteq Keys(ms)
          /\ d.ok =>
                /\ Filled(names, d.value)
                /\ \A key \in Range(names) \intersect Keys(ms) :
                      \E i \in DOMAIN ms :
                         /\ ms[i].key = key
                         /\ ms[i].val = LastOf(ms, key)
                         /\ d.value[key] = r[i].value
          /\ d.missing # <<>> =>
                /\ Range(d.missing) = Required(names, mask) \ Keys(ms)
                /\ InOrder(names, d.missing)
      BY <2>1, <2>6, <3>1, <3>2, ObjectValue
    <3> QED
      BY <2>3, <3>3
  <2>8. DOMAIN ms = 1 .. Len(ms)
    BY <2>1 DEF Listed
  <2>9. ConformsBody("HealthStatus", doc) <=>
           /\ keys \subseteq Keys(ms)
           /\ \A i \in DOMAIN ms : ms[i].key \in keys /\ IsString(ms[i].val)
    BY <1>2 DEF ConformsBody, Conforms, Keys, ms
  <2>10. d.ok <=> ConformsBody("HealthStatus", doc)
    BY <2>3, <2>5, <2>7, <2>8, <2>9 DEF Fine
  <2>11. ASSUME d.ok
         PROVE  d.value = [k \in keys |-> LastOf(ms, k).text]
    <3>1. ASSUME NEW k \in keys PROVE d.value[k] = LastOf(ms, k).text
      BY <2>3, <2>5, <2>7, <2>8, <2>11 DEF Fine
    <3> QED
      BY <2>3, <2>7, <2>11, <3>1 DEF Filled
  <2> QED
    BY <2>3, <2>7, <2>10, <2>11 DEF ms, names
<1> QED
  BY <1>1, <1>2

ZeroOrganization == [id |-> NoUUID, name |-> "", status |-> "",
                     createdAt |-> NoTime, updatedAt |-> NoTime]

\* The value of a field of an organization, and whether there is one.
OrganizationFits(k, val) ==
    /\ IsString(val)
    /\ k = "id" => val.text \in DOMAIN ParseUUID
    /\ k \in {"createdAt", "updatedAt"} => val.text \in DOMAIN ParseTime

\* What a field of an organization becomes.
OrganizationValue(k, val) ==
    IF k = "id" THEN ParseUUID[val.text]
    ELSE IF k \in {"createdAt", "updatedAt"} THEN ParseTime[val.text]
    ELSE val.text

\* What DecodeOrganization accepts, returns and reports as missing.
LEMMA OrganizationRead ==
    ASSUME NEW doc, Flat(doc), NEW d,
           d = DecodeOrganization(ZeroOrganization, doc)
    PROVE  /\ d.ok \in BOOLEAN
           /\ d.ok <=> ConformsBody("Organization", doc)
           /\ d.ok => d.value = [k \in Range(NamesOfOrganization) |->
                         OrganizationValue(k, LastOf(doc.members, k))]
           /\ d.missing # <<>> =>
                 /\ Range(d.missing)
                       = Range(NamesOfOrganization) \ Keys(doc.members)
                 /\ InOrder(NamesOfOrganization, d.missing)
<1>1. CASE doc.kind # "object"
  <2>1. d = Refused(ZeroOrganization)
    BY <1>1 DEF DecodeOrganization, DecodeObject
  <2>2. d.ok = FALSE /\ d.missing = <<>>
    BY <2>1 DEF Refused
  <2> QED
    BY <1>1, <2>2 DEF ConformsBody, Conforms
<1>2. CASE doc.kind = "object"
  <2> DEFINE ms == doc.members
             names == NamesOfOrganization
             keys == {"id", "name", "status", "createdAt", "updatedAt"}
             mask == 0 .. 4
  <2>1. Listed(ms)
    BY <1>2 DEF Flat
  <2>2. PICK s, r :
           /\ r = [i \in 1 .. Len(ms) |->
                     IF Contains(names, ms[i].key)
                     THEN OrganizationField(ms[i].key,
                             s[i - 1].value[ms[i].key], ms[i].val)
                     ELSE Refused("")]
           /\ Reading(names, ms, ZeroOrganization, s, r)
           /\ d = Outcome(names, mask, s[Len(ms)])
    BY Zenon, <1>2, <2>1, OrganizationReading
  <2> HIDE DEF ms, names, mask
  <2>3. /\ Schema(names, mask) /\ Range(names) = keys
        /\ Required(names, mask) = keys
    BY Schemas DEF names, mask
  <2>4. \A k : Contains(names, k) <=> k \in keys
    BY <2>3, NamesContain DEF Schema
  <2>5. ASSUME NEW i \in 1 .. Len(ms)
        PROVE  /\ r[i].ok \in BOOLEAN
               /\ ms[i].key \in keys =>
                     /\ r[i].ok <=> OrganizationFits(ms[i].key, ms[i].val)
                     /\ r[i].ok => r[i].value =
                                   OrganizationValue(ms[i].key, ms[i].val)
    <3>1. r[i] = IF ms[i].key \in keys
                 THEN OrganizationField(ms[i].key,
                         s[i - 1].value[ms[i].key], ms[i].val)
                 ELSE Refused("")
      BY Zenon, <2>2, <2>4
    <3>2. CASE ms[i].key \in keys /\ OrganizationFits(ms[i].key, ms[i].val)
      <4>1. r[i] = Read(OrganizationValue(ms[i].key, ms[i].val))
        BY <3>1, <3>2 DEF OrganizationField, DecodeUUID, DecodeString,
           DecodeTimestamp, DecodeOrganizationStatus, IsString,
           OrganizationFits, OrganizationValue
      <4> QED
        BY <3>2, <4>1, ResultIs
    <3>3. CASE ~(ms[i].key \in keys /\ OrganizationFits(ms[i].key, ms[i].val))
      <4>1. \E v : r[i] = Refused(v)
        BY Zenon, <3>1, <3>3 DEF OrganizationField, DecodeUUID, DecodeString,
           DecodeTimestamp, DecodeOrganizationStatus, IsString,
           OrganizationFits
      <4>2. r[i].ok = FALSE
        BY <4>1, ResultIs
      <4> QED
        BY <3>3, <4>2
    <3> QED
      BY <3>2, <3>3
  <2>6. Filled(names, ZeroOrganization)
    BY Zenon, <2>3 DEF Filled, ZeroOrganization
  <2>7. /\ d.ok \in BOOLEAN
        /\ d.ok <=> Fine(names, ms, r, Len(ms)) /\ keys \subseteq Keys(ms)
        /\ d.ok =>
              /\ Filled(names, d.value)
              /\ \A key \in keys \intersect Keys(ms) :
                    \E i \in DOMAIN ms : /\ ms[i].key = key
                                         /\ ms[i].val = LastOf(ms, key)
                                         /\ d.value[key] = r[i].value
        /\ d.missing # <<>> =>
              /\ Range(d.missing) = keys \ Keys(ms)
              /\ InOrder(names, d.missing)
    <3>1. \A i \in 1 .. Len(ms) : r[i].ok \in BOOLEAN
      BY <2>5
    <3>2. /\ Reading(names, ms, ZeroOrganization, s, r)
          /\ d = Outcome(names, mask, s[Len(ms)])
          /\ Schema(names, mask)
      BY Zenon, <2>2, <2>3
    <3> HIDE DEF keys
    <3>3. /\ d.ok \in BOOLEAN
          /\ d.ok <=> /\ Fine(names, ms, r, Len(ms))
                      /\ Required(names, mask) \subseteq Keys(ms)
          /\ d.ok =>
                /\ Filled(names, d.value)
                /\ \A key \in Range(names) \intersect Keys(ms) :
                      \E i \in DOMAIN ms :
                         /\ ms[i].key = key
                         /\ ms[i].val = LastOf(ms, key)
                         /\ d.value[key] = r[i].value
          /\ d.missing # <<>> =>
                /\ Range(d.missing) = Required(names, mask) \ Keys(ms)
                /\ InOrder(names, d.missing)
      BY <2>1, <2>6, <3>1, <3>2, ObjectValue
    <3> QED
      BY <2>3, <3>3
  <2>8. DOMAIN ms = 1 .. Len(ms)
    BY <2>1 DEF Listed
  <2>9. ConformsBody("Organization", doc) <=>
           /\ keys \subseteq Keys(ms)
           /\ \A i \in DOMAIN ms :
                 /\ ms[i].key \in keys
                 /\ OrganizationFits(ms[i].key, ms[i].val)
    BY <1>2 DEF ConformsBody, Conforms, Keys, OrganizationFits, ms
  <2>10. d.ok <=> ConformsBody("Organization", doc)
    <3> HIDE DEF keys
    <3> QED
      BY <2>3, <2>5, <2>7, <2>8, <2>9 DEF Fine
  <2>11. ASSUME d.ok
         PROVE  d.value = [k \in keys |-> OrganizationValue(k, LastOf(ms, k))]
    <3> HIDE DEF keys
    <3>1. ASSUME NEW k \in keys
          PROVE  d.value[k] = OrganizationValue(k, LastOf(ms, k))
      BY <2>3, <2>5, <2>7, <2>8, <2>11 DEF Fine
    <3> QED
      BY <2>3, <2>7, <2>11, <3>1 DEF Filled
  <2> QED
    BY <2>3, <2>7, <2>10, <2>11 DEF ms, names
<1> QED
  BY <1>1, <1>2

-----------------------------------------------------------------------------
(* What is accepted: errors and envelopes.                                 *)

\* What an array of details is read to.
DetailsOf(items) ==
    [Set |-> TRUE,
     List |-> [i \in 1 .. Len(items) |->
                  DecodeErrorDetail(ZeroErrorDetail, items[i]).value]]

\* All the elements are read, or none of the result counts.
LEMMA DetailsRead ==
    ASSUME NEW val, FlatItems(val), NEW old, NEW d,
           d = DecodeDetails(old, val)
    PROVE  /\ d.ok \in BOOLEAN
           /\ d.ok <=> /\ val.kind = "array"
                       /\ \A i \in DOMAIN val.items :
                             ConformsErrorDetail(val.items[i])
           /\ d.ok => d.value = DetailsOf(val.items)
<1> DEFINE empty == [Set |-> TRUE, List |-> <<>>]
<1>1. CASE val.kind # "array"
  <2>1. d = Refused(empty)
    BY <1>1 DEF DecodeDetails
  <2> HIDE DEF empty
  <2> QED
    BY <1>1, <2>1, ResultIs
<1>2. CASE val.kind = "array"
  <2> DEFINE items == val.items
             n == Len(items)
             e(i) == DecodeErrorDetail(ZeroErrorDetail, items[i])
  <2>1. Listed(items) /\ n \in Nat /\ DOMAIN items = 1 .. n
        /\ \A i \in 1 .. n : Flat(items[i])
    BY <1>2 DEF FlatItems, Listed
  <2>2. d = FoldLeft(ReadDetail, Read(empty), items)
    BY <1>2 DEF DecodeDetails
  <2> HIDE DEF items
  <2>3. PICK s : DetailsFold!Run(s, Read(empty), items) /\ d = s[n]
    <3> DEFINE start == Read(empty)
    <3> HIDE DEF start
    <3>1. \E s : /\ DetailsFold!Run(s, start, items)
                 /\ DetailsFold!FoldLeft(ReadDetail, start, items) = s[n]
      BY <2>1, DetailsFold!FoldLeftRuns
    <3>2. DetailsFold!FoldLeft(ReadDetail, start, items)
             = FoldLeft(ReadDetail, start, items)
      BY DEF FoldLeft, MapThenFoldSet, Max, DetailsFold!FoldLeft,
         DetailsFold!MapThenFoldSet, DetailsFold!Max
    <3> QED
      BY <2>2, <3>1, <3>2 DEF start
  <2>4. ASSUME NEW i \in 1 .. n
        PROVE  /\ e(i).ok \in BOOLEAN
               /\ e(i).ok <=> ConformsErrorDetail(items[i])
    BY <2>1, ErrorDetailRead
  <2> DEFINE Good(k) ==
               /\ s[k].ok \in BOOLEAN
               /\ s[k].ok <=> \A i \in 1 .. k : e(i).ok
               /\ s[k].ok => s[k].value = [Set |-> TRUE,
                                List |-> [i \in 1 .. k |-> e(i).value]]
             S == {k \in 0 .. n : Good(k)}
  <2>5. 0 \in S
    <3>1. s[0] = Read(empty)
      BY <2>3 DEF DetailsFold!Run
    <3>2. 1 .. 0 = {}
      OBVIOUS
    <3>3. [i \in 1 .. 0 |-> e(i).value] = <<>>
      <4> HIDE DEF e
      <4> QED
        BY <3>2
    <3>4. s[0].ok = TRUE /\ s[0].value = empty
      <4> HIDE DEF empty
      <4> QED
        BY <3>1, ResultIs
    <3> HIDE DEF e
    <3>5. Good(0)
      BY <3>2, <3>3, <3>4
    <3> QED
      BY <2>1, <3>5
  <2>6. ASSUME NEW k \in 1 .. n, k - 1 \in S PROVE k \in S
    <3>1. Good(k - 1)
      BY <2>6
    <3>2. s[k] = IF s[k - 1].ok /\ e(k).ok
                 THEN Read([Set |-> TRUE, List |->
                              Append(s[k - 1].value.List, e(k).value)])
                 ELSE Refused(s[k - 1].value)
      BY <2>1, <2>3 DEF DetailsFold!Run, ReadDetail
    <3>3. e(k).ok \in BOOLEAN
      BY <2>4
    <3> HIDE DEF e
    <3> SUFFICES Good(k)
      BY <2>1
    <3>4. (\A i \in 1 .. k : e(i).ok)
             <=> (\A i \in 1 .. (k - 1) : e(i).ok) /\ e(k).ok
      BY <2>1
    <3>5. CASE s[k - 1].ok /\ e(k).ok
      <4> DEFINE l == [i \in 1 .. (k - 1) |-> e(i).value]
      <4>1. s[k - 1].value.List = l
        BY <3>1, <3>5
      <4>2. Append(l, e(k).value) = [i \in 1 .. k |-> e(i).value]
        <5>1. Len(l) = k - 1
          BY <2>1
        <5> QED
          BY <2>1, <5>1
      <4>3. s[k] = Read([Set |-> TRUE, List |-> [i \in 1 .. k |-> e(i).value]])
        BY <3>2, <3>5, <4>1, <4>2
      <4> DEFINE v == [Set |-> TRUE, List |-> [i \in 1 .. k |-> e(i).value]]
      <4>4. s[k].ok = TRUE /\ s[k].value = v
        <5> HIDE DEF v
        <5>1. s[k] = Read(v)
          BY <4>3 DEF v
        <5> QED
          BY <5>1, ResultIs
      <4> QED
        BY <3>1, <3>4, <3>5, <4>4
    <3>6. CASE ~(s[k - 1].ok /\ e(k).ok)
      <4>1. s[k] = Refused(s[k - 1].value)
        BY <3>2, <3>6
      <4>2. s[k].ok = FALSE
        BY <4>1, ResultIs
      <4> QED
        BY <3>1, <3>4, <3>6, <4>2
    <3> QED
      BY <3>5, <3>6
  <2> HIDE DEF Good
  <2>7. \A k \in 0 .. n : k \in S
    <3> HIDE DEF S
    <3> QED
      BY <2>1, <2>5, <2>6, DetailFold!UpTo
  <2>8. Good(n)
    <3>1. n \in 0 .. n
      BY <2>1
    <3> QED
      BY <2>7, <3>1
  <2>9. d.ok <=> \A i \in 1 .. n : ConformsErrorDetail(items[i])
    <3> HIDE DEF e
    <3> QED
      BY <2>3, <2>4, <2>8 DEF Good
  <2> QED
    BY <1>2, <2>1, <2>3, <2>8, <2>9 DEF Good, DetailsOf, items
<1> QED
  BY <1>1, <1>2

Strings == {"code", "message", "requestId"}

\* An error whose members are a sequence, and its details too.
FlatError(doc) == doc.kind = "object" =>
    Listed(doc.members) /\ \A i \in DOMAIN doc.members :
                              FlatItems(doc.members[i].val)

ErrorFits(k, val) ==
    IF k = "details"
    THEN val.kind = "array"
         /\ \A i \in DOMAIN val.items : ConformsErrorDetail(val.items[i])
    ELSE IsString(val)

\* What it becomes.
ErrorValue(k, val) ==
    IF k = "details" THEN DetailsOf(val.items) ELSE val.text

\* DecodeError fails or does not.
LEMMA ErrorOk ==
    ASSUME NEW target, NEW doc PROVE DecodeError(target, doc).ok \in BOOLEAN
<1> DEFINE start == [ok |-> TRUE, value |-> target, bits |-> {}]
           final == FoldLeft(ReadError, start, doc.members)
           missed == (0 .. 2) \ final.bits
           lacking == Missed(NamesOfError, missed)
<1>1. DecodeError(target, doc) =
         IF doc.kind # "object" THEN Refused(target)
         ELSE IF ~final.ok THEN Refused(final.value)
         ELSE IF missed # {}
              THEN [Refused(final.value) EXCEPT !.missing = lacking]
              ELSE Read(final.value)
  BY DEF DecodeError, DecodeObject
<1> HIDE DEF final, missed, lacking
<1>2. [Refused(final.value) EXCEPT !.missing = lacking].ok = FALSE
  BY DEF Refused
<1>3. Refused(target).ok = FALSE /\ Refused(final.value).ok = FALSE
      /\ Read(final.value).ok = TRUE
  BY ResultIs
<1> QED
  BY <1>1, <1>2, <1>3

\* The strings of an error are the last that were read, and so are its details,
\* which stay those of the target if there are none.
LEMMA ErrorRead ==
    ASSUME NEW target, Filled(NamesOfError, target), NEW doc, FlatError(doc),
           NEW d, d = DecodeError(target, doc)
    PROVE  /\ d.ok \in BOOLEAN
           /\ d.ok <=> ConformsError(doc)
           /\ d.ok =>
                 /\ Filled(NamesOfError, d.value)
                 /\ \A k \in Strings :
                       /\ k \in Keys(doc.members)
                       /\ d.value[k] = LastOf(doc.members, k).text
                 /\ d.value.details =
                       IF "details" \in Keys(doc.members)
                       THEN DetailsOf(LastOf(doc.members, "details").items)
                       ELSE target.details
<1>1. CASE doc.kind # "object"
  <2>1. d = Refused(target)
    BY <1>1 DEF DecodeError, DecodeObject
  <2>2. d.ok = FALSE
    BY <2>1, ResultIs
  <2> QED
    BY <1>1, <2>2 DEF ConformsError, Conforms
<1>2. CASE doc.kind = "object"
  <2> DEFINE ms == doc.members
             names == NamesOfError
             keys == {"code", "message", "requestId", "details"}
             mask == 0 .. 2
  <2>1. Listed(ms) /\ \A i \in DOMAIN ms : FlatItems(ms[i].val)
    BY <1>2 DEF FlatError
  <2>2. PICK s, r :
           /\ r = [i \in 1 .. Len(ms) |->
                     IF Contains(names, ms[i].key)
                     THEN ErrorField(ms[i].key,
                             s[i - 1].value[ms[i].key], ms[i].val)
                     ELSE Refused("")]
           /\ Reading(names, ms, target, s, r)
           /\ d = Outcome(names, mask, s[Len(ms)])
    BY Zenon, <1>2, <2>1, ErrorReading
  <2> HIDE DEF ms, names, mask
  <2>3. /\ Schema(names, mask) /\ Range(names) = keys
        /\ Required(names, mask) = Strings
    BY Schemas DEF names, mask, Strings
  <2>4. \A k : Contains(names, k) <=> k \in keys
    BY <2>3, NamesContain DEF Schema
  <2>12. DOMAIN ms = 1 .. Len(ms)
    BY <2>1 DEF Listed
  <2>5. ASSUME NEW i \in 1 .. Len(ms)
        PROVE  /\ r[i].ok \in BOOLEAN
               /\ ms[i].key \in keys =>
                     /\ r[i].ok <=> ErrorFits(ms[i].key, ms[i].val)
                     /\ r[i].ok => r[i].value =
                                   ErrorValue(ms[i].key, ms[i].val)
    <3> DEFINE k == ms[i].key
               val == ms[i].val
               old == s[i - 1].value[k]
    <3>1. r[i] = IF k \in keys THEN ErrorField(k, old, val) ELSE Refused("")
      BY Zenon, <2>2, <2>4
    <3>2. FlatItems(val)
      BY <2>1, <2>12
    <3> HIDE DEF k, val, old
    <3>3. CASE k = "details"
      <4> DEFINE e == DecodeDetails(old, val)
      <4>1. r[i] = e
        BY <3>1, <3>3 DEF ErrorField
      <4>2. /\ e.ok \in BOOLEAN
            /\ e.ok <=> /\ val.kind = "array"
                        /\ \A j \in DOMAIN val.items :
                              ConformsErrorDetail(val.items[j])
            /\ e.ok => e.value = DetailsOf(val.items)
        BY <3>2, DetailsRead
      <4> HIDE DEF e
      <4> QED
        BY <3>3, <4>1, <4>2 DEF ErrorFits, ErrorValue, k, val
    <3>4. CASE k \in Strings /\ IsString(val)
      <4>1. r[i] = Read(val.text)
        BY Zenon, <3>1, <3>4
        DEF ErrorField, DecodeString, DecodeRequestId, IsString,
           Strings
      <4>2. r[i].ok = TRUE /\ r[i].value = val.text
        BY <4>1, ResultIs
      <4>3. k # "details" /\ IsString(val)
        BY <3>4 DEF Strings
      <4> QED
        BY <4>2, <4>3 DEF ErrorFits, ErrorValue, k, val
    <3>5. CASE k \in Strings /\ ~IsString(val)
      <4>1. \E v : r[i] = Refused(v)
        BY Zenon, <3>1, <3>5
        DEF ErrorField, DecodeString, DecodeRequestId, IsString,
           Strings
      <4>2. r[i].ok = FALSE
        BY <4>1, ResultIs
      <4>3. k # "details" /\ ~IsString(val)
        BY <3>5 DEF Strings
      <4> QED
        BY <4>2, <4>3 DEF ErrorFits, k, val
    <3>6. CASE k \notin keys
      <4>1. r[i].ok = FALSE
        BY Zenon, <3>1, <3>6, ResultIs
      <4> QED
        BY <3>6, <4>1 DEF k
    <3> QED
      BY <3>3, <3>4, <3>5, <3>6 DEF Strings
  <2>7. /\ d.ok \in BOOLEAN
        /\ d.ok <=> Fine(names, ms, r, Len(ms)) /\ Strings \subseteq Keys(ms)
        /\ d.ok =>
              /\ Filled(names, d.value)
              /\ \A key \in keys \intersect Keys(ms) :
                    \E i \in DOMAIN ms : /\ ms[i].key = key
                                         /\ ms[i].val = LastOf(ms, key)
                                         /\ d.value[key] = r[i].value
              /\ \A key \in keys \ Keys(ms) : d.value[key] = target[key]
    <3>1. \A i \in 1 .. Len(ms) : r[i].ok \in BOOLEAN
      BY <2>5
    <3>2. /\ Reading(names, ms, target, s, r)
          /\ d = Outcome(names, mask, s[Len(ms)])
          /\ Schema(names, mask) /\ Filled(names, target)
      BY Zenon, <2>2, <2>3 DEF names
    <3> HIDE DEF keys
    <3>3. /\ d.ok \in BOOLEAN
          /\ d.ok <=> /\ Fine(names, ms, r, Len(ms))
                      /\ Required(names, mask) \subseteq Keys(ms)
          /\ d.ok =>
                /\ Filled(names, d.value)
                /\ \A key \in Range(names) \intersect Keys(ms) :
                      \E i \in DOMAIN ms :
                         /\ ms[i].key = key
                         /\ ms[i].val = LastOf(ms, key)
                         /\ d.value[key] = r[i].value
                /\ \A key \in Range(names) \ Keys(ms) :
                      d.value[key] = target[key]
      BY <2>1, <3>1, <3>2, ObjectValue
    <3> QED
      BY <2>3, <3>3
  <2>9. ConformsError(doc) <=>
           /\ Strings \subseteq Keys(ms)
           /\ \A i \in DOMAIN ms :
                 ms[i].key \in keys /\ ErrorFits(ms[i].key, ms[i].val)
    BY <1>2 DEF ConformsError, Conforms, Keys, ErrorFits, ms, Strings
  <2>10. d.ok <=> ConformsError(doc)
    <3> HIDE DEF keys
    <3> QED
      BY <2>3, <2>5, <2>7, <2>9, <2>12 DEF Fine
  <2>11. ASSUME d.ok
         PROVE  /\ \A k \in Strings : k \in Keys(ms)
                                      /\ d.value[k] = LastOf(ms, k).text
                /\ d.value.details =
                      IF "details" \in Keys(ms)
                      THEN DetailsOf(LastOf(ms, "details").items)
                      ELSE target.details
    <3>1. "details" \in keys /\ Strings \subseteq keys
          /\ \A k \in Strings : k # "details"
      BY DEF Strings
    <3> HIDE DEF keys
    <3>2. Strings \subseteq Keys(ms) /\ Fine(names, ms, r, Len(ms))
      BY <2>7, <2>11
    <3>3. ASSUME NEW k \in keys, k \in Keys(ms)
          PROVE  d.value[k] = ErrorValue(k, LastOf(ms, k))
      BY <2>3, <2>5, <2>7, <2>11, <2>12, <3>2, <3>3 DEF Fine
    <3>4. ASSUME NEW k \in Strings PROVE d.value[k] = LastOf(ms, k).text
      BY <3>1, <3>2, <3>3 DEF ErrorValue
    <3>5. "details" \in Keys(ms) =>
             d.value["details"] = DetailsOf(LastOf(ms, "details").items)
      BY <3>1, <3>3 DEF ErrorValue
    <3>6. "details" \notin Keys(ms) => d.value["details"] = target["details"]
      BY <2>7, <2>11, <3>1
    <3> QED
      BY <3>2, <3>4, <3>5, <3>6
  <2> QED
    BY <2>7, <2>10, <2>11 DEF ms, names
<1> QED
  BY <1>1, <1>2

\* The members of the error objects are sequences as well.
FlatEnvelope(doc) == doc.kind = "object" =>
    Listed(doc.members) /\ \A i \in DOMAIN doc.members :
                              FlatError(doc.members[i].val)

\* The i-th of the error objects in an envelope, and whether it has details.
Part(ms, i) == ms[i].val.members
WithDetails(ms, i) == "details" \in Keys(Part(ms, i))

\* The error e is what the error objects up to the k-th are read to.
Merged(ms, k, e) ==
    /\ Filled(NamesOfError, e)
    /\ k # 0 => \A f \in Strings :
                   /\ f \in Keys(Part(ms, k))
                   /\ e[f] = LastOf(Part(ms, k), f).text
    /\ (\A i \in 1 .. k : ~WithDetails(ms, i)) => e.details = NoDetails
    /\ \A i \in 1 .. k :
          WithDetails(ms, i) /\ (\A j \in 1 .. k : WithDetails(ms, j) => j =< i)
          => e.details = DetailsOf(LastOf(Part(ms, i), "details").items)

\* One more error object is read into what the earlier ones left.
LEMMA MergeStep ==
    ASSUME NEW ms, NEW k \in Nat \ {0}, NEW old, Merged(ms, k - 1, old),
           FlatError(ms[k].val), NEW d, d = DecodeError(old, ms[k].val), d.ok
    PROVE  Merged(ms, k, d.value)
<1>1. /\ Filled(NamesOfError, d.value)
      /\ \A f \in Strings :
            /\ f \in Keys(Part(ms, k))
            /\ d.value[f] = LastOf(Part(ms, k), f).text
      /\ d.value.details =
            IF WithDetails(ms, k)
            THEN DetailsOf(LastOf(Part(ms, k), "details").items)
            ELSE old.details
  BY ErrorRead DEF Merged, Part, WithDetails
<1> DEFINE new == d.value
<1> HIDE DEF new
<1>2. \A j \in 1 .. k : j = k \/ j \in 1 .. (k - 1)
  OBVIOUS
<1>3. CASE WithDetails(ms, k)
  <2>1. ASSUME NEW i \in 1 .. k, \A j \in 1 .. k : WithDetails(ms, j) => j =< i
        PROVE  i = k
    BY <1>3, <2>1
  <2>2. k \in 1 .. k
    OBVIOUS
  <2> QED
    BY <1>1, <1>3, <2>1, <2>2 DEF Merged
<1>4. CASE ~WithDetails(ms, k)
  <2>1. d.value.details = old.details
    BY <1>1, <1>4
  <2>2. ASSUME NEW i \in 1 .. k, WithDetails(ms, i),
               \A j \in 1 .. k : WithDetails(ms, j) => j =< i
        PROVE  d.value.details = DetailsOf(LastOf(Part(ms, i), "details").items)
    <3>1. i \in 1 .. (k - 1)
      BY <1>2, <1>4, <2>2
    <3>2. \A j \in 1 .. (k - 1) : WithDetails(ms, j) => j =< i
      BY <2>2
    <3> QED
      BY <2>1, <2>2, <3>1, <3>2 DEF Merged
  <2>3. ASSUME \A i \in 1 .. k : ~WithDetails(ms, i)
        PROVE  d.value.details = NoDetails
    <3>1. \A i \in 1 .. (k - 1) : ~WithDetails(ms, i)
      BY <2>3
    <3> QED
      BY <2>1, <3>1 DEF Merged
  <2> QED
    BY <1>1, <2>2, <2>3 DEF Merged
<1> QED
  BY <1>3, <1>4

ZeroEnvelope == [error |-> ZeroError]

\* What DecodeErrorEnvelope accepts, returns and reports as missing.
LEMMA EnvelopeRead ==
    ASSUME NEW doc, FlatEnvelope(doc), NEW d,
           d = DecodeErrorEnvelope(ZeroEnvelope, doc)
    PROVE  /\ d.ok \in BOOLEAN
           /\ d.ok <=> ConformsBody("ErrorEnvelope", doc)
           /\ d.ok => /\ Filled(NamesOfErrorEnvelope, d.value)
                      /\ Listed(doc.members) /\ Len(doc.members) # 0
                      /\ Merged(doc.members, Len(doc.members), d.value.error)
           /\ d.missing # <<>> =>
                 /\ Range(d.missing)
                       = Range(NamesOfErrorEnvelope) \ Keys(doc.members)
                 /\ InOrder(NamesOfErrorEnvelope, d.missing)
<1>1. CASE doc.kind # "object"
  <2>1. d = Refused(ZeroEnvelope)
    BY <1>1 DEF DecodeErrorEnvelope, DecodeObject
  <2>2. d.ok = FALSE /\ d.missing = <<>>
    BY <2>1 DEF Refused
  <2> QED
    BY <1>1, <2>2 DEF ConformsBody, Conforms
<1>2. CASE doc.kind = "object"
  <2> DEFINE ms == doc.members
             names == NamesOfErrorEnvelope
             mask == {0}
             n == Len(ms)
  <2>1. /\ Listed(ms) /\ n \in Nat /\ DOMAIN ms = 1 .. n
        /\ \A i \in 1 .. n : FlatError(ms[i].val)
    BY <1>2 DEF FlatEnvelope, Listed
  <2>2. PICK s, r :
           /\ r = [i \in 1 .. n |->
                     IF Contains(names, ms[i].key)
                     THEN ErrorEnvelopeField(ms[i].key,
                             s[i - 1].value[ms[i].key], ms[i].val)
                     ELSE Refused("")]
           /\ Reading(names, ms, ZeroEnvelope, s, r)
           /\ d = Outcome(names, mask, s[n])
    BY Zenon, <1>2, <2>1, ErrorEnvelopeReading
  <2> HIDE DEF ms, names, mask
  <2>3. /\ Schema(names, mask) /\ Range(names) = {"error"}
        /\ Required(names, mask) = {"error"}
    BY Schemas DEF names, mask
  <2>4. \A k : Contains(names, k) <=> k = "error"
    BY <2>3, NamesContain DEF Schema
  <2>5. ASSUME NEW i \in 1 .. n
        PROVE  /\ r[i].ok \in BOOLEAN
               /\ ms[i].key = "error" =>
                     r[i] = DecodeError(s[i - 1].value.error, ms[i].val)
    <3>1. r[i] = IF ms[i].key = "error"
                 THEN DecodeError(s[i - 1].value[ms[i].key], ms[i].val)
                 ELSE Refused("")
      BY Zenon, <2>2, <2>4 DEF ErrorEnvelopeField
    <3>2. CASE ms[i].key = "error"
      <4>1. r[i] = DecodeError(s[i - 1].value.error, ms[i].val)
        BY <3>1, <3>2
      <4> QED
        BY <4>1, ErrorOk
    <3>3. CASE ms[i].key # "error"
      <4>1. r[i].ok = FALSE
        BY Zenon, <3>1, <3>3, ResultIs
      <4> QED
        BY <3>3, <4>1
    <3> QED
      BY <3>2, <3>3
  <2>6. Filled(names, ZeroEnvelope)
    BY <2>3 DEF Filled, ZeroEnvelope
  <2>7. Reading(names, ms, ZeroEnvelope, s, r) /\ Listed(names)
    BY Zenon, <2>2, <2>3 DEF Schema
  <2>8. \A k \in 0 .. n :
           /\ s[k].ok \in BOOLEAN
           /\ s[k].ok <=> Fine(names, ms, r, k)
           /\ s[k].ok =>
                 /\ Filled(names, s[k].value)
                 /\ s[k].bits = {Bit(names, ms[i].key) : i \in 1 .. k}
                 /\ k # 0 => s[k].value = [s[k - 1].value EXCEPT
                                              ![ms[k].key] = r[k].value]
    <3>1. \A i \in 1 .. n : r[i].ok \in BOOLEAN
      BY <2>5
    <3> QED
      BY <2>1, <2>6, <2>7, <3>1, ReadingSteps DEF Filled
  <2> DEFINE Good(k) ==
               /\ s[k].ok <=> \A i \in 1 .. k : /\ ms[i].key = "error"
                                                /\ ConformsError(ms[i].val)
               /\ s[k].ok => Merged(ms, k, s[k].value.error)
             S == {k \in 0 .. n : Good(k)}
  <2>9. 0 \in S
    <3>1. s[0].ok = TRUE /\ s[0].value.error = ZeroError
      BY <2>7 DEF Reading, ZeroEnvelope
    <3>2. 1 .. 0 = {}
      OBVIOUS
    <3>3. Filled(NamesOfError, ZeroError) /\ ZeroError.details = NoDetails
      BY Zenon, Schemas DEF Filled, ZeroError
    <3>4. Merged(ms, 0, ZeroError)
      BY <3>2, <3>3 DEF Merged
    <3>5. Good(0)
      BY <3>1, <3>2, <3>4
    <3> QED
      BY <2>1, <3>5
  <2>10. ASSUME NEW k \in 1 .. n, k - 1 \in S PROVE k \in S
    <3>1. Good(k - 1) /\ k \in Nat \ {0} /\ k \in 0 .. n /\ k - 1 \in 0 .. n
      BY <2>1, <2>10
    <3>2. s[k].ok <=> /\ s[k - 1].ok /\ ms[k].key = "error" /\ r[k].ok
      <4>1. Fine(names, ms, r, k) <=>
               Fine(names, ms, r, k - 1) /\ ms[k].key = "error" /\ r[k].ok
        BY <2>1, <2>3 DEF Fine
      <4> QED
        BY <2>8, <3>1, <4>1
    <3>3. ASSUME s[k - 1].ok, ms[k].key = "error"
          PROVE  /\ r[k].ok <=> ConformsError(ms[k].val)
                 /\ r[k].ok => Merged(ms, k, r[k].value)
      <4>1. Merged(ms, k - 1, s[k - 1].value.error)
        BY <3>1, <3>3
      <4>2. r[k] = DecodeError(s[k - 1].value.error, ms[k].val)
        BY <2>5, <3>3
      <4>3. FlatError(ms[k].val)
        BY <2>1
      <4>4. r[k].ok <=> ConformsError(ms[k].val)
        BY <4>1, <4>2, <4>3, ErrorRead DEF Merged
      <4>5. r[k].ok => Merged(ms, k, r[k].value)
        BY <3>1, <4>1, <4>2, <4>3, MergeStep
      <4> QED
        BY <4>4, <4>5
    <3>4. s[k].ok => s[k].value.error = r[k].value
      <4> SUFFICES ASSUME s[k].ok PROVE s[k].value.error = r[k].value
        OBVIOUS
      <4>1. s[k].value = [s[k - 1].value EXCEPT ![ms[k].key] = r[k].value]
        BY <2>8, <3>1
      <4>2. Filled(names, s[k - 1].value) /\ ms[k].key = "error"
        BY <2>8, <3>1, <3>2
      <4> QED
        BY <2>3, <4>1, <4>2 DEF Filled
    <3>5. (\A i \in 1 .. k : /\ ms[i].key = "error"
                             /\ ConformsError(ms[i].val))
             <=> /\ \A i \in 1 .. (k - 1) : /\ ms[i].key = "error"
                                            /\ ConformsError(ms[i].val)
                 /\ ms[k].key = "error" /\ ConformsError(ms[k].val)
      BY <2>1
    <3>6. s[k].ok \in BOOLEAN /\ s[k - 1].ok \in BOOLEAN /\ r[k].ok \in BOOLEAN
      BY <2>5, <2>8, <3>1
    <3>7. Good(k)
      BY <3>1, <3>2, <3>3, <3>4, <3>5, <3>6
    <3> HIDE DEF Good
    <3> QED
      BY <3>1, <3>7
  <2> HIDE DEF Good
  <2>11. \A k \in 0 .. n : k \in S
    <3> HIDE DEF S
    <3> QED
      BY <2>1, <2>9, <2>10, DetailFold!UpTo
  <2>12. Good(n)
    <3>1. n \in 0 .. n
      BY <2>1
    <3> QED
      BY <2>11, <3>1
  <2>13. /\ d.ok \in BOOLEAN
         /\ d.ok <=> Fine(names, ms, r, n) /\ {"error"} \subseteq Keys(ms)
         /\ d.ok => Filled(names, d.value)
         /\ d.missing # <<>> => /\ Range(d.missing) = {"error"} \ Keys(ms)
                                /\ InOrder(names, d.missing)
    <3>1. \A i \in 1 .. n : r[i].ok \in BOOLEAN
      BY <2>5
    <3>2. Schema(names, mask) /\ d = Outcome(names, mask, s[n])
      BY Zenon, <2>2, <2>3
    <3>3. /\ d.ok \in BOOLEAN
          /\ d.ok <=> /\ Fine(names, ms, r, n)
                      /\ Required(names, mask) \subseteq Keys(ms)
          /\ d.ok => Filled(names, d.value)
          /\ d.missing # <<>> =>
                /\ Range(d.missing) = Required(names, mask) \ Keys(ms)
                /\ InOrder(names, d.missing)
      BY <2>1, <2>6, <2>7, <3>1, <3>2, ObjectValue
    <3> QED
      BY <2>3, <3>3
  <2>14. s[n].ok <=> Fine(names, ms, r, n)
    <3>1. n \in 0 .. n
      BY <2>1
    <3> QED
      BY <2>8, <3>1
  <2>15. d.ok => d.value = s[n].value
    <3> DEFINE final == s[n]
    <3>1. d = Outcome(names, mask, final)
      BY Zenon, <2>2
    <3> HIDE DEF final
    <3>2. d.ok => d.value = final.value
      BY <3>1 DEF Outcome, Refused, Read
    <3> QED
      BY <3>2 DEF final
  <2>16. ConformsBody("ErrorEnvelope", doc) <=>
            /\ {"error"} \subseteq Keys(ms)
            /\ \A i \in 1 .. n : /\ ms[i].key = "error"
                                 /\ ConformsError(ms[i].val)
    BY <1>2, <2>1 DEF ConformsBody, Conforms, Keys, ms
  <2>17. d.ok <=> ConformsBody("ErrorEnvelope", doc)
    BY <2>12, <2>13, <2>14, <2>16 DEF Good
  <2>18. d.ok => n # 0 /\ Merged(ms, n, d.value.error)
    <3>1. d.ok => "error" \in Keys(ms)
      BY <2>13
    <3>2. "error" \in Keys(ms) => n # 0
      BY <2>1 DEF Keys
    <3> QED
      BY <2>12, <2>13, <2>14, <2>15, <3>1, <3>2 DEF Good
  <2> QED
    BY <2>1, <2>3, <2>13, <2>17, <2>18 DEF ms, names
<1> QED
  BY <1>1, <1>2

-----------------------------------------------------------------------------
(* What is written is read again.                                          *)

\* The value of a key that comes once is the one it comes with.
LEMMA OnlyPlace ==
    ASSUME NEW ms, Listed(ms), NEW i \in DOMAIN ms,
           \A j \in DOMAIN ms : ms[j].key = ms[i].key => j = i
    PROVE  LastOf(ms, ms[i].key) = ms[i].val
<1>1. LastPlace(ms, ms[i].key, i)
  BY DEF LastPlace, Listed
<1> QED
  BY <1>1, LastIs

\* A detail that is written is read again.
LEMMA ErrorDetailBack ==
    ASSUME NEW v \in ErrorDetail, NEW doc, doc = EncodeErrorDetail(v),
           NEW d, d = DecodeErrorDetail(ZeroErrorDetail, doc)
    PROVE  Flat(doc) /\ ConformsErrorDetail(doc) /\ d.ok /\ d.value = v
<1> DEFINE ms == <<Member("pointer", Str(v.pointer)),
                   Member("code", Str(v.code)),
                   Member("message", Str(v.message))>>
<1>1. doc.kind = "object" /\ doc.members = ms
  BY DEF EncodeErrorDetail, Object
<1>2. Listed(ms) /\ DOMAIN ms = {1, 2, 3}
  BY DEF Listed
<1>3. /\ ms[1].key = "pointer" /\ ms[1].val = Str(v.pointer)
      /\ ms[2].key = "code" /\ ms[2].val = Str(v.code)
      /\ ms[3].key = "message" /\ ms[3].val = Str(v.message)
  BY DEF Member
<1> HIDE DEF ms
<1>4. /\ LastOf(ms, "pointer") = Str(v.pointer)
      /\ LastOf(ms, "code") = Str(v.code)
      /\ LastOf(ms, "message") = Str(v.message)
  <2>1. \A i \in DOMAIN ms :
           (\A j \in DOMAIN ms : ms[j].key = ms[i].key => j = i)
           => LastOf(ms, ms[i].key) = ms[i].val
    BY <1>2, OnlyPlace
  <2> QED
    BY <1>2, <1>3, <2>1
<1>5. Flat(doc)
  BY <1>1, <1>2 DEF Flat
<1>6. ConformsErrorDetail(doc)
  BY <1>1, <1>2, <1>3 DEF ConformsErrorDetail, Conforms, Keys, IsString, Str
<1>7. d.ok /\ d.value = [k \in {"pointer", "code", "message"} |->
                            LastOf(ms, k).text]
  BY <1>1, <1>5, <1>6, ErrorDetailRead
<1>8. v = [k \in {"pointer", "code", "message"} |-> v[k]]
  BY DEF ErrorDetail
<1> QED
  BY <1>4, <1>5, <1>6, <1>7, <1>8 DEF Str

\* A status that is written is read again.
LEMMA HealthStatusBack ==
    ASSUME NEW v \in HealthStatus, NEW doc, doc = EncodeHealthStatus(v),
           NEW d, d = DecodeHealthStatus(ZeroHealthStatus, doc)
    PROVE  Flat(doc) /\ d.ok /\ d.value = v
<1> DEFINE ms == <<Member("status", Str(v.status))>>
<1>1. doc.kind = "object" /\ doc.members = ms
  BY DEF EncodeHealthStatus, EncodeHealthStatusStatus, Object
<1>2. Listed(ms) /\ DOMAIN ms = {1}
  BY DEF Listed
<1>3. ms[1].key = "status" /\ ms[1].val = Str(v.status)
  BY DEF Member
<1> HIDE DEF ms
<1>4. LastOf(ms, "status") = Str(v.status)
  BY <1>2, <1>3, OnlyPlace
<1>5. Flat(doc)
  BY <1>1, <1>2 DEF Flat
<1>6. ConformsBody("HealthStatus", doc)
  BY <1>1, <1>2, <1>3 DEF ConformsBody, Conforms, Keys, IsString, Str
<1>7. d.ok /\ d.value = [k \in {"status"} |-> LastOf(ms, k).text]
  BY <1>1, <1>5, <1>6, HealthStatusRead
<1>8. v = [k \in {"status"} |-> v[k]]
  BY DEF HealthStatus
<1> QED
  BY <1>4, <1>5, <1>7, <1>8 DEF Str

\* An instant comes back without the fraction of a second.
LEMMA OrganizationBack ==
    ASSUME NEW v \in Organization, NEW doc, doc = EncodeOrganization(v),
           NEW d, d = DecodeOrganization(ZeroOrganization, doc)
    PROVE  /\ Flat(doc) /\ d.ok
           /\ d.value = [v EXCEPT !.createdAt = ParseTime[FormatTime[@]],
                                  !.updatedAt = ParseTime[FormatTime[@]]]
<1> DEFINE keys == {"id", "name", "status", "createdAt", "updatedAt"}
           ms == <<Member("id", Str(FormatUUID[v.id])),
                   Member("name", Str(v.name)),
                   Member("status", Str(v.status)),
                   Member("createdAt", Str(FormatTime[v.createdAt])),
                   Member("updatedAt", Str(FormatTime[v.updatedAt]))>>
<1>1. doc.kind = "object" /\ doc.members = ms
  BY DEF EncodeOrganization, EncodeUUID, EncodeOrganizationStatus,
     EncodeTimestamp, Object
<1>2. Listed(ms) /\ DOMAIN ms = {1, 2, 3, 4, 5}
  BY DEF Listed
<1>3. /\ ms[1].key = "id" /\ ms[1].val = Str(FormatUUID[v.id])
      /\ ms[2].key = "name" /\ ms[2].val = Str(v.name)
      /\ ms[3].key = "status" /\ ms[3].val = Str(v.status)
      /\ ms[4].key = "createdAt" /\ ms[4].val = Str(FormatTime[v.createdAt])
      /\ ms[5].key = "updatedAt" /\ ms[5].val = Str(FormatTime[v.updatedAt])
  BY DEF Member
<1> HIDE DEF ms
<1>4. /\ LastOf(ms, "id") = Str(FormatUUID[v.id])
      /\ LastOf(ms, "name") = Str(v.name)
      /\ LastOf(ms, "status") = Str(v.status)
      /\ LastOf(ms, "createdAt") = Str(FormatTime[v.createdAt])
      /\ LastOf(ms, "updatedAt") = Str(FormatTime[v.updatedAt])
  <2>1. \A i \in DOMAIN ms :
           (\A j \in DOMAIN ms : ms[j].key = ms[i].key => j = i)
           => LastOf(ms, ms[i].key) = ms[i].val
    BY <1>2, OnlyPlace
  <2> QED
    BY <1>2, <1>3, <2>1
<1>5. Flat(doc)
  BY <1>1, <1>2 DEF Flat
<1>6. /\ v.id \in UUID /\ v.createdAt \in Timestamp
      /\ v.updatedAt \in Timestamp
      /\ DOMAIN v = keys /\ v = [k \in keys |-> v[k]]
  BY DEF Organization
<1>7. /\ FormatUUID[v.id] \in DOMAIN ParseUUID
      /\ ParseUUID[FormatUUID[v.id]] = v.id
      /\ FormatTime[v.createdAt] \in DOMAIN ParseTime
      /\ FormatTime[v.updatedAt] \in DOMAIN ParseTime
  BY <1>6, ConversionAssumption
<1>8. ConformsBody("Organization", doc)
  BY <1>1, <1>2, <1>3, <1>7
     DEF ConformsBody, Conforms, Keys, IsString, Str
<1>9. Range(NamesOfOrganization) = keys
  BY Schemas
<1>10. d.ok /\ d.value = [k \in keys |-> OrganizationValue(k, LastOf(ms, k))]
  BY <1>1, <1>5, <1>8, <1>9, OrganizationRead
<1>11. /\ OrganizationValue("id", LastOf(ms, "id")) = v.id
       /\ OrganizationValue("name", LastOf(ms, "name")) = v.name
       /\ OrganizationValue("status", LastOf(ms, "status")) = v.status
       /\ OrganizationValue("createdAt", LastOf(ms, "createdAt"))
             = ParseTime[FormatTime[v.createdAt]]
       /\ OrganizationValue("updatedAt", LastOf(ms, "updatedAt"))
             = ParseTime[FormatTime[v.updatedAt]]
  <2>1. /\ OrganizationValue("id", LastOf(ms, "id"))
              = ParseUUID[FormatUUID[v.id]]
        /\ OrganizationValue("name", LastOf(ms, "name")) = v.name
        /\ OrganizationValue("status", LastOf(ms, "status")) = v.status
    BY <1>4 DEF OrganizationValue, Str
  <2>2. /\ OrganizationValue("createdAt", LastOf(ms, "createdAt"))
              = ParseTime[FormatTime[v.createdAt]]
        /\ OrganizationValue("updatedAt", LastOf(ms, "updatedAt"))
              = ParseTime[FormatTime[v.updatedAt]]
    BY <1>4 DEF OrganizationValue, Str
  <2> QED
    BY <1>7, <2>1, <2>2
<1>12. d.value = [v EXCEPT !.createdAt = ParseTime[FormatTime[@]],
                           !.updatedAt = ParseTime[FormatTime[@]]]
  <2> DEFINE w == [v EXCEPT !.createdAt = ParseTime[FormatTime[@]],
                            !.updatedAt = ParseTime[FormatTime[@]]]
  <2>1. /\ w.id = v.id /\ w.name = v.name /\ w.status = v.status
        /\ w.createdAt = ParseTime[FormatTime[v.createdAt]]
        /\ w.updatedAt = ParseTime[FormatTime[v.updatedAt]]
        /\ w = [k \in keys |-> w[k]]
    BY <1>6
  <2> HIDE DEF w
  <2>2. \A k \in keys : OrganizationValue(k, LastOf(ms, k)) = w[k]
    BY <1>11, <2>1
  <2> HIDE DEF keys
  <2>3. d.value = w
    BY <1>10, <2>1, <2>2
  <2> QED
    BY <2>3 DEF w
<1> QED
  BY <1>5, <1>10, <1>12

\* The members of an error that is written, with its details or without.
LEMMA ErrorMembers ==
    ASSUME NEW v \in Error, NEW ms, ms = EncodeError(v).members
    PROVE  /\ Listed(ms)
           /\ DOMAIN ms = IF v.details.Set THEN {1, 2, 3, 4} ELSE {1, 2, 3}
           /\ ms[1].key = "code" /\ ms[1].val = Str(v.code)
           /\ ms[2].key = "message" /\ ms[2].val = Str(v.message)
           /\ ms[3].key = "requestId" /\ ms[3].val = Str(v.requestId)
           /\ v.details.Set =>
                 /\ ms[4].key = "details"
                 /\ ms[4].val = Array([i \in DOMAIN v.details.List |->
                                   EncodeErrorDetail(v.details.List[i])])
<1> DEFINE a == Member("code", Str(v.code))
           b == Member("message", Str(v.message))
           c == Member("requestId", Str(v.requestId))
           e == Member("details", Array([i \in DOMAIN v.details.List |->
                                      EncodeErrorDetail(v.details.List[i])]))
<1>1. ms = <<a, b, c>> \o (IF v.details.Set THEN <<e>> ELSE <<>>)
  BY DEF EncodeError, EncodeRequestId, Object
<1>2. /\ a.key = "code" /\ a.val = Str(v.code)
      /\ b.key = "message" /\ b.val = Str(v.message)
      /\ c.key = "requestId" /\ c.val = Str(v.requestId)
      /\ e.key = "details"
      /\ e.val = Array([i \in DOMAIN v.details.List |->
                           EncodeErrorDetail(v.details.List[i])])
  BY DEF Member
<1> HIDE DEF a, b, c, e
<1>3. CASE v.details.Set
  <2> DEFINE s == <<a, b, c>>
             t == <<e>>
             S == {a, b, c, e}
  <2>1. ms = s \o t
    BY <1>1, <1>3
  <2>3. /\ s \in Seq(S) /\ Len(s) = 3 /\ s[1] = a /\ s[2] = b /\ s[3] = c
        /\ t \in Seq(S) /\ Len(t) = 1 /\ t[1] = e
    OBVIOUS
  <2> HIDE DEF s, t, S
  <2>4. /\ ms \in Seq(S) /\ Len(ms) = Len(s) + Len(t)
        /\ \A i \in 1 .. Len(s) + Len(t) :
              ms[i] = IF i =< Len(s) THEN s[i] ELSE t[i - Len(s)]
    <3>1. s \in Seq(S) /\ t \in Seq(S)
      BY <2>3
    <3>2. /\ s \o t \in Seq(S) /\ Len(s \o t) = Len(s) + Len(t)
          /\ \A i \in 1 .. Len(s) + Len(t) :
                (s \o t)[i] = IF i =< Len(s) THEN s[i] ELSE t[i - Len(s)]
      BY <3>1, ConcatProperties, Zenon
    <3> QED
      BY <2>1, <3>2, Zenon
  <2>5. /\ ms \in Seq(S) /\ Len(ms) = 4
        /\ ms[1] = a /\ ms[2] = b /\ ms[3] = c /\ ms[4] = e
    <3>0. Len(s) + Len(t) = 4 /\ Len(s) = 3
      BY <2>3
    <3>1. \A i \in 1 .. 4 : ms[i] = IF i =< 3 THEN s[i] ELSE t[i - 3]
      BY <2>4, <3>0, Zenon
    <3>2. 4 - 3 = 1
      OBVIOUS
    <3>3. ms[1] = s[1] /\ ms[2] = s[2] /\ ms[3] = s[3] /\ ms[4] = t[4 - 3]
      BY <3>1
    <3> QED
      BY <2>3, <2>4, <3>2, <3>3
  <2>6. DOMAIN ms = 1 .. 4 /\ ms = [i \in 1 .. 4 |-> ms[i]]
    BY <2>5
  <2>2. /\ Listed(ms) /\ DOMAIN ms = {1, 2, 3, 4}
        /\ ms[1] = a /\ ms[2] = b /\ ms[3] = c /\ ms[4] = e
    BY <2>5, <2>6 DEF Listed
  <2> QED
    BY <1>2, <1>3, <2>2
<1>4. CASE ~v.details.Set
  <2>1. ms = <<a, b, c>>
    BY <1>1, <1>4
  <2>2. /\ Listed(ms) /\ DOMAIN ms = {1, 2, 3}
        /\ ms[1] = a /\ ms[2] = b /\ ms[3] = c
    BY <2>1 DEF Listed
  <2> QED
    BY <1>2, <1>4, <2>2
<1> QED
  BY <1>3, <1>4

\* Details that are written are read again, in their order.
LEMMA DetailsBack ==
    ASSUME NEW list \in Seq(ErrorDetail), NEW items,
           items = [i \in DOMAIN list |-> EncodeErrorDetail(list[i])]
    PROVE  /\ FlatItems(Array(items))
           /\ \A i \in DOMAIN items : ConformsErrorDetail(items[i])
           /\ DetailsOf(items) = [Set |-> TRUE, List |-> list]
<1>1. /\ Len(list) \in Nat /\ DOMAIN list = 1 .. Len(list)
      /\ list = [i \in 1 .. Len(list) |-> list[i]]
      /\ \A i \in 1 .. Len(list) : list[i] \in ErrorDetail
  OBVIOUS
<1>2. Len(items) = Len(list) /\ DOMAIN items = 1 .. Len(list)
  BY <1>1
<1>3. Listed(items)
  BY <1>1, <1>2 DEF Listed
<1>4. \A i \in 1 .. Len(list) :
         /\ Flat(items[i]) /\ ConformsErrorDetail(items[i])
         /\ DecodeErrorDetail(ZeroErrorDetail, items[i]).value = list[i]
  BY <1>1, ErrorDetailBack
<1>5. FlatItems(Array(items))
  BY <1>2, <1>3, <1>4 DEF FlatItems, Array
<1>6. DetailsOf(items) = [Set |-> TRUE, List |-> list]
  <2>1. [i \in 1 .. Len(items) |->
            DecodeErrorDetail(ZeroErrorDetail, items[i]).value] = list
    BY <1>1, <1>2, <1>4
  <2> QED
    BY <2>1 DEF DetailsOf
<1> QED
  BY <1>2, <1>4, <1>5, <1>6

\* An error that is written says what the error was, nil details included.
LEMMA ErrorBack ==
    ASSUME NEW v \in Error, NEW doc, doc = EncodeError(v)
    PROVE  /\ FlatError(doc) /\ ConformsError(doc)
           /\ \A f \in Strings : LastOf(doc.members, f).text = v[f]
           /\ IF "details" \in Keys(doc.members)
              THEN v.details = DetailsOf(LastOf(doc.members, "details").items)
              ELSE v.details = NoDetails
<1> DEFINE ms == doc.members
           items == [i \in DOMAIN v.details.List |->
                        EncodeErrorDetail(v.details.List[i])]
<1>1. doc.kind = "object"
  BY DEF EncodeError, Object
<1>2. /\ Listed(ms)
      /\ DOMAIN ms = IF v.details.Set THEN {1, 2, 3, 4} ELSE {1, 2, 3}
      /\ ms[1].key = "code" /\ ms[1].val = Str(v.code)
      /\ ms[2].key = "message" /\ ms[2].val = Str(v.message)
      /\ ms[3].key = "requestId" /\ ms[3].val = Str(v.requestId)
      /\ v.details.Set => ms[4].key = "details" /\ ms[4].val = Array(items)
  BY ErrorMembers
<1>3. /\ v.details = NoDetails
         \/ /\ v.details.Set = TRUE
            /\ v.details = [Set |-> TRUE, List |-> v.details.List]
            /\ v.details.List \in Seq(ErrorDetail)
  <2>1. v.details \in Details
    BY DEF Error
  <2> QED
    BY <2>1 DEF Details
<1> HIDE DEF ms
<1>4. \A i \in DOMAIN ms :
         (\A j \in DOMAIN ms : ms[j].key = ms[i].key => j = i)
         => LastOf(ms, ms[i].key) = ms[i].val
  BY <1>2, OnlyPlace
<1>5. \A f \in Strings : LastOf(ms, f).text = v[f]
  <2>1. /\ LastOf(ms, "code") = Str(v.code)
        /\ LastOf(ms, "message") = Str(v.message)
        /\ LastOf(ms, "requestId") = Str(v.requestId)
    <3> HIDE DEF items
    <3> QED
      BY <1>2, <1>4
  <2> QED
    BY <2>1 DEF Strings, Str
<1>6. CASE v.details = NoDetails
  <2>1. DOMAIN ms = {1, 2, 3}
    BY <1>2, <1>6 DEF NoDetails
  <2> HIDE DEF items
  <2>2. "details" \notin Keys(ms)
    BY <1>2, <2>1 DEF Keys
  <2>3. FlatError(doc)
    BY <1>1, <1>2, <2>1 DEF FlatError, FlatItems, Str, ms
  <2>4. ConformsError(doc)
    BY <1>1, <1>2, <2>1 DEF ConformsError, Conforms, Keys, IsString, Str, ms
  <2> QED
    BY <1>5, <1>6, <2>2, <2>3, <2>4 DEF ms
<1>7. CASE v.details # NoDetails
  <2> HIDE DEF items
  <2>1. /\ DOMAIN ms = {1, 2, 3, 4}
        /\ ms[4].key = "details" /\ ms[4].val = Array(items)
        /\ v.details = [Set |-> TRUE, List |-> v.details.List]
    BY <1>2, <1>3, <1>7
  <2>2. /\ FlatItems(Array(items))
        /\ \A i \in DOMAIN items : ConformsErrorDetail(items[i])
        /\ DetailsOf(items) = v.details
    BY <1>3, <1>7, <2>1, DetailsBack DEF items
  <2>3. "details" \in Keys(ms) /\ LastOf(ms, "details") = Array(items)
    BY <1>2, <1>4, <2>1 DEF Keys
  <2>4. FlatError(doc)
    BY <1>1, <1>2, <2>1, <2>2 DEF FlatError, FlatItems, Str, ms
  <2>5. ConformsError(doc)
    <3>1. \A i \in DOMAIN ms :
             IF ms[i].key = "details"
             THEN /\ ms[i].val.kind = "array"
                  /\ \A j \in DOMAIN ms[i].val.items :
                        ConformsErrorDetail(ms[i].val.items[j])
             ELSE IsString(ms[i].val)
      BY <1>2, <2>1, <2>2 DEF IsString, Str, Array
    <3>2. Keys(ms) = {"code", "message", "requestId", "details"}
      BY <1>2, <2>1 DEF Keys
    <3> QED
      BY <1>1, <3>1, <3>2 DEF ConformsError, Conforms, Keys, ms
  <2>6. LastOf(ms, "details").items = items
    BY <2>3 DEF Array
  <2> QED
    BY <1>5, <2>2, <2>3, <2>4, <2>5, <2>6 DEF ms
<1> QED
  BY <1>6, <1>7

\* An error envelope that is written is read again.
LEMMA EnvelopeBack ==
    ASSUME NEW v \in ErrorEnvelope, NEW doc, doc = EncodeErrorEnvelope(v),
           NEW d, d = DecodeErrorEnvelope(ZeroEnvelope, doc)
    PROVE  FlatEnvelope(doc) /\ d.ok /\ d.value = v
<1> DEFINE ms == doc.members
           e == EncodeError(v.error)
<1>1. doc.kind = "object" /\ ms = <<Member("error", e)>>
  BY DEF EncodeErrorEnvelope, Object
<1>2. v.error \in Error /\ v = [f \in {"error"} |-> v[f]]
  BY DEF ErrorEnvelope
<1>3. /\ FlatError(e) /\ ConformsError(e)
      /\ \A f \in Strings : LastOf(e.members, f).text = v.error[f]
      /\ IF "details" \in Keys(e.members)
         THEN v.error.details = DetailsOf(LastOf(e.members, "details").items)
         ELSE v.error.details = NoDetails
  BY <1>2, ErrorBack
<1> HIDE DEF e, ms
<1>4. /\ Listed(ms) /\ DOMAIN ms = {1} /\ Len(ms) = 1
      /\ ms[1].key = "error" /\ ms[1].val = e
  BY <1>1 DEF Listed, Member
<1>5. FlatEnvelope(doc)
  BY <1>3, <1>4 DEF FlatEnvelope, ms
<1>6. ConformsBody("ErrorEnvelope", doc)
  BY <1>1, <1>3, <1>4 DEF ConformsBody, Conforms, Keys, ms
<1>7. d.ok /\ Filled(NamesOfErrorEnvelope, d.value)
      /\ Merged(ms, 1, d.value.error)
  BY <1>4, <1>5, <1>6, EnvelopeRead DEF ms
<1>8. Part(ms, 1) = e.members
  BY <1>4 DEF Part
<1> DEFINE w == d.value.error
<1> HIDE DEF w
<1>9. /\ Filled(NamesOfError, w)
      /\ \A f \in Strings : w[f] = v.error[f]
  BY <1>3, <1>7, <1>8 DEF Merged, w
<1>10. w.details = v.error.details
  <2>1. \A i \in 1 .. 1 : i = 1
    OBVIOUS
  <2>2. CASE WithDetails(ms, 1)
    BY <1>3, <1>7, <1>8, <2>1, <2>2 DEF Merged, WithDetails, w
  <2>3. CASE ~WithDetails(ms, 1)
    BY <1>3, <1>7, <1>8, <2>1, <2>3 DEF Merged, WithDetails, w
  <2> QED
    BY <2>2, <2>3
<1>11. v.error = [f \in {"code", "message", "requestId", "details"} |->
                     v.error[f]]
  BY <1>2 DEF Error
<1>12. w = v.error
  BY <1>9, <1>10, <1>11, Schemas DEF Filled, Strings
<1>13. d.value = v
  BY <1>2, <1>7, <1>12, Schemas DEF Filled, w
<1> QED
  BY <1>5, <1>7, <1>13

-----------------------------------------------------------------------------
(* Documents that differ.                                                  *)

\* Sequences are listed.
LEMMA SeqIsListed ==
    ASSUME NEW S, NEW s \in Seq(S)
    PROVE  Listed(s) /\ \A i \in DOMAIN s : s[i] \in S
BY DEF Listed

\* The object d has the members ms, but for one of them or one more, with a
\* value of V.
Differs(ms, V, d) ==
    \/ \E i \in DOMAIN ms : d = Object(RemoveAt(ms, i))
    \/ \E m : m.val \in V /\ d = Object(Append(ms, m))
    \/ \E i \in DOMAIN ms : \E m : m.val \in V
                                  /\ d = Object([ms EXCEPT ![i] = m])

\* A document that differs in one place is an object again, whose values are
\* the old ones and what came instead.
LEMMA EditedMembers ==
    ASSUME NEW ms, Listed(ms), NEW V, NEW d, Differs(ms, V, d)
    PROVE  /\ d.kind = "object" /\ Listed(d.members)
           /\ \A j \in DOMAIN d.members :
                 \/ d.members[j].val \in V
                 \/ \E i \in DOMAIN ms : d.members[j].val = ms[i].val
<1> DEFINE S == {ms[i] : i \in DOMAIN ms}
           n == Len(ms)
<1>1. n \in Nat /\ DOMAIN ms = 1 .. n /\ ms = [i \in 1 .. n |-> ms[i]]
  BY DEF Listed
<1>2. ms \in Seq(S)
  <2>1. ms \in [1 .. n -> S]
    BY <1>1
  <2> HIDE DEF S
  <2> QED
    BY <1>1, <2>1
<1>3. \E T : /\ d.kind = "object" /\ d.members \in Seq(T)
             /\ \A e \in T : e \in S \/ e.val \in V
  <2> HIDE DEF S
  <2>1. ASSUME NEW i \in DOMAIN ms, d = Object(RemoveAt(ms, i))
        PROVE  d.kind = "object" /\ d.members \in Seq(S)
    <3>1. d.kind = "object"
          /\ d.members = SubSeq(ms, 1, i - 1) \o SubSeq(ms, i + 1, n)
      BY <2>1 DEF RemoveAt, Object
    <3>2. SubSeq(ms, 1, i - 1) \in Seq(S) /\ SubSeq(ms, i + 1, n) \in Seq(S)
      BY <1>1, <1>2
    <3> QED
      BY <3>1, <3>2
  <2>2. ASSUME NEW m, m.val \in V, d = Object(Append(ms, m))
        PROVE  d.kind = "object" /\ d.members \in Seq(S \union {m})
    <3>1. d.kind = "object" /\ d.members = Append(ms, m)
      BY <2>2 DEF Object
    <3> DEFINE T == S \union {m}
    <3>2. ms \in Seq(T) /\ m \in T
      BY <1>1, <1>2
    <3> HIDE DEF T
    <3>3. Append(ms, m) \in Seq(T)
      BY <3>2
    <3>4. d.kind = "object" /\ d.members \in Seq(T)
      BY <3>1, <3>3
    <3> USE DEF T
    <3> QED
      BY <3>4
  <2>3. ASSUME NEW i \in DOMAIN ms, NEW m, m.val \in V,
               d = Object([ms EXCEPT ![i] = m])
        PROVE  d.kind = "object" /\ d.members \in Seq(S \union {m})
    <3>1. d.kind = "object" /\ d.members = [ms EXCEPT ![i] = m]
      BY <2>3 DEF Object
    <3>2. ms \in [1 .. n -> S]
      BY <1>1, <1>2
    <3> DEFINE T == S \union {m}
    <3>3. d.members \in [1 .. n -> T]
      BY <3>1, <3>2
    <3> HIDE DEF T, n
    <3>5. n \in Nat
      BY <1>1
    <3>6. d.members \in Seq(T)
      <4> DEFINE e == d.members
      <4>1. e \in [1 .. n -> T]
        BY <3>3
      <4> HIDE DEF e
      <4>2. e \in Seq(T)
        BY <3>5, <4>1
      <4> USE DEF e
      <4> QED
        BY <4>2
    <3>4. d.kind = "object" /\ d.members \in Seq(T)
      BY <3>1, <3>6
    <3> USE DEF T
    <3> QED
      BY <3>4
  <2>4. ASSUME NEW m, m.val \in V
        PROVE  \A e \in S \union {m} : e \in S \/ e.val \in V
    BY <2>4
  <2> QED
    BY <2>1, <2>2, <2>3, <2>4 DEF Differs
<1>4. PICK T : /\ d.kind = "object" /\ d.members \in Seq(T)
               /\ \A e \in T : e \in S \/ e.val \in V
  BY <1>3
<1>5. Listed(d.members) /\ \A j \in DOMAIN d.members : d.members[j] \in T
  BY <1>4, SeqIsListed
<1> QED
  BY <1>4, <1>5

\* The documents where the member i has the value v, instead or as well.
Twice(ms, i, v) == {Object([ms EXCEPT ![i] = Member(ms[i].key, v)]),
                      Object(Append(ms, Member(ms[i].key, v)))}

\* Each of them has one member less, one more, or another value in one place.
LEMMA EditsDiffer ==
    ASSUME NEW ms, NEW V, NEW W, NEW d,
           Scalar \in V, \A i \in DOMAIN ms : W[i] \subseteq V,
           \/ \E i \in DOMAIN ms : d = Object(RemoveAt(ms, i))
           \/ d = Object(Append(ms, Member("extra", Scalar)))
           \/ \E i \in DOMAIN ms : \E v \in W[i] : d \in Twice(ms, i, v)
    PROVE  Differs(ms, V, d)
<1>1. \A k, v : Member(k, v).val = v
  BY DEF Member
<1>3. ASSUME NEW i \in DOMAIN ms, NEW v \in W[i], d \in Twice(ms, i, v)
      PROVE  Differs(ms, V, d)
  <2>1. \/ d = Object([ms EXCEPT ![i] = Member(ms[i].key, v)])
        \/ d = Object(Append(ms, Member(ms[i].key, v)))
    BY <1>3 DEF Twice
  <2>2. Member(ms[i].key, v).val \in V
    BY <1>1
  <2> QED
    BY <2>1, <2>2 DEF Differs
<1>4. Member("extra", Scalar).val \in V
  BY <1>1
<1> QED
  BY <1>3, <1>4 DEF Differs

\* A body without objects in it stays one ...
LEMMA FlatEdited ==
    ASSUME NEW doc, doc.kind = "object", Flat(doc), NEW d \in FlatEdits(doc)
    PROVE  d.kind = "object" /\ Flat(d)
<1> DEFINE ms == doc.members
           V == {Scalar} \union Leaves
           W == [i \in DOMAIN ms |-> Leaves]
<1>1. Listed(ms)
  BY DEF Flat
<1>2. \/ \E i \in DOMAIN ms : d = Object(RemoveAt(ms, i))
      \/ d = Object(Append(ms, Member("extra", Scalar)))
      \/ \E i \in DOMAIN ms : \E v \in W[i] : d \in Twice(ms, i, v)
  <2>1. d \in {Object(RemoveAt(ms, i)) : i \in DOMAIN ms}
             \union {Object(Append(ms, Member("extra", Scalar)))}
             \union UNION {UNION {Twice(ms, i, v) : v \in Leaves} :
                           i \in DOMAIN ms}
    BY DEF FlatEdits, Edits, Twice
  <2>2. \A i \in DOMAIN ms : W[i] = Leaves
    OBVIOUS
  <2> HIDE DEF ms, W
  <2> QED
    BY <2>1, <2>2
<1>3. Scalar \in V /\ \A i \in DOMAIN ms : W[i] \subseteq V
  OBVIOUS
<1> HIDE DEF ms, V, W
<1>4. Differs(ms, V, d)
  BY <1>2, <1>3, EditsDiffer
<1>5. d.kind = "object" /\ Listed(d.members)
  BY <1>1, <1>4, EditedMembers
<1> QED
  BY <1>5 DEF Flat

\* ... an error stays an error ...
LEMMA ErrorEdited ==
    ASSUME NEW doc, doc.kind = "object", FlatError(doc),
           NEW d \in ErrorEdits(doc)
    PROVE  d.kind = "object" /\ FlatError(d)
<1> DEFINE ms == doc.members
           V == {Scalar, Array(<<>>)} \union Leaves
           W == [i \in DOMAIN ms |->
                    IF ms[i].val.kind = "array" THEN {Array(<<>>), Scalar}
                    ELSE Leaves]
<1>1. Listed(ms) /\ \A i \in DOMAIN ms : FlatItems(ms[i].val)
  BY DEF FlatError
<1>2. \/ \E i \in DOMAIN ms : d = Object(RemoveAt(ms, i))
      \/ d = Object(Append(ms, Member("extra", Scalar)))
      \/ \E i \in DOMAIN ms : \E v \in W[i] : d \in Twice(ms, i, v)
  <2> DEFINE Others(val) ==
                IF val.kind = "array" THEN {Array(<<>>), Scalar} ELSE Leaves
  <2>1. d \in {Object(RemoveAt(ms, i)) : i \in DOMAIN ms}
             \union {Object(Append(ms, Member("extra", Scalar)))}
             \union UNION {UNION {Twice(ms, i, v) : v \in Others(ms[i].val)} :
                           i \in DOMAIN ms}
    BY DEF ErrorEdits, Edits, Twice
  <2>2. \A i \in DOMAIN ms : W[i] = Others(ms[i].val)
    OBVIOUS
  <2> HIDE DEF ms, W, Others
  <2> QED
    BY <2>1, <2>2
<1>3. \A v \in V : FlatItems(v)
  <2>1. Listed(<<>>) /\ DOMAIN <<>> = {}
    BY DEF Listed
  <2> QED
    BY <2>1 DEF FlatItems, Scalar, Array, Leaves, Str
<1>4. Scalar \in V /\ \A i \in DOMAIN ms : W[i] \subseteq V
  OBVIOUS
<1> HIDE DEF ms, V, W
<1>5. Differs(ms, V, d)
  BY <1>2, <1>4, EditsDiffer
<1>6. /\ d.kind = "object" /\ Listed(d.members)
      /\ \A j \in DOMAIN d.members :
            \/ d.members[j].val \in V
            \/ \E i \in DOMAIN ms : d.members[j].val = ms[i].val
  BY <1>1, <1>5, EditedMembers
<1> QED
  BY <1>1, <1>3, <1>6 DEF FlatError

\* ... and an envelope an envelope.
LEMMA EnvelopeEdited ==
    ASSUME NEW doc, doc.kind = "object", FlatEnvelope(doc),
           NEW d \in EnvelopeEdits(doc)
    PROVE  d.kind = "object" /\ FlatEnvelope(d)
<1> DEFINE ms == doc.members
           W == [i \in DOMAIN ms |->
                    IF ms[i].val.kind = "object"
                    THEN ErrorEdits(ms[i].val) \union {Scalar} ELSE {}]
           V == {Scalar} \union UNION {W[i] : i \in DOMAIN ms}
<1>1. Listed(ms) /\ \A i \in DOMAIN ms : FlatError(ms[i].val)
  BY DEF FlatEnvelope
<1>2. \/ \E i \in DOMAIN ms : d = Object(RemoveAt(ms, i))
      \/ d = Object(Append(ms, Member("extra", Scalar)))
      \/ \E i \in DOMAIN ms : \E v \in W[i] : d \in Twice(ms, i, v)
  <2> DEFINE Others(val) ==
                IF val.kind = "object" THEN ErrorEdits(val) \union {Scalar}
                ELSE {}
  <2>1. d \in {Object(RemoveAt(ms, i)) : i \in DOMAIN ms}
             \union {Object(Append(ms, Member("extra", Scalar)))}
             \union UNION {UNION {Twice(ms, i, v) : v \in Others(ms[i].val)} :
                           i \in DOMAIN ms}
    BY DEF EnvelopeEdits, Edits, Twice
  <2>2. \A i \in DOMAIN ms : W[i] = Others(ms[i].val)
    OBVIOUS
  <2> HIDE DEF ms, W, Others
  <2> QED
    BY <2>1, <2>2
<1>3. \A v \in V : FlatError(v)
  <2>1. FlatError(Scalar)
    BY DEF FlatError, Scalar
  <2>2. ASSUME NEW i \in DOMAIN ms, NEW v \in W[i] PROVE FlatError(v)
    <3>1. FlatError(ms[i].val)
      BY <1>1
    <3>2. v = Scalar \/ /\ ms[i].val.kind = "object"
                        /\ v \in ErrorEdits(ms[i].val)
      OBVIOUS
    <3> QED
      BY <2>1, <3>1, <3>2, ErrorEdited
  <2> HIDE DEF W
  <2> QED
    BY <2>1, <2>2
<1> HIDE DEF ms, W
<1>4. Scalar \in V /\ \A i \in DOMAIN ms : W[i] \subseteq V
  OBVIOUS
<1> HIDE DEF V
<1>5. Differs(ms, V, d)
  BY <1>2, <1>4, EditsDiffer
<1>6. /\ d.kind = "object" /\ Listed(d.members)
      /\ \A j \in DOMAIN d.members :
            \/ d.members[j].val \in V
            \/ \E i \in DOMAIN ms : d.members[j].val = ms[i].val
  BY <1>1, <1>5, EditedMembers
<1> QED
  BY <1>1, <1>3, <1>6 DEF FlatEnvelope

-----------------------------------------------------------------------------
(* Documents.                                                              *)

\* The three kinds of bodies.
Bodies == {"HealthStatus", "Organization", "ErrorEnvelope"}

\* An object that is written for a body, or differs from one.
DocumentOf(body, doc) ==
    /\ doc.kind = "object"
    /\ IF body = "ErrorEnvelope" THEN FlatEnvelope(doc) ELSE Flat(doc)

\* Every type of a response, and its values, have a body.
LEMMA BodyOfResponse ==
    ASSUME NEW op \in Operations, NEW type \in ResponseTypes[op],
           NEW v \in ValuesOf(type)
    PROVE  /\ BodyOf(type) \in Bodies
           /\ BodyOf(type) = "HealthStatus" => v.Response \in HealthStatus
           /\ BodyOf(type) = "Organization" => v.Response \in Organization
           /\ BodyOf(type) = "ErrorEnvelope" => v.Response \in ErrorEnvelope
<1> DEFINE Plain == [XRequestID: Text, Response: ErrorEnvelope]
<1>1. \/ type = "HealthStatusHeaders" /\ v \in HealthStatusHeaders
      \/ type = "OrganizationHeaders" /\ v \in OrganizationHeaders
      \/ /\ type \notin {"HealthStatusHeaders", "OrganizationHeaders"}
         /\ v \in ServiceUnavailableHeaders \/ v \in Plain
  BY DEF Operations, ResponseTypes, ValuesOf, BadRequestHeaders,
     AuthenticationRequiredHeaders, PermissionDeniedHeaders,
     OrganizationNotFoundHeaders, InternalErrorHeaders
<1>2. CASE type = "HealthStatusHeaders" /\ v \in HealthStatusHeaders
  BY <1>2 DEF BodyOf, Bodies, HealthStatusHeaders
<1>3. CASE type = "OrganizationHeaders" /\ v \in OrganizationHeaders
  BY <1>3 DEF BodyOf, Bodies, OrganizationHeaders
<1>4. CASE /\ type \notin {"HealthStatusHeaders", "OrganizationHeaders"}
           /\ v \in ServiceUnavailableHeaders \/ v \in Plain
  <2>1. BodyOf(type) = "ErrorEnvelope"
    BY <1>4 DEF BodyOf
  <2>2. v.Response \in ErrorEnvelope
    BY <1>4 DEF ServiceUnavailableHeaders
  <2> QED
    BY <2>1, <2>2 DEF Bodies
<1> QED
  BY <1>1, <1>2, <1>3, <1>4

\* What is read of a body that is written: the instants lose their fractions.
Restored(body, value) ==
    IF body # "Organization" THEN value
    ELSE [value EXCEPT !.createdAt = ParseTime[FormatTime[@]],
                       !.updatedAt = ParseTime[FormatTime[@]]]

\* A body is written to a document that is read to the same body.
LEMMA BodyBack ==
    ASSUME NEW op \in Operations, NEW type \in ResponseTypes[op],
           NEW v \in ValuesOf(type), NEW doc,
           doc = EncodeBody([type |-> type, value |-> v]),
           NEW d, d = UnmarshalJSON(BodyOf(type), doc)
    PROVE  /\ DocumentOf(BodyOf(type), doc)
           /\ d.ok
           /\ d.value = Restored(BodyOf(type), v.Response)
<1> DEFINE res == [type |-> type, value |-> v]
<1>1. /\ BodyOf(type) \in Bodies
      /\ BodyOf(type) = "HealthStatus" => v.Response \in HealthStatus
      /\ BodyOf(type) = "Organization" => v.Response \in Organization
      /\ BodyOf(type) = "ErrorEnvelope" => v.Response \in ErrorEnvelope
  BY BodyOfResponse
<1>2. res.type = type /\ res.value = v /\ doc = EncodeBody(res)
  OBVIOUS
<1> HIDE DEF res
<1>3. CASE BodyOf(type) = "HealthStatus"
  <2>1. doc = EncodeHealthStatus(v.Response)
    BY <1>2, <1>3 DEF EncodeBody
  <2>2. d = DecodeHealthStatus(ZeroHealthStatus, doc)
    BY Zenon, <1>3 DEF UnmarshalJSON, Zero, ZeroHealthStatus
  <2>3. doc.kind = "object"
    BY <2>1 DEF EncodeHealthStatus, Object
  <2>4. Flat(doc) /\ d.ok /\ d.value = v.Response
    BY <1>1, <1>3, <2>1, <2>2, HealthStatusBack
  <2> QED
    BY <1>3, <2>3, <2>4 DEF DocumentOf, Restored
<1>4. CASE BodyOf(type) = "Organization"
  <2>1. doc = EncodeOrganization(v.Response)
    BY <1>2, <1>4 DEF EncodeBody
  <2>2. d = DecodeOrganization(ZeroOrganization, doc)
    BY Zenon, <1>4 DEF UnmarshalJSON, Zero, ZeroOrganization
  <2>3. doc.kind = "object"
    BY <2>1 DEF EncodeOrganization, Object
  <2>4. Flat(doc) /\ d.ok /\ d.value = Restored("Organization", v.Response)
    <3> DEFINE w == v.Response
    <3>1. w \in Organization /\ doc = EncodeOrganization(w)
      BY <1>1, <1>4, <2>1
    <3> HIDE DEF w
    <3>2. /\ Flat(doc) /\ d.ok
          /\ d.value = [w EXCEPT !.createdAt = ParseTime[FormatTime[@]],
                                 !.updatedAt = ParseTime[FormatTime[@]]]
      BY Zenon, <2>2, <3>1, OrganizationBack
    <3>3. d.value = Restored("Organization", w)
      BY <3>2 DEF Restored
    <3> QED
      BY <3>2, <3>3 DEF w
  <2> QED
    BY <1>4, <2>3, <2>4 DEF DocumentOf
<1>5. CASE BodyOf(type) = "ErrorEnvelope"
  <2>1. doc = EncodeErrorEnvelope(v.Response)
    BY <1>2, <1>5 DEF EncodeBody
  <2>2. d = DecodeErrorEnvelope(ZeroEnvelope, doc)
    BY <1>5 DEF UnmarshalJSON, Zero, ZeroEnvelope
  <2>3. doc.kind = "object"
    BY <2>1 DEF EncodeErrorEnvelope, Object
  <2>4. FlatEnvelope(doc) /\ d.ok /\ d.value = v.Response
    BY <1>1, <1>5, <2>1, <2>2, EnvelopeBack
  <2> QED
    BY <1>5, <2>3, <2>4 DEF DocumentOf, Restored
<1> QED
  BY <1>1, <1>3, <1>4, <1>5 DEF Bodies

\* One more difference leaves a document a document.
LEMMA StaysDocument ==
    ASSUME NEW type, NEW doc, DocumentOf(BodyOf(type), doc),
           NEW d \in DocumentEdits(type, doc)
    PROVE  DocumentOf(BodyOf(type), d)
<1>1. CASE BodyOf(type) = "ErrorEnvelope"
  <2>1. doc.kind = "object" /\ FlatEnvelope(doc) /\ d \in EnvelopeEdits(doc)
    BY <1>1 DEF DocumentOf, DocumentEdits
  <2> QED
    BY <1>1, <2>1, EnvelopeEdited DEF DocumentOf
<1>2. CASE BodyOf(type) # "ErrorEnvelope"
  <2>1. doc.kind = "object" /\ Flat(doc) /\ d \in FlatEdits(doc)
    BY <1>2 DEF DocumentOf, DocumentEdits
  <2> QED
    BY <1>2, <2>1, FlatEdited DEF DocumentOf
<1> QED
  BY <1>1, <1>2

SchemaOf(body) == CASE body = "HealthStatus" -> NamesOfHealthStatus
                    [] body = "Organization" -> NamesOfOrganization
                    [] body = "ErrorEnvelope" -> NamesOfErrorEnvelope

\* The place of a name in a schema.
Place(names, name) == CHOOSE p \in DOMAIN names : names[p] = name

\* What is in the order of the schema is in the order of the places.
LEMMA PlacesInOrder ==
    ASSUME NEW names, Distinct(names), NEW list, InOrder(names, list)
    PROVE  \A i, j \in DOMAIN list :
              i < j => Place(names, list[i]) < Place(names, list[j])
<1>1. \A p \in DOMAIN names : Place(names, names[p]) = p
  BY DEF Place, Distinct
<1> QED
  BY <1>1 DEF InOrder

\* AcceptsConforming, of one document and what it is read to.
Accepts(body, doc, got) ==
    /\ got.ok <=> ConformsBody(body, doc)
    /\ got.missing # <<>> =>
          /\ Range(got.missing) = Range(SchemaOf(body)) \ Keys(doc.members)
          /\ \A i, j \in DOMAIN got.missing :
                i < j => Place(SchemaOf(body), got.missing[i])
                            < Place(SchemaOf(body), got.missing[j])

\* UnmarshalJSON accepts what conforms, and reports what is missing.
LEMMA DocumentAccepted ==
    ASSUME NEW body \in Bodies, NEW doc, DocumentOf(body, doc),
           NEW d, d = UnmarshalJSON(body, doc)
    PROVE  Accepts(body, doc, d)
<1>1. /\ d.ok \in BOOLEAN
      /\ d.ok <=> ConformsBody(body, doc)
      /\ d.missing # <<>> =>
            /\ Range(d.missing) = Range(SchemaOf(body)) \ Keys(doc.members)
            /\ InOrder(SchemaOf(body), d.missing)
  <2>1. CASE body = "HealthStatus"
    <3>1. Flat(doc) /\ d = DecodeHealthStatus(ZeroHealthStatus, doc)
      BY Zenon, <2>1 DEF DocumentOf, UnmarshalJSON, Zero, ZeroHealthStatus
    <3>2. SchemaOf(body) = NamesOfHealthStatus
      BY <2>1 DEF SchemaOf
    <3> QED
      BY <2>1, <3>1, <3>2, HealthStatusRead
  <2>2. CASE body = "Organization"
    <3>1. Flat(doc) /\ d = DecodeOrganization(ZeroOrganization, doc)
      BY Zenon, <2>2 DEF DocumentOf, UnmarshalJSON, Zero, ZeroOrganization
    <3>2. SchemaOf(body) = NamesOfOrganization
      BY <2>2 DEF SchemaOf
    <3> QED
      BY <2>2, <3>1, <3>2, OrganizationRead
  <2>3. CASE body = "ErrorEnvelope"
    <3>1. FlatEnvelope(doc) /\ d = DecodeErrorEnvelope(ZeroEnvelope, doc)
      BY <2>3 DEF DocumentOf, UnmarshalJSON, Zero, ZeroEnvelope
    <3>2. SchemaOf(body) = NamesOfErrorEnvelope
      BY <2>3 DEF SchemaOf
    <3> QED
      BY <2>3, <3>1, <3>2, EnvelopeRead
  <2> QED
    BY <2>1, <2>2, <2>3 DEF Bodies
<1>2. Distinct(SchemaOf(body))
  BY DEF Distinct, SchemaOf, Bodies, NamesOfHealthStatus, NamesOfOrganization,
     NamesOfErrorEnvelope
<1> QED
  BY <1>1, <1>2, PlacesInOrder DEF Accepts

\* RepeatsMerge, of one document and what it is read to.
Merges(body, doc, value) ==
    LET ms == doc.members
        detailed == {i \in DOMAIN ms : WithDetails(ms, i)}
    IN CASE body = "HealthStatus" ->
               value.status = LastOf(ms, "status").text
         [] body = "Organization" ->
               /\ value.id = ParseUUID[LastOf(ms, "id").text]
               /\ \A k \in {"name", "status"} :
                     value[k] = LastOf(ms, k).text
               /\ \A k \in {"createdAt", "updatedAt"} :
                     value[k] = ParseTime[LastOf(ms, k).text]
         [] body = "ErrorEnvelope" ->
               /\ \A k \in {"code", "message", "requestId"} :
                     value.error[k] = LastOf(Part(ms, Len(ms)), k).text
               /\ value.error.details.Set <=> detailed # {}
               /\ \A i \in detailed :
                     (\A j \in detailed : j =< i) =>
                        Len(value.error.details.List)
                           = Len(LastOf(Part(ms, i), "details").items)

\* What UnmarshalJSON makes of members that come more than once.
LEMMA DocumentMerged ==
    ASSUME NEW body \in Bodies, NEW doc, DocumentOf(body, doc),
           NEW d, d = UnmarshalJSON(body, doc), d.ok
    PROVE  Merges(body, doc, d.value)
<1> DEFINE ms == doc.members
<1>1. CASE body = "HealthStatus"
  <2>1. Flat(doc) /\ d = DecodeHealthStatus(ZeroHealthStatus, doc)
    BY Zenon, <1>1 DEF DocumentOf, UnmarshalJSON, Zero, ZeroHealthStatus
  <2>2. d.value = [k \in {"status"} |-> LastOf(doc.members, k).text]
    BY <2>1, HealthStatusRead
  <2> QED
    BY <1>1, <2>2 DEF Merges
<1>2. CASE body = "Organization"
  <2>1. Flat(doc) /\ d = DecodeOrganization(ZeroOrganization, doc)
    BY Zenon, <1>2 DEF DocumentOf, UnmarshalJSON, Zero, ZeroOrganization
  <2>2. d.value = [k \in Range(NamesOfOrganization) |->
                      OrganizationValue(k, LastOf(doc.members, k))]
    BY <2>1, OrganizationRead
  <2>3. {"id", "name", "status", "createdAt", "updatedAt"}
           \subseteq Range(NamesOfOrganization)
    BY DEF Range, NamesOfOrganization
  <2>4. \A k \in {"id", "name", "status", "createdAt", "updatedAt"} :
           d.value[k] = OrganizationValue(k, LastOf(ms, k))
    BY <2>2, <2>3
  <2>5. /\ d.value.id = ParseUUID[LastOf(ms, "id").text]
        /\ \A k \in {"name", "status"} : d.value[k] = LastOf(ms, k).text
        /\ \A k \in {"createdAt", "updatedAt"} :
              d.value[k] = ParseTime[LastOf(ms, k).text]
    BY <2>4 DEF OrganizationValue
  <2> QED
    BY <1>2, <2>5 DEF Merges
<1>3. CASE body = "ErrorEnvelope"
  <2>1. FlatEnvelope(doc) /\ d = DecodeErrorEnvelope(ZeroEnvelope, doc)
    BY <1>3 DEF DocumentOf, UnmarshalJSON, Zero, ZeroEnvelope
  <2>2. /\ Listed(ms) /\ Len(ms) # 0
        /\ Merged(ms, Len(ms), d.value.error)
    BY <2>1, EnvelopeRead
  <2> DEFINE n == Len(ms)
             e == d.value.error
  <2>3. n \in Nat /\ n # 0 /\ DOMAIN ms = 1 .. n
    BY <2>2 DEF Listed
  <2>4. /\ \A f \in Strings : e[f] = LastOf(Part(ms, n), f).text
        /\ (\A i \in 1 .. n : ~WithDetails(ms, i)) => e.details = NoDetails
        /\ \A i \in 1 .. n :
              WithDetails(ms, i)
              /\ (\A j \in 1 .. n : WithDetails(ms, j) => j =< i)
              => e.details = DetailsOf(LastOf(Part(ms, i), "details").items)
    BY <2>2, <2>3 DEF Merged
  <2>5. ASSUME NEW i \in 1 .. n, WithDetails(ms, i)
        PROVE  Listed(LastOf(Part(ms, i), "details").items)
    <3> DEFINE err == ms[i].val
               ps == err.members
    <3>1. /\ ConformsError(err) /\ FlatError(err)
      <4>1. ConformsBody("ErrorEnvelope", doc)
        BY <2>1, EnvelopeRead
      <4>2. i \in DOMAIN ms
        BY <2>3
      <4>3. doc.kind = "object"
        BY DEF DocumentOf
      <4>4. \A j \in DOMAIN doc.members : FlatError(doc.members[j].val)
        BY <2>1, <4>3 DEF FlatEnvelope
      <4>5. \A j \in DOMAIN doc.members : ConformsError(doc.members[j].val)
        BY Zenon, <4>1 DEF ConformsBody, Conforms, Keys
      <4> QED
        BY <4>2, <4>4, <4>5
    <3>2. /\ Listed(ps) /\ "details" \in Keys(ps)
      BY Zenon, <2>5, <3>1 DEF ConformsError, Conforms, FlatError,
         WithDetails, Part
    <3>3. PICK l : LastPlace(ps, "details", l)
      <4> HIDE DEF ps
      <4> QED
        BY <3>2, LastExists
    <3>4. /\ l \in DOMAIN ps /\ ps[l].key = "details"
          /\ LastOf(ps, "details") = ps[l].val
      <4> HIDE DEF ps
      <4> QED
        BY <3>2, <3>3, LastIs DEF LastPlace
    <3>5. ps[l].val.kind = "array" /\ FlatItems(ps[l].val)
      BY Zenon, <3>1, <3>4 DEF ConformsError, Conforms, FlatError
    <3> QED
      BY Zenon, <3>4, <3>5 DEF FlatItems, Part
  <2> HIDE DEF ms, n, e
  <2>6. ASSUME NEW k \in 1 .. n, WithDetails(ms, k)
        PROVE  \E l \in 1 .. n :
                  /\ WithDetails(ms, l)
                  /\ \A j \in 1 .. n : WithDetails(ms, j) => j =< l
    <3> DEFINE ps == [i \in 1 .. n |->
                         [key |-> IF WithDetails(ms, i) THEN "details" ELSE ""]]
    <3>1. Len(ps) = n /\ Listed(ps) /\ DOMAIN ps = 1 .. n
      BY <2>3 DEF Listed
    <3>2. \A i \in 1 .. n : ps[i].key = "details" <=> WithDetails(ms, i)
      BY Zenon
    <3> HIDE DEF ps
    <3>3. "details" \in Keys(ps)
      BY <2>6, <3>1, <3>2 DEF Keys
    <3>4. PICK l : LastPlace(ps, "details", l)
      BY <3>1, <3>3, LastExists
    <3> QED
      BY <3>1, <3>2, <3>4 DEF LastPlace
  <2>7. \A items : /\ DetailsOf(items).Set = TRUE
                   /\ Listed(items) => Len(DetailsOf(items).List) = Len(items)
    BY DEF DetailsOf, Listed
  <2>8. NoDetails.Set = FALSE
    BY DEF NoDetails
  <2> DEFINE detailed == {i \in DOMAIN ms : WithDetails(ms, i)}
  <2>9. e.details.Set <=> detailed # {}
    <3>1. CASE detailed = {}
      BY <2>3, <2>4, <2>8, <3>1
    <3>2. CASE detailed # {}
      <4>1. PICK k \in 1 .. n : WithDetails(ms, k)
        BY <2>3, <3>2
      <4>2. PICK l \in 1 .. n :
               /\ WithDetails(ms, l)
               /\ \A j \in 1 .. n : WithDetails(ms, j) => j =< l
        BY <2>6, <4>1
      <4>3. e.details = DetailsOf(LastOf(Part(ms, l), "details").items)
        BY <2>4, <4>2
      <4> QED
        BY <2>7, <3>2, <4>3
    <3> QED
      BY <3>1, <3>2
  <2>10. ASSUME NEW i \in detailed, \A j \in detailed : j =< i
         PROVE  Len(e.details.List)
                   = Len(LastOf(Part(ms, i), "details").items)
    <3>1. i \in 1 .. n /\ WithDetails(ms, i)
      BY <2>3
    <3>2. \A j \in 1 .. n : WithDetails(ms, j) => j =< i
      BY <2>3, <2>10
    <3>3. e.details = DetailsOf(LastOf(Part(ms, i), "details").items)
      BY <2>4, <3>1, <3>2
    <3>4. Listed(LastOf(Part(ms, i), "details").items)
      BY <2>5, <3>1
    <3> QED
      BY <2>7, <3>3, <3>4
  <2>11. \A f \in Strings : e[f] = LastOf(Part(ms, n), f).text
    BY <2>4
  <2>12. /\ \A k \in {"code", "message", "requestId"} :
               d.value.error[k] = LastOf(Part(ms, Len(ms)), k).text
         /\ d.value.error.details.Set <=> detailed # {}
         /\ \A i \in detailed :
               (\A j \in detailed : j =< i) =>
                  Len(d.value.error.details.List)
                     = Len(LastOf(Part(ms, i), "details").items)
    <3> HIDE DEF detailed
    <3> QED
      BY <2>9, <2>10, <2>11 DEF e, n, Strings
  <2> QED
    BY <1>3, <2>12 DEF Merges, ms
<1> QED
  BY <1>1, <1>2, <1>3 DEF Bodies

-----------------------------------------------------------------------------
(* The bodies that are sent, and what is read of them.                     *)

\* The response of an operation has been written, without an error.
Sent(x) == /\ pc[x] \in {"count", "done"}
           /\ fault[x] = "none"
           /\ result[x].type # "nil"

\* It is what the handler returned.
Written(x) ==
    Sent(x) => out[x].body = [type |-> result[x].type,
                              value |-> result[x].value]

\* So it is in every exchange.
WrittenInv == \A x \in Exchanges : Written(x)

\* A program reads the whole response of an operation, or one that differs.
Reader(x) ==
    LET r == reader[x]
    IN /\ DOMAIN r = DOMAIN NotRead
       /\ r.step \in {"waiting", "received", "read"}
       /\ r.step # "waiting" =>
             /\ pc[x] = "done" /\ Sent(x)
             /\ r.type = result[x].type
             /\ DocumentOf(BodyOf(r.type), r.doc)
             /\ r.edits \in Nat
             /\ r.edits = 0 => r.doc = EncodeBody(out[x].body)
             /\ r.step = "read" => r.got = UnmarshalJSON(BodyOf(r.type), r.doc)

\* Every reader has a body of its exchange, or one that differs from it.
ReaderInv == DOMAIN reader = Exchanges /\ \A x \in Exchanges : Reader(x)

\* Both, together with what is known of the server.
ConsumerInv == RequestInv /\ WrittenInv /\ ReaderInv

\* A result that is not nil is a response of an operation.
LEMMA ResultOfOperation ==
    ASSUME RequestInv, NEW x \in Exchanges, result[x].type # "nil"
    PROVE  \E op \in Operations :
              /\ result[x].type \in ResponseTypes[op]
              /\ result[x].value \in ValuesOf(result[x].type)
<1>1. \/ result[x] = NoResult
      \/ \E op \in Operations : result[x] \in Outcomes[op]
  BY DEF RequestInv, GoroutineInv, Typed
<1>2. result[x] # NoResult
  BY DEF NoResult
<1>3. PICK op \in Operations : result[x] \in Outcomes[op]
  BY <1>1, <1>2
<1> DEFINE o == result[x]
<1>4. o \in Outcomes[op] /\ o.type # "nil"
  BY <1>3
<1> HIDE DEF o
<1>5. o.type \in ResponseTypes[op] /\ o.value \in ValuesOf(o.type)
  BY <1>4, OutcomeAssumption
<1> QED
  BY <1>5 DEF o

\* What Encode writes is what the handler returned ...
LEMMA EncodeWrites ==
    ASSUME RequestInv, NEW x \in Exchanges, Observed(x), Encode(x)
    PROVE  out'[x].body = [type |-> result[x].type, value |-> result[x].value]
<1> DEFINE op == route[x].op
           res == result[x]
           before == out[x]
           w == EncodeResponse(op, before, res)
<1>1. GoroutineInv(x) /\ Domains
  BY DEF RequestInv
<1>2. /\ pc[x] = "encode" /\ res.type \in ResponseTypes[op]
      /\ out' = [out EXCEPT ![x] = w] /\ op \in Operations
  BY DEF Encode, Observed
<1>3. res \in Outcomes[op] /\ DOMAIN before = DOMAIN Blank
  BY <1>1, <1>2 DEF GoroutineInv, Typed
<1>4. res.type # "nil"
  BY <1>2 DEF ResponseTypes, Operations
<1> HIDE DEF op, res, before, w
<1>5. res.value \in ValuesOf(res.type)
  BY <1>2, <1>3, <1>4, OutcomeAssumption
<1>6. w.body = [type |-> res.type, value |-> res.value]
  BY <1>2, <1>3, <1>5, EncodedResponse DEF w
<1> QED
  BY <1>1, <1>2, <1>6 DEF res, Domains

\* ... and no other step ends a response without an error.
LEMMA ServeWrites ==
    ASSUME RequestInv, NEW x \in Exchanges, Serve(x), Written(x)
    PROVE  Written(x)'
<1>1. GoroutineInv(x) /\ Domains
  BY DEF RequestInv
<1>2. CASE Unrouted(x)
  <2>1. result'[x].type = "nil"
    BY <1>1, <1>2 DEF Unrouted, GoroutineInv, Staged, Untouched, NoResult
  <2> QED
    BY <2>1 DEF Written, Sent
<1>3. CASE pc'[x] \notin {"count", "done"}
  BY <1>3 DEF Written, Sent
<1>4. CASE Observed(x) /\ Encode(x)
  <2>1. out'[x].body = [type |-> result[x].type, value |-> result[x].value]
    BY <1>4, EncodeWrites
  <2>2. UNCHANGED result
    BY <1>4 DEF Encode
  <2> QED
    BY <2>1, <2>2 DEF Written, Sent
<1>5. CASE RecordError(x)
  <2>1. fault'[x] # "none"
    BY <1>1, <1>5 DEF RecordError, GoroutineInv, Staged
  <2> QED
    BY <2>1 DEF Written, Sent
<1>6. CASE CountRequest(x)
  <2>1. pc[x] = "count" /\ UNCHANGED <<result, out, fault>>
    BY <1>6 DEF CountRequest
  <2> QED
    BY <2>1 DEF Written, Sent
<1>7. ASSUME \/ Start(x) \/ Secure(x) \/ Decode(x)
             \/ \E o \in Outcomes[route[x].op] : Call(x, o)
             \/ Refuse(x) \/ EncodeCut(x) \/ EncodeUnexpected(x)
      PROVE  pc'[x] \notin {"count", "done"}
  BY <1>1, <1>7 DEF Start, Secure, Decode, Call, Refuse, EncodeCut,
     EncodeUnexpected, Fail, Domains
<1> QED
  BY <1>2, <1>3, <1>4, <1>5, <1>6, <1>7
  DEF Serve, HandleGetLivenessRequest, HandleGetOrganizationRequest,
      HandleGetReadinessRequest, Respond, Observed, Operations

\* No step ends a response with another body than the one that was returned.
LEMMA WrittenInvNext ==
    RequestInv /\ WrittenInv /\ [Next]_vars => WrittenInv'
<1> SUFFICES ASSUME RequestInv, WrittenInv, [Next]_vars PROVE WrittenInv'
  OBVIOUS
<1>1. ASSUME NEW y \in Exchanges, Still(y) PROVE Written(y)'
  BY <1>1 DEF WrittenInv, Written, Sent, Still
<1>2. ASSUME UNCHANGED goroutine PROVE WrittenInv'
  BY <1>2 DEF goroutine, WrittenInv, Written, Sent
<1>3. CASE UNCHANGED vars
  BY <1>2, <1>3 DEF vars, goroutine
<1>4. CASE NewServer
  BY <1>2, <1>4 DEF NewServer
<1>5. ASSUME NEW x \in Exchanges, NEW r \in Inputs, Receive(x, r)
      PROVE  WrittenInv'
  <2>1. StepOf(x)
    BY <1>5, ReceiveStep
  <2>2. pc'[x] = "route"
    BY <1>5 DEF Receive, RequestInv, Domains
  <2>3. Written(x)'
    BY <2>2 DEF Written, Sent
  <2> QED
    BY <1>1, <2>1, <2>3 DEF StepOf, WrittenInv
<1>6. ASSUME NEW x \in Exchanges, Serve(x) PROVE WrittenInv'
  <2>1. StepOf(x)
    BY <1>6, ServeStep
  <2>2. Written(x)'
    BY <1>6, ServeWrites DEF WrittenInv
  <2> QED
    BY <1>1, <2>1, <2>2 DEF StepOf, WrittenInv
<1> QED
  BY <1>3, <1>4, <1>5, <1>6 DEF Next

\* A response that is done stays what it is.
LEMMA DoneStays ==
    ASSUME RequestInv, [Next]_vars, NEW x \in Exchanges, pc[x] = "done"
    PROVE  /\ pc'[x] = pc[x] /\ result'[x] = result[x]
           /\ fault'[x] = fault[x] /\ out'[x] = out[x]
<1>1. CASE UNCHANGED vars
  BY <1>1 DEF vars
<1>2. CASE NewServer
  BY <1>2 DEF NewServer, goroutine
<1>3. ASSUME NEW y \in Exchanges, y # x, StepOf(y)
      PROVE  /\ pc'[x] = pc[x] /\ result'[x] = result[x]
             /\ fault'[x] = fault[x] /\ out'[x] = out[x]
  BY <1>3 DEF StepOf, Still
<1>4. ASSUME NEW y \in Exchanges, NEW r \in Inputs, Receive(y, r)
      PROVE  y # x /\ StepOf(y)
  BY <1>4, ReceiveStep DEF Receive
<1>5. ASSUME NEW y \in Exchanges, Serve(y)
      PROVE  y # x /\ StepOf(y)
  <2>1. pc[y] # "done"
    BY <1>5 DEF Serve, HandleGetLivenessRequest, HandleGetOrganizationRequest,
       HandleGetReadinessRequest, Respond, Unrouted, Start, Secure, Decode,
       Call, Refuse, Encode, EncodeCut, EncodeUnexpected, RecordError,
       CountRequest
  <2> QED
    BY <1>5, <2>1, ServeStep
<1> QED
  BY <1>1, <1>2, <1>3, <1>4, <1>5 DEF Next

\* The server changes nothing of what is being read.
LEMMA ServerKeepsReader ==
    ASSUME ConsumerInv, [Next]_vars, UNCHANGED reader
    PROVE  ReaderInv'
<1> SUFFICES ASSUME NEW x \in Exchanges PROVE Reader(x)'
  BY DEF ReaderInv, ConsumerInv
<1>1. Reader(x) /\ RequestInv
  BY DEF ConsumerInv, ReaderInv
<1>2. CASE reader[x].step = "waiting"
  BY <1>1, <1>2 DEF Reader
<1>3. CASE reader[x].step # "waiting"
  <2>1. pc[x] = "done"
    BY <1>1, <1>3 DEF Reader
  <2>2. /\ pc'[x] = pc[x] /\ result'[x] = result[x]
        /\ fault'[x] = fault[x] /\ out'[x] = out[x]
    BY <1>1, <2>1, DoneStays
  <2> QED
    BY <1>1, <2>2 DEF Reader, Sent
<1> QED
  BY <1>2, <1>3

\* A step of the reader of x is good if it leaves its reader so.
LEMMA ReaderSteps ==
    ASSUME ConsumerInv, NEW x \in Exchanges, UNCHANGED vars, NEW r,
           reader' = [reader EXCEPT ![x] = r], Reader(x)'
    PROVE  ReaderInv'
<1>1. DOMAIN reader' = Exchanges
  BY DEF ConsumerInv, ReaderInv
<1>2. ASSUME NEW y \in Exchanges, y # x PROVE Reader(y)'
  <2>1. reader'[y] = reader[y] /\ Reader(y)
    BY <1>2 DEF ConsumerInv, ReaderInv
  <2> QED
    BY <2>1 DEF Reader, Sent, vars
<1> QED
  BY <1>1, <1>2 DEF ReaderInv

\* A response arrives.
LEMMA DeliverKeeps ==
    ASSUME ConsumerInv, NEW x \in Exchanges, Deliver(x)
    PROVE  ReaderInv'
<1> DEFINE doc == EncodeBody(out[x].body)
           r == [NotRead EXCEPT !.step = "received", !.type = result[x].type,
                                !.doc = doc]
<1>1. /\ reader' = [reader EXCEPT ![x] = r] /\ UNCHANGED vars
      /\ pc[x] = "done" /\ Sent(x)
  BY DEF Deliver, Sent
<1>2. out[x].body = [type |-> result[x].type, value |-> result[x].value]
  BY <1>1 DEF ConsumerInv, WrittenInv, Written
<1>3. DocumentOf(BodyOf(result[x].type), doc)
  <2> DEFINE type == result[x].type
             v == result[x].value
  <2>1. PICK op \in Operations : type \in ResponseTypes[op]
                                 /\ v \in ValuesOf(type)
    BY <1>1, ResultOfOperation DEF ConsumerInv, Sent
  <2>2. doc = EncodeBody([type |-> type, value |-> v])
    BY <1>2
  <2> HIDE DEF doc, type, v
  <2>3. DocumentOf(BodyOf(type), doc)
    BY <2>1, <2>2, BodyBack
  <2> QED
    BY <2>3 DEF type
<1>4. /\ DOMAIN r = DOMAIN NotRead /\ r.step = "received"
      /\ r.type = result[x].type /\ r.doc = doc /\ r.edits = 0
  <2> HIDE DEF doc
  <2> QED
    BY DEF NotRead
<1>5. reader'[x] = r
  <2> HIDE DEF r
  <2> QED
    BY <1>1 DEF ConsumerInv, ReaderInv
<1> HIDE DEF r, doc
<1>6. /\ pc'[x] = pc[x] /\ result'[x] = result[x] /\ out'[x] = out[x]
      /\ Sent(x)'
  BY <1>1 DEF vars, Sent
<1>7. Reader(x)'
  BY <1>1, <1>3, <1>4, <1>5, <1>6 DEF Reader, doc
<1> QED
  BY <1>1, <1>7, ReaderSteps

\* The peer is of another version.
LEMMA DifferKeeps ==
    ASSUME ConsumerInv, NEW x \in Exchanges, Differ(x)
    PROVE  ReaderInv'
<1>1. /\ Reader(x) /\ DOMAIN reader = Exchanges
      /\ reader[x].step = "received" /\ UNCHANGED vars
  BY DEF Differ, ConsumerInv, ReaderInv
<1>2. PICK d \in DocumentEdits(reader[x].type, reader[x].doc) :
         reader' = [reader EXCEPT ![x].doc = d, ![x].edits = @ + 1]
  BY DEF Differ
<1>3. /\ DOMAIN reader[x] = DOMAIN NotRead /\ pc[x] = "done" /\ Sent(x)
      /\ reader[x].type = result[x].type
      /\ DocumentOf(BodyOf(reader[x].type), reader[x].doc)
      /\ reader[x].edits \in Nat
  BY <1>1 DEF Reader
<1>4. DocumentOf(BodyOf(reader[x].type), d)
  BY <1>2, <1>3, StaysDocument
<1> DEFINE r == [reader[x] EXCEPT !.doc = d, !.edits = @ + 1]
<1>5. reader' = [reader EXCEPT ![x] = r]
  BY <1>2
<1>6. /\ DOMAIN r = DOMAIN NotRead /\ r.step = "received"
      /\ r.type = reader[x].type /\ r.doc = d
      /\ r.edits \in Nat /\ r.edits # 0
  BY <1>1, <1>3 DEF NotRead
<1> HIDE DEF r
<1>7. reader'[x] = r
  BY <1>1, <1>5
<1>8. /\ pc'[x] = pc[x] /\ result'[x] = result[x] /\ Sent(x)'
  BY <1>1, <1>3 DEF vars, Sent
<1>9. Reader(x)'
  BY <1>3, <1>4, <1>6, <1>7, <1>8 DEF Reader
<1> QED
  BY <1>1, <1>5, <1>9, ReaderSteps

\* The document is read.
LEMMA UnmarshalKeeps ==
    ASSUME ConsumerInv, NEW x \in Exchanges, Unmarshal(x)
    PROVE  ReaderInv'
<1> DEFINE got == UnmarshalJSON(BodyOf(reader[x].type), reader[x].doc)
           r == [reader[x] EXCEPT !.step = "read", !.got = got]
<1>1. /\ Reader(x) /\ DOMAIN reader = Exchanges
      /\ reader[x].step = "received" /\ UNCHANGED vars
      /\ reader' = [reader EXCEPT ![x].step = "read", ![x].got = got]
  BY DEF Unmarshal, ConsumerInv, ReaderInv
<1>2. DOMAIN reader[x] = DOMAIN NotRead
  BY <1>1 DEF Reader
<1>3. reader' = [reader EXCEPT ![x] = r]
  <2> HIDE DEF got
  <2> QED
    BY <1>1
<1>4. /\ DOMAIN r = DOMAIN NotRead /\ r.step = "read"
      /\ r.type = reader[x].type /\ r.doc = reader[x].doc
      /\ r.edits = reader[x].edits /\ r.got = got
  <2> HIDE DEF got
  <2> QED
    BY <1>2 DEF NotRead
<1> HIDE DEF r
<1>5. reader'[x] = r
  BY <1>1, <1>3
<1>6. /\ pc'[x] = pc[x] /\ result'[x] = result[x] /\ out'[x] = out[x]
      /\ Sent(x)' = Sent(x)
  BY <1>1 DEF vars, Sent
<1>7. Reader(x)'
  <2>1. /\ pc[x] = "done" /\ Sent(x) /\ reader[x].type = result[x].type
        /\ DocumentOf(BodyOf(reader[x].type), reader[x].doc)
        /\ reader[x].edits \in Nat
        /\ reader[x].edits = 0 => reader[x].doc = EncodeBody(out[x].body)
    BY <1>1 DEF Reader
  <2> QED
    BY <1>4, <1>5, <1>6, <2>1 DEF Reader
<1> QED
  BY <1>1, <1>3, <1>7, ReaderSteps

\* ConsumerInv holds at first ...
LEMMA ConsumerInvInit == ConsumerInit => ConsumerInv
<1> SUFFICES ASSUME ConsumerInit PROVE ConsumerInv
  OBVIOUS
<1>1. RequestInv
  BY RequestInvInit DEF ConsumerInit
<1>2. WrittenInv
  BY DEF ConsumerInit, Init, WrittenInv, Written, Sent
<1>3. ReaderInv
  BY DEF ConsumerInit, ReaderInv, Reader, NotRead
<1> QED
  BY <1>1, <1>2, <1>3 DEF ConsumerInv

\* ... is kept by every step of the server and of the readers ...
LEMMA ConsumerInvNext ==
    ConsumerInv /\ [ConsumerNext]_allVars => ConsumerInv'
<1> SUFFICES ASSUME ConsumerInv, [ConsumerNext]_allVars PROVE ConsumerInv'
  OBVIOUS
<1>1. [Next]_vars
  BY Zenon DEF ConsumerNext, ServerStep, Deliver, Differ, Unmarshal, allVars
<1>2. RequestInv' /\ WrittenInv'
  BY <1>1, RequestInvNext, WrittenInvNext DEF ConsumerInv
<1>3. CASE UNCHANGED reader
  BY <1>1, <1>2, <1>3, ServerKeepsReader DEF ConsumerInv
<1>4. ASSUME NEW x \in Exchanges, Deliver(x) \/ Differ(x) \/ Unmarshal(x)
      PROVE  ConsumerInv'
  BY <1>2, <1>4, DeliverKeeps, DifferKeeps, UnmarshalKeeps DEF ConsumerInv
<1> QED
  BY <1>3, <1>4 DEF ConsumerNext, ServerStep, allVars

\* ... and so always holds.
LEMMA ConsumerInvAlways == ConsumerSpec => []ConsumerInv
  BY ConsumerInvInit, ConsumerInvNext, PTL DEF ConsumerSpec

\* What an exchange that has been read shows.
LEMMA ReadExchange ==
    ASSUME ConsumerInv, NEW x \in Exchanges, HasRead(x)
    PROVE  /\ Body(x) \in Bodies
           /\ DocumentOf(Body(x), reader[x].doc)
           /\ reader[x].got = UnmarshalJSON(Body(x), reader[x].doc)
<1>1. /\ result[x].type # "nil" /\ reader[x].type = result[x].type
      /\ DocumentOf(BodyOf(reader[x].type), reader[x].doc)
      /\ reader[x].got = UnmarshalJSON(BodyOf(reader[x].type), reader[x].doc)
  BY DEF ConsumerInv, ReaderInv, Reader, HasRead, Sent
<1>2. BodyOf(result[x].type) \in Bodies
  BY <1>1, ResultOfOperation, BodyOfResponse DEF ConsumerInv
<1> QED
  BY <1>1, <1>2 DEF Body

\* DecodesToSent, for every response of every handler: for any strings, any
\* number of details, and any identifiers and instants.
THEOREM DecodedIsSent == ConsumerSpec => []DecodesToSent
<1>1. ConsumerInv => DecodesToSent
  <2> SUFFICES ASSUME ConsumerInv, NEW x \in Exchanges, HasRead(x),
                      reader[x].edits = 0
               PROVE  LET sent == out[x].body.value.Response
                          got == reader[x].got
                      IN /\ got.ok
                         /\ IF Body(x) # "Organization" THEN got.value = sent
                            ELSE got.value = [sent EXCEPT
                                    !.createdAt = ParseTime[FormatTime[@]],
                                    !.updatedAt = ParseTime[FormatTime[@]]]
    BY Zenon DEF DecodesToSent
  <2> DEFINE type == result[x].type
             v == result[x].value
             doc == reader[x].doc
             got == reader[x].got
  <2>1. /\ Sent(x) /\ reader[x].type = type
        /\ doc = EncodeBody(out[x].body)
        /\ got = UnmarshalJSON(BodyOf(type), doc)
    BY DEF ConsumerInv, ReaderInv, Reader, HasRead
  <2>2. out[x].body = [type |-> type, value |-> v]
    BY <2>1 DEF ConsumerInv, WrittenInv, Written
  <2>3. PICK op \in Operations : type \in ResponseTypes[op]
                                 /\ v \in ValuesOf(type)
    BY <2>1, ResultOfOperation DEF ConsumerInv, Sent
  <2>4. Body(x) = BodyOf(type) /\ out[x].body.value = v
    BY <2>1, <2>2 DEF Body
  <2> HIDE DEF type, v, doc, got
  <2>5. doc = EncodeBody([type |-> type, value |-> v])
    BY <2>1, <2>2
  <2>6. got.ok /\ got.value = Restored(BodyOf(type), v.Response)
    BY <2>1, <2>3, <2>5, BodyBack
  <2> QED
    BY <2>4, <2>6 DEF got, Restored
<1> QED
  BY <1>1, ConsumerInvAlways, PTL

\* AcceptsConforming, for documents of any length that differ in any number of
\* places.
THEOREM ConformingIsAccepted == ConsumerSpec => []AcceptsConforming
<1>1. ConsumerInv => AcceptsConforming
  <2>1. ASSUME ConsumerInv, NEW x \in Exchanges, HasRead(x)
        PROVE  Accepts(Body(x), reader[x].doc, reader[x].got)
    BY <2>1, ReadExchange, DocumentAccepted
  <2> QED
    BY <2>1 DEF AcceptsConforming, Accepts, SchemaOf, Place
<1> QED
  BY <1>1, ConsumerInvAlways, PTL

\* RepeatsMerge, however often a field comes and however many error objects an
\* envelope has.
THEOREM RepeatsAreMerged == ConsumerSpec => []RepeatsMerge
<1>1. ConsumerInv => RepeatsMerge
  <2>1. ASSUME ConsumerInv, NEW x \in Exchanges, HasRead(x), reader[x].got.ok
        PROVE  Merges(Body(x), reader[x].doc, reader[x].got.value)
    BY <2>1, ReadExchange, DocumentMerged
  <2> QED
    BY Zenon, <2>1 DEF RepeatsMerge, Merges, WithDetails, Part
<1> QED
  BY <1>1, ConsumerInvAlways, PTL
==============================================================================
