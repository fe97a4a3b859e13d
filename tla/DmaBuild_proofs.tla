--------------------------- MODULE DmaBuild_proofs ---------------------------
(***************************************************************************)
(* The properties of DmaBuild for every buffer, region, block size and ring. *)
(***************************************************************************)
EXTENDS DmaBuild, FiniteSetTheorems, SequenceTheorems, WellFoundedInduction, TLAPS

Desc == [addr : Nat, len : Nat, sof : BOOLEAN, eof : BOOLEAN, frame : Nat]

(* How much of the region is described.                                     *)
Done == msg.size - left

Progress ==
    /\ left <= msg.size /\ offset = msg.addr + Done
    /\ Described(descs)[Len(descs) + 1] = Done
    /\ Len(descs) <= msg.ring
    /\ descs = <<>> <=> Done = 0
    /\ Done > 0 => offset <= Total(msg.seg)

Covered ==
    \A i \in DOMAIN descs :
        /\ descs[i].len \in 1..msg.block
        /\ \A b \in 0..(descs[i].len - 1) :
              descs[i].addr + b = PhysicalByte(Described(descs)[i] + b)

(* The frame in hand, by the place in the region.                           *)
Framed ==
    /\ frameLeft \in 1..msg.block
    /\ msg.rule = "AllOneFrame" => ~inFrame /\ frames = IF left = 0 THEN 1 ELSE 0
    /\ msg.rule = "FramePerDesc" =>
          IF left = 0 THEN frames = (msg.size + msg.block - 1) \div msg.block
          ELSE /\ frames = Done \div msg.block
               /\ frameLeft = msg.block - (Done % msg.block)
               /\ inFrame <=> Done % msg.block # 0

(* There is a descriptor for each byte where one has to start, and the next  *)
(* one has to start where the loop is.                                      *)
Started(n) == {k \in 0..(n - 1) : Starts(k)}
Counted == Cardinality(Started(Done)) = Len(descs)
AtStart == left > 0 => Starts(Done)

Ended ==
    /\ state = "built" => left = 0
    /\ state = "DATA_RANGE" => left > 0 /\ offset >= Total(msg.seg)
    /\ state = "DESC_RANGE" => left > 0 /\ Len(descs) = msg.ring

IInv ==
    /\ TypeOK /\ Progress /\ Covered /\ Framed /\ FramesMarked
    /\ Counted /\ AtStart /\ Ended

-----------------------------------------------------------------------------
(* Sums                                                                     *)

LEMMA Least ==
    ASSUME NEW T \in SUBSET Nat, T # {}
    PROVE  \E m \in T : \A k \in T : m <= k
<1> DEFINE less == OpToRel(<, Nat)
<1>1. IsWellFoundedOn(less, Nat)
  BY NatLessThanWellFounded
<1>2. \A x, y \in Nat : x < y => <<x, y>> \in less
  BY DEF OpToRel
<1> HIDE DEF less
<1>3. PICK m \in T : \A k \in T : ~(<<k, m>> \in less)
  BY <1>1, WFMin
<1>4. \A k \in T : m \in Nat /\ k \in Nat /\ ~(k < m)
  BY <1>2, <1>3
<1> QED BY <1>4

(* The equation of a sum has a solution: one on every 0..n, which agree.     *)
Sums(w, n, h) == h = [i \in 0..n |-> IF i <= 1 THEN 0 ELSE h[i - 1] + w[i - 1]]

LEMMA SumsExist ==
    ASSUME NEW w, NEW n \in Nat
    PROVE  \E h : Sums(w, n, h)
<1> DEFINE Bad == {m \in Nat : ~\E h : Sums(w, m, h)}
<1> SUFFICES ASSUME n \in Bad PROVE FALSE
  OBVIOUS
<1>1. PICK m \in Bad : \A k \in Bad : m <= k
  BY Least
<1>2. CASE m = 0
  <2>1. Sums(w, 0, [i \in 0..0 |-> 0])
    BY DEF Sums
  <2> QED BY <1>1, <1>2, <2>1
<1>3. CASE m # 0
  <2>1. m - 1 \in Nat /\ m - 1 \notin Bad
    BY <1>1, <1>3
  <2>2. PICK h : Sums(w, m - 1, h)
    BY <2>1
  <2> DEFINE g == [i \in 0..m |-> IF i <= m - 1 THEN h[i]
                                  ELSE IF i <= 1 THEN 0 ELSE h[i - 1] + w[i - 1]]
  <2>3. \A i \in 0..(m - 1) : h[i] = IF i <= 1 THEN 0 ELSE h[i - 1] + w[i - 1]
    BY <2>1, <2>2 DEF Sums
  <2>4. \A i \in 0..m : g[i] = IF i <= 1 THEN 0 ELSE g[i - 1] + w[i - 1]
    <3> SUFFICES ASSUME NEW i \in 0..m
                 PROVE  g[i] = IF i <= 1 THEN 0 ELSE g[i - 1] + w[i - 1]
      OBVIOUS
    <3>1. m \in Nat
      OBVIOUS
    <3>2. CASE i <= 1
      BY <3>1, <3>2, <2>3
    <3>3. CASE i > 1
      <4>1. i - 1 \in 0..(m - 1) /\ i - 1 \in 0..m /\ i - 1 <= m - 1
        BY <3>1, <3>3
      <4>2. g[i - 1] = h[i - 1]
        BY <4>1
      <4>3. CASE i <= m - 1
        <5>1. i \in 0..(m - 1) /\ g[i] = h[i] /\ ~(i <= 1)
          BY <3>1, <3>3, <4>3
        <5> QED BY <5>1, <2>3, <4>2
      <4>4. CASE ~(i <= m - 1)
        BY <3>3, <4>2, <4>4
      <4> QED BY <4>3, <4>4
    <3> QED BY <3>1, <3>2, <3>3
  <2>5. Sums(w, m, g)
    <3> HIDE DEF g
    <3>1. g = [i \in 0..m |-> g[i]]
      BY DEF g
    <3> QED BY <2>4, <3>1 DEF Sums
  <2> QED BY <2>5, <1>1
<1> QED BY <1>2, <1>3

LEMMA SumsAgree ==
    ASSUME NEW w, NEW n \in Nat, NEW m \in Nat, NEW g, NEW h,
           Sums(w, n, g), Sums(w, m, h), NEW k \in Nat, k <= n, k <= m
    PROVE  g[k] = h[k]
<1> DEFINE Bad == {i \in Nat : i <= n /\ i <= m /\ g[i] # h[i]}
<1> SUFFICES ASSUME k \in Bad PROVE FALSE
  OBVIOUS
<1>1. PICK i \in Bad : \A j \in Bad : i <= j
  BY Least
<1>2. /\ g[i] = IF i <= 1 THEN 0 ELSE g[i - 1] + w[i - 1]
      /\ h[i] = IF i <= 1 THEN 0 ELSE h[i - 1] + w[i - 1]
  <2>1. i \in 0..n /\ i \in 0..m
    OBVIOUS
  <2> QED BY <2>1 DEF Sums
<1>3. i > 1
  BY <1>2
<1>4. i - 1 \in Nat /\ i - 1 <= n /\ i - 1 <= m /\ i - 1 \notin Bad
  BY <1>1, <1>3
<1> QED BY <1>2, <1>3, <1>4

LEMMA PrefixSumDef ==
    ASSUME NEW w
    PROVE  PrefixSum(w) = [i \in Nat |-> IF i <= 1 THEN 0 ELSE PrefixSum(w)[i - 1] + w[i - 1]]
<1> DEFINE part(n) == CHOOSE h : Sums(w, n, h)
           sum == [i \in Nat |-> part(i)[i]]
<1>1. \A n \in Nat : Sums(w, n, part(n))
  BY SumsExist
<1> HIDE DEF part
<1>2. \A i \in Nat : sum[i] = IF i <= 1 THEN 0 ELSE sum[i - 1] + w[i - 1]
  <2> SUFFICES ASSUME NEW i \in Nat
               PROVE  sum[i] = IF i <= 1 THEN 0 ELSE sum[i - 1] + w[i - 1]
    OBVIOUS
  <2>1. part(i)[i] = IF i <= 1 THEN 0 ELSE part(i)[i - 1] + w[i - 1]
    BY <1>1 DEF Sums
  <2>2. CASE i <= 1
    BY <2>1, <2>2
  <2>3. CASE i > 1
    <3>1. i - 1 \in Nat /\ i - 1 <= i /\ i - 1 <= i - 1
      BY <2>3
    <3>2. part(i)[i - 1] = part(i - 1)[i - 1]
      BY <3>1, <1>1, SumsAgree
    <3> QED BY <2>1, <2>3, <3>1, <3>2
  <2> QED BY <2>2, <2>3
<1>3. sum = [i \in Nat |-> IF i <= 1 THEN 0 ELSE sum[i - 1] + w[i - 1]]
  BY <1>2
<1> HIDE DEF sum
<1>4. PrefixSum(w) = CHOOSE f : f = [i \in Nat |-> IF i <= 1 THEN 0 ELSE f[i - 1] + w[i - 1]]
  BY DEF PrefixSum
<1> QED BY <1>3, <1>4

LEMMA SumFacts ==
    ASSUME NEW n \in Nat, NEW w \in [1..n -> Nat]
    PROVE  /\ PrefixSum(w)[1] = 0
           /\ \A i \in 1..n : PrefixSum(w)[i + 1] = PrefixSum(w)[i] + w[i]
           /\ \A i \in 1..(n + 1) : PrefixSum(w)[i] \in Nat
<1> DEFINE sum == PrefixSum(w)
<1>1. \A i \in Nat : sum[i] = IF i <= 1 THEN 0 ELSE sum[i - 1] + w[i - 1]
  <2>1. sum = [i \in Nat |-> IF i <= 1 THEN 0 ELSE sum[i - 1] + w[i - 1]]
    BY PrefixSumDef
  <2> HIDE DEF sum
  <2> QED BY <2>1
<1> HIDE DEF sum
<1>2. sum[1] = 0
  BY <1>1
<1>3. \A i \in 1..n : sum[i + 1] = sum[i] + w[i]
  <2> TAKE i \in 1..n
  <2>1. i + 1 \in Nat /\ ~(i + 1 <= 1) /\ (i + 1) - 1 = i
    OBVIOUS
  <2> QED BY <1>1, <2>1
<1>4. \A i \in 1..(n + 1) : sum[i] \in Nat
  <2> DEFINE Bad == {i \in Nat : i \in 1..(n + 1) /\ sum[i] \notin Nat}
  <2> SUFFICES ASSUME Bad # {} PROVE FALSE
    OBVIOUS
  <2>1. PICK i \in Bad : \A j \in Bad : i <= j
    BY Least
  <2>2. i > 1 /\ i \in 1..(n + 1)
    BY <1>2, <2>1
  <2>3. i - 1 \in 1..n /\ i - 1 \in 1..(n + 1) /\ (i - 1) + 1 = i /\ ~(i <= i - 1)
    BY <2>2
  <2>4. sum[i - 1] \in Nat /\ w[i - 1] \in Nat
    BY <2>1, <2>3
  <2> QED BY <1>3, <2>3, <2>4, <2>1
<1> QED BY <1>2, <1>3, <1>4 DEF sum

LEMMA SumMonotone ==
    ASSUME NEW n \in Nat, NEW w \in [1..n -> Nat],
           NEW i \in 1..(n + 1), NEW j \in 1..(n + 1), i <= j
    PROVE  PrefixSum(w)[i] <= PrefixSum(w)[j]
<1> DEFINE sum == PrefixSum(w)
           Bad == {k \in Nat : k \in 1..(n + 1) /\ i <= k /\ ~(sum[i] <= sum[k])}
<1>1. /\ \A k \in 1..n : sum[k + 1] = sum[k] + w[k]
      /\ \A k \in 1..(n + 1) : sum[k] \in Nat
  BY SumFacts
<1> HIDE DEF sum
<1>2. SUFFICES ASSUME Bad # {} PROVE FALSE
  BY DEF sum
<1>3. PICK k \in Bad : \A m \in Bad : k <= m
  BY <1>2, Least
<1>4. k # i /\ k \in 1..(n + 1)
  BY <1>1, <1>3
<1>5. k - 1 \in 1..n /\ k - 1 \in 1..(n + 1) /\ i <= k - 1 /\ (k - 1) + 1 = k /\ ~(k <= k - 1)
  BY <1>3, <1>4
<1>6. sum[i] <= sum[k - 1]
  BY <1>3, <1>5
<1> QED BY <1>1, <1>3, <1>5, <1>6

LEMMA SumSame ==
    ASSUME NEW n \in Nat, NEW w \in [1..n -> Nat], NEW m \in Nat, NEW v \in [1..m -> Nat],
           NEW k \in Nat, k <= n, k <= m, \A i \in 1..k : w[i] = v[i]
    PROVE  \A i \in 1..(k + 1) : PrefixSum(w)[i] = PrefixSum(v)[i]
<1> DEFINE sw == PrefixSum(w)
           sv == PrefixSum(v)
           Bad == {i \in Nat : i \in 1..(k + 1) /\ sw[i] # sv[i]}
<1>1. /\ sw[1] = 0 /\ sv[1] = 0
      /\ \A i \in 1..n : sw[i + 1] = sw[i] + w[i]
      /\ \A i \in 1..m : sv[i + 1] = sv[i] + v[i]
  BY SumFacts
<1> HIDE DEF sw, sv
<1>2. SUFFICES ASSUME Bad # {} PROVE FALSE
  BY DEF sw, sv
<1>3. PICK i \in Bad : \A j \in Bad : i <= j
  BY <1>2, Least
<1>4. i # 1 /\ i \in 1..(k + 1)
  BY <1>1, <1>3
<1>5. i - 1 \in 1..k /\ i - 1 \in 1..n /\ i - 1 \in 1..m /\ i - 1 \in 1..(k + 1)
      /\ (i - 1) + 1 = i /\ ~(i <= i - 1)
  BY <1>4
<1>6. sw[i - 1] = sv[i - 1]
  BY <1>3, <1>5
<1> QED BY <1>1, <1>3, <1>5, <1>6

(* The pieces of a sum follow each other: a number below the total lies in   *)
(* one of them, and in no other.                                            *)
LEMMA SumFinds ==
    ASSUME NEW n \in Nat, NEW w \in [1..n -> Nat], NEW at \in Nat, at < PrefixSum(w)[n + 1]
    PROVE  \E i \in 1..n : PrefixSum(w)[i] <= at /\ at < PrefixSum(w)[i] + w[i]
<1> DEFINE sum == PrefixSum(w)
           Above == {i \in Nat : i \in 1..(n + 1) /\ at < sum[i]}
<1>1. /\ sum[1] = 0 /\ \A i \in 1..n : sum[i + 1] = sum[i] + w[i]
      /\ \A i \in 1..(n + 1) : sum[i] \in Nat
  BY SumFacts
<1> HIDE DEF sum
<1>2. n + 1 \in Above
  BY DEF sum
<1>3. PICK i \in Above : \A j \in Above : i <= j
  BY <1>2, Least
<1>4. i # 1 /\ i \in 1..(n + 1)
  BY <1>1, <1>3
<1>5. i - 1 \in 1..n /\ i - 1 \in 1..(n + 1) /\ (i - 1) + 1 = i /\ ~(i <= i - 1)
  BY <1>4
<1>6. ~(at < sum[i - 1])
  BY <1>3, <1>5
<1>7. sum[i - 1] <= at /\ at < sum[i - 1] + w[i - 1]
  BY <1>1, <1>3, <1>5, <1>6
<1> QED BY <1>5, <1>7 DEF sum

LEMMA SumUnique ==
    ASSUME NEW n \in Nat, NEW w \in [1..n -> Nat], NEW at \in Nat,
           NEW i \in 1..n, PrefixSum(w)[i] <= at, at < PrefixSum(w)[i] + w[i],
           NEW j \in 1..n, PrefixSum(w)[j] <= at, at < PrefixSum(w)[j] + w[j]
    PROVE  i = j
<1> DEFINE sum == PrefixSum(w)
<1>1. /\ \A k \in 1..n : sum[k + 1] = sum[k] + w[k]
      /\ \A k \in 1..(n + 1) : sum[k] \in Nat
  BY SumFacts
<1>2. /\ i < j => sum[i + 1] <= sum[j]
      /\ j < i => sum[j + 1] <= sum[i]
  BY SumMonotone
<1> HIDE DEF sum
<1>3. /\ sum[i] <= at /\ at < sum[i + 1] /\ sum[j] <= at /\ at < sum[j + 1]
  BY <1>1 DEF sum
<1>4. i + 1 \in 1..(n + 1) /\ j + 1 \in 1..(n + 1) /\ i \in 1..(n + 1) /\ j \in 1..(n + 1)
  OBVIOUS
<1>5. sum[i] \in Nat /\ sum[j] \in Nat /\ sum[i + 1] \in Nat /\ sum[j + 1] \in Nat
  BY <1>1, <1>4
<1>6. ~(i < j)
  BY <1>2, <1>3, <1>5
<1>7. ~(j < i)
  BY <1>2, <1>3, <1>5
<1> QED BY <1>6, <1>7
-----------------------------------------------------------------------------
(* The buffer and its segments                                              *)

Size(l) == [i \in DOMAIN l |-> l[i].size]
Lies(l, i, at) == i \in 1..Len(l) /\ Before(l)[i] <= at /\ at < Before(l)[i] + l[i].size

LEMMA LayoutTypes ==
    ASSUME NEW l \in Layouts
    PROVE  /\ Len(l) \in Nat /\ DOMAIN l = 1..Len(l) /\ Len(l) > 0
           /\ \A i \in 1..Len(l) : l[i] \in [base : Nat, size : Nat]
           /\ Size(l) \in [1..Len(l) -> Nat] /\ Before(l) = PrefixSum(Size(l))
           /\ \A i \in 1..Len(l) : Size(l)[i] = l[i].size
<1>1. l \in Seq([base : Nat, size : Nat]) /\ l # <<>>
  BY InputAssumption
<1>2. Len(l) \in Nat /\ DOMAIN l = 1..Len(l) /\ Len(l) > 0
  BY <1>1, LenProperties, EmptySeq
<1>3. \A i \in 1..Len(l) : l[i] \in [base : Nat, size : Nat]
  BY <1>1, ElementOfSeq
<1> QED BY <1>2, <1>3 DEF Size, Before

LEMMA LayoutFacts ==
    ASSUME NEW l \in Layouts
    PROVE  /\ Before(l)[1] = 0
           /\ \A i \in 1..Len(l) : Before(l)[i + 1] = Before(l)[i] + l[i].size
           /\ \A i \in 1..(Len(l) + 1) : Before(l)[i] \in Nat
           /\ Total(l) \in Nat
           /\ \A i, j \in 1..(Len(l) + 1) : i <= j => Before(l)[i] <= Before(l)[j]
           /\ \A at \in Nat : at < Total(l) => \E i \in 1..Len(l) : Lies(l, i, at)
           /\ \A at \in Nat : \A i, j : Lies(l, i, at) /\ Lies(l, j, at) => i = j
           /\ \A at \in Nat : \A i : Lies(l, i, at) => at < Total(l)
<1> DEFINE n == Len(l)
           w == Size(l)
<1>1. /\ n \in Nat /\ w \in [1..n -> Nat] /\ Before(l) = PrefixSum(w)
      /\ \A i \in 1..n : w[i] = l[i].size
  BY LayoutTypes
<1> HIDE DEF n, w
<1>2. /\ PrefixSum(w)[1] = 0
      /\ \A i \in 1..n : PrefixSum(w)[i + 1] = PrefixSum(w)[i] + w[i]
      /\ \A i \in 1..(n + 1) : PrefixSum(w)[i] \in Nat
  BY <1>1, SumFacts
<1>3. \A i, j \in 1..(n + 1) : i <= j => PrefixSum(w)[i] <= PrefixSum(w)[j]
  BY <1>1, SumMonotone
<1>4. \A at \in Nat : at < PrefixSum(w)[n + 1] =>
          \E i \in 1..n : PrefixSum(w)[i] <= at /\ at < PrefixSum(w)[i] + w[i]
  BY <1>1, SumFinds
<1>5. \A at \in Nat : \A i, j \in 1..n :
          /\ PrefixSum(w)[i] <= at /\ at < PrefixSum(w)[i] + w[i]
          /\ PrefixSum(w)[j] <= at /\ at < PrefixSum(w)[j] + w[j]
          => i = j
  BY <1>1, SumUnique
<1>6. n + 1 \in 1..(n + 1) /\ Total(l) = Before(l)[n + 1]
  BY <1>1 DEF Total, n
<1>7. \A at \in Nat : \A i : Lies(l, i, at) <=>
          i \in 1..n /\ PrefixSum(w)[i] <= at /\ at < PrefixSum(w)[i] + w[i]
  BY <1>1 DEF Lies, n
<1>8. \A at \in Nat : \A i : Lies(l, i, at) => at < Total(l)
  <2> SUFFICES ASSUME NEW at \in Nat, NEW i, Lies(l, i, at) PROVE at < Total(l)
    OBVIOUS
  <2>1. i \in 1..n /\ i + 1 \in 1..(n + 1) /\ i + 1 <= n + 1 /\ at < PrefixSum(w)[i + 1]
    <3>1. i \in 1..n /\ at < PrefixSum(w)[i] + w[i]
      BY <1>7
    <3>2. PrefixSum(w)[i + 1] = PrefixSum(w)[i] + w[i]
      BY <3>1, <1>2
    <3> QED BY <1>1, <3>1, <3>2
  <2>2. PrefixSum(w)[i + 1] <= PrefixSum(w)[n + 1]
    BY <1>3, <1>6, <2>1
  <2> QED BY <1>1, <1>2, <1>6, <2>1, <2>2
<1>9. \A at \in Nat : at < Total(l) => \E i \in 1..n : Lies(l, i, at)
  BY <1>1, <1>4, <1>6, <1>7
<1>10. \A at \in Nat : \A i, j : Lies(l, i, at) /\ Lies(l, j, at) => i = j
  BY <1>5, <1>7
<1> QED BY <1>1, <1>2, <1>3, <1>6, <1>8, <1>9, <1>10 DEF n

LEMMA DescribedFacts ==
    ASSUME NEW ds \in Seq(Desc)
    PROVE  /\ Len(ds) \in Nat /\ DOMAIN ds = 1..Len(ds)
           /\ \A i \in 1..Len(ds) : ds[i] \in Desc
           /\ Described(ds)[1] = 0
           /\ \A i \in 1..Len(ds) : Described(ds)[i + 1] = Described(ds)[i] + ds[i].len
           /\ \A i \in 1..(Len(ds) + 1) : Described(ds)[i] \in Nat
<1> DEFINE n == Len(ds)
           w == [i \in DOMAIN ds |-> ds[i].len]
<1>1. n \in Nat /\ DOMAIN ds = 1..n /\ \A i \in 1..n : ds[i] \in Desc
  BY LenProperties, ElementOfSeq
<1>2. w \in [1..n -> Nat] /\ \A i \in 1..n : w[i] = ds[i].len
  BY <1>1 DEF Desc
<1>3. Described(ds) = PrefixSum(w)
  BY DEF Described
<1> HIDE DEF n, w
<1>4. /\ PrefixSum(w)[1] = 0
      /\ \A i \in 1..n : PrefixSum(w)[i + 1] = PrefixSum(w)[i] + w[i]
      /\ \A i \in 1..(n + 1) : PrefixSum(w)[i] \in Nat
  BY <1>1, <1>2, SumFacts
<1> QED BY <1>1, <1>2, <1>3, <1>4 DEF n

LEMMA DescribedAppend ==
    ASSUME NEW ds \in Seq(Desc), NEW d \in Desc
    PROVE  LET es == Append(ds, d)
           IN  /\ es \in Seq(Desc) /\ Len(es) = Len(ds) + 1
               /\ \A i \in 1..Len(ds) : es[i] = ds[i]
               /\ es[Len(ds) + 1] = d
               /\ \A i \in 1..(Len(ds) + 1) : Described(es)[i] = Described(ds)[i]
               /\ Described(es)[Len(es) + 1] = Described(ds)[Len(ds) + 1] + d.len
<1> DEFINE es == Append(ds, d)
           n == Len(ds)
           w == [i \in DOMAIN ds |-> ds[i].len]
           v == [i \in DOMAIN es |-> es[i].len]
<1>1. /\ es \in Seq(Desc) /\ Len(es) = n + 1 /\ \A i \in 1..n : es[i] = ds[i]
      /\ es[n + 1] = d
  BY AppendProperties
<1>2. n \in Nat /\ DOMAIN ds = 1..n /\ DOMAIN es = 1..(n + 1)
      /\ \A i \in 1..n : ds[i] \in Desc
  BY <1>1, LenProperties, ElementOfSeq
<1>3. w \in [1..n -> Nat] /\ v \in [1..(n + 1) -> Nat] /\ \A i \in 1..n : w[i] = v[i]
  <2>1. \A i \in 1..(n + 1) : es[i] \in Desc
    BY <1>1, <1>2, ElementOfSeq
  <2> HIDE DEF es
  <2> QED BY <1>1, <1>2, <2>1 DEF Desc
<1>4. Described(ds) = PrefixSum(w) /\ Described(es) = PrefixSum(v)
  BY DEF Described
<1>5. \A i \in 1..(n + 1) : PrefixSum(w)[i] = PrefixSum(v)[i]
  <2>1. n + 1 \in Nat /\ n <= n + 1 /\ n <= n
    BY <1>2
  <2> HIDE DEF w, v, n
  <2> QED BY <1>2, <1>3, <2>1, SumSame
<1>6. Described(es)[(n + 1) + 1] = Described(es)[n + 1] + d.len
  <2> HIDE DEF es
  <2> QED BY <1>1, <1>2, DescribedFacts
<1> HIDE DEF es
<1>7. \A i \in 1..(n + 1) : Described(es)[i] = Described(ds)[i]
  BY <1>4, <1>5
<1>8. Described(es)[Len(es) + 1] = Described(ds)[n + 1] + d.len
  <2>1. n + 1 \in 1..(n + 1)
    BY <1>2
  <2> QED BY <1>1, <1>6, <1>7, <2>1
<1> QED BY <1>1, <1>7, <1>8 DEF es
-----------------------------------------------------------------------------
(* Division                                                                 *)

LEMMA DivMod ==
    ASSUME NEW x \in Nat, NEW m \in Nat \ {0}
    PROVE  x = (x \div m) * m + (x % m) /\ x % m \in 0..(m - 1) /\ x \div m \in Nat
BY SMTT(30)

LEMMA DivWithin ==
    ASSUME NEW x \in Nat, NEW m \in Nat \ {0}, NEW c \in Nat, (x % m) + c < m
    PROVE  (x + c) % m = (x % m) + c /\ (x + c) \div m = x \div m
BY SMTT(30)

LEMMA DivUpTo ==
    ASSUME NEW x \in Nat, NEW m \in Nat \ {0}, NEW c \in Nat, (x % m) + c = m
    PROVE  (x + c) % m = 0 /\ (x + c) \div m = x \div m + 1
BY SMTT(30)

LEMMA DivUp ==
    ASSUME NEW x \in Nat, NEW m \in Nat \ {0}, NEW c \in 1..m, (x % m) + c <= m
    PROVE  (x + c + m - 1) \div m = x \div m + 1
BY SMTT(30)

LEMMA DivSmall ==
    ASSUME NEW m \in Nat \ {0}, NEW c \in 0..(m - 1)
    PROVE  c % m = c /\ c \div m = 0
BY SMTT(30)

LEMMA DivSelf ==
    ASSUME NEW m \in Nat \ {0}
    PROVE  m % m = 0 /\ m \div m = 1 /\ (m + m - 1) \div m = 1
BY SMTT(30)
-----------------------------------------------------------------------------
LEMMA RequestTypes ==
    ASSUME msg \in Request
    PROVE  /\ msg.seg \in Layouts /\ msg.addr \in Nat /\ msg.size \in Nat \ {0}
           /\ msg.block \in Nat \ {0} /\ msg.ring \in Nat \ {0}
           /\ msg.rule \in {"AllOneFrame", "FramePerDesc"}
           /\ FrameSize \in Nat \ {0}
BY InputAssumption DEF Request, FrameSize

LEMMA StateTypes ==
    ASSUME TypeOK, Progress
    PROVE  /\ msg \in Request /\ msg.seg \in Layouts /\ msg.addr \in Nat /\ msg.size \in Nat \ {0}
           /\ msg.block \in Nat \ {0} /\ msg.ring \in Nat \ {0}
           /\ msg.rule \in {"AllOneFrame", "FramePerDesc"}
           /\ left \in Nat /\ offset \in Nat /\ frameLeft \in Nat /\ frames \in Nat
           /\ Done \in Nat /\ left <= msg.size /\ Done = msg.size - left /\ left = msg.size - Done
           /\ offset = msg.addr + Done /\ msg.addr <= offset
           /\ Total(msg.seg) \in Nat
<1>1. /\ msg \in Request /\ left \in Nat /\ offset \in Nat /\ frameLeft \in Nat /\ frames \in Nat
      /\ left <= msg.size /\ offset = msg.addr + Done
  BY DEF TypeOK, Progress
<1>2. /\ msg.seg \in Layouts /\ msg.addr \in Nat /\ msg.size \in Nat \ {0}
      /\ msg.block \in Nat \ {0} /\ msg.ring \in Nat \ {0}
      /\ msg.rule \in {"AllOneFrame", "FramePerDesc"}
  BY <1>1, RequestTypes
<1>3. Done = msg.size - left
  BY DEF Done
<1>4. Total(msg.seg) \in Nat
  BY <1>2, LayoutFacts
<1> QED BY <1>1, <1>2, <1>3, <1>4

(* What is known of the frame of blocks, and that a chunk of it stays in it. *)
LEMMA InBlock ==
    ASSUME TypeOK, Progress, Framed, left > 0, msg.rule = "FramePerDesc"
    PROVE  /\ Done % msg.block \in 0..(msg.block - 1) /\ Done \div msg.block \in Nat
           /\ frameLeft = msg.block - (Done % msg.block) /\ frames = Done \div msg.block
           /\ inFrame <=> Done % msg.block # 0
<1>1. Done \in Nat /\ msg.block \in Nat \ {0} /\ left # 0
  BY StateTypes
<1>2. Done % msg.block \in 0..(msg.block - 1) /\ Done \div msg.block \in Nat
  BY <1>1, DivMod
<1>3. /\ frameLeft = msg.block - (Done % msg.block) /\ frames = Done \div msg.block
      /\ inFrame <=> Done % msg.block # 0
  BY <1>1 DEF Framed
<1> QED BY <1>2, <1>3

(* The place the loop is at, when it is in the buffer, and what one turn of  *)
(* it describes.                                                            *)
LEMMA ChunkFacts ==
    ASSUME TypeOK, Framed, left > 0, InBuffer
    PROVE  LET s   == Segment
               end == Before(msg.seg)[s] + msg.seg[s].size
           IN  /\ Lies(msg.seg, s, offset) /\ end \in Nat
               /\ Chunk \in 1..left /\ Chunk <= msg.block /\ offset + Chunk <= end
               /\ Address \in Nat
               /\ msg.rule = "AllOneFrame" =>
                     Chunk = left \/ Chunk = msg.block \/ offset + Chunk = end
               /\ msg.rule = "FramePerDesc" =>
                     /\ Chunk <= frameLeft
                     /\ Chunk = left \/ Chunk = frameLeft \/ offset + Chunk = end
<1> DEFINE s == Segment
           l == msg.seg
           end == Before(l)[s] + l[s].size
<1>1. /\ l \in Layouts /\ msg.block \in Nat \ {0} /\ offset \in Nat /\ left \in Nat
      /\ msg.rule \in {"AllOneFrame", "FramePerDesc"} /\ frameLeft \in 1..msg.block
  BY RequestTypes DEF TypeOK, Framed
<1>2. s \in 1..Len(l) /\ Holds(s)
  BY DEF InBuffer, Segment
<1>3. Lies(l, s, offset)
  BY <1>2 DEF Holds, Lies
<1>4. l[s].base \in Nat /\ l[s].size \in Nat /\ Before(l)[s] \in Nat
  <2>1. s \in 1..(Len(l) + 1) /\ l[s] \in [base : Nat, size : Nat]
    BY <1>1, <1>2, LayoutTypes
  <2> QED BY <1>1, <2>1, LayoutFacts
<1>5. end \in Nat /\ offset < end /\ Before(l)[s] <= offset
  BY <1>1, <1>3, <1>4 DEF Lies
<1>6. Contiguous = Lesser(left, end - offset) /\ Address = l[s].base + offset - Before(l)[s]
  BY <1>1, <1>4 DEF Contiguous, Address
<1>7. Address \in Nat
  BY <1>1, <1>4, <1>5, <1>6
<1> HIDE DEF end, s
<1>8. CASE msg.rule = "AllOneFrame"
  <2>1. Chunk = Lesser(Lesser(left, end - offset), msg.block)
    BY <1>6, <1>8 DEF Chunk
  <2> QED BY <1>1, <1>3, <1>5, <1>7, <1>8, <2>1 DEF Lesser, end, s
<1>9. CASE msg.rule = "FramePerDesc"
  <2>1. Chunk = Lesser(Lesser(Lesser(left, end - offset), msg.block), frameLeft)
    BY <1>6, <1>9 DEF Chunk
  <2> QED BY <1>1, <1>3, <1>5, <1>7, <1>9, <2>1 DEF Lesser, end, s
<1> QED BY <1>1, <1>8, <1>9

(* The bytes of a chunk lie together in its segment.                        *)
LEMMA ChunkPlace ==
    ASSUME TypeOK, Framed, Progress, left > 0, InBuffer, NEW b \in 0..(Chunk - 1)
    PROVE  Address + b = PhysicalByte(Done + b)
<1> DEFINE s == Segment
           l == msg.seg
           at == msg.addr + (Done + b)
           P(j) == Before(l)[j] <= at /\ at < Before(l)[j] + l[j].size
<1>1. /\ l \in Layouts /\ msg.addr \in Nat /\ msg.size \in Nat /\ left \in Nat
      /\ offset \in Nat
  BY RequestTypes DEF TypeOK
<1>2. /\ Lies(l, s, offset) /\ Before(l)[s] + l[s].size \in Nat
      /\ Chunk \in 1..left /\ offset + Chunk <= Before(l)[s] + l[s].size
  BY ChunkFacts
<1>3. /\ offset = msg.addr + Done /\ Done \in Nat
  BY <1>1 DEF Progress, Done
<1>4. at = offset + b /\ at \in Nat /\ b \in Nat
  BY <1>1, <1>2, <1>3
<1>5. s \in 1..Len(l) /\ l[s].base \in Nat /\ Before(l)[s] \in Nat
  <2>1. s \in 1..Len(l)
    BY <1>2 DEF Lies
  <2>2. s \in 1..(Len(l) + 1) /\ l[s] \in [base : Nat, size : Nat]
    BY <1>1, <2>1, LayoutTypes
  <2> QED BY <1>1, <2>1, <2>2, LayoutFacts
<1>6. P(s)
  BY <1>1, <1>2, <1>4, <1>5 DEF Lies
<1>7. \A j \in 1..Len(l) : P(j) => j = s
  BY <1>1, <1>4, <1>5, <1>6, LayoutFacts DEF Lies
<1>8. (CHOOSE j \in 1..Len(l) : P(j)) = s
  BY <1>5, <1>6, <1>7
<1>9. PhysicalByte(Done + b) = l[s].base + at - Before(l)[s]
  BY <1>8 DEF PhysicalByte
<1>10. Address = l[s].base + offset - Before(l)[s]
  BY DEF Address
<1> HIDE DEF s, l, at
<1> QED BY <1>1, <1>4, <1>5, <1>9, <1>10
-----------------------------------------------------------------------------
(* Where descriptors have to start                                          *)

Marks == {msg.addr} \cup {Before(msg.seg)[j] : j \in 1..Len(msg.seg)}
IsEntered(e, at) ==
    /\ e \in Marks /\ msg.addr <= e /\ e <= at
    /\ \A j \in 1..Len(msg.seg) : Before(msg.seg)[j] \notin (e + 1)..at

LEMMA MarkTypes ==
    ASSUME msg \in Request
    PROVE  Marks \subseteq Nat /\ \A j \in 1..Len(msg.seg) : Before(msg.seg)[j] \in Nat
<1>1. msg.seg \in Layouts /\ msg.addr \in Nat
  BY RequestTypes
<1>2. \A j \in 1..Len(msg.seg) : j \in 1..(Len(msg.seg) + 1)
  BY <1>1, LayoutTypes
<1>3. \A j \in 1..Len(msg.seg) : Before(msg.seg)[j] \in Nat
  BY <1>1, <1>2, LayoutFacts
<1> QED BY <1>1, <1>3 DEF Marks

LEMMA EnteredUnique ==
    ASSUME msg \in Request, NEW at \in Nat, NEW e, IsEntered(e, at), NEW d, IsEntered(d, at)
    PROVE  e = d
<1>1. \A x, y : IsEntered(x, at) /\ IsEntered(y, at) => ~(x < y)
  <2> SUFFICES ASSUME NEW x, NEW y, IsEntered(x, at), IsEntered(y, at), x < y PROVE FALSE
    OBVIOUS
  <2>1. x \in Nat /\ y \in Nat /\ msg.addr \in Nat
    BY MarkTypes, RequestTypes DEF IsEntered
  <2>2. msg.addr <= x /\ y <= at
    BY DEF IsEntered
  <2>3. PICK j \in 1..Len(msg.seg) : y = Before(msg.seg)[j]
    BY <2>1, <2>2 DEF IsEntered, Marks
  <2>4. Before(msg.seg)[j] \in (x + 1)..at
    BY <2>1, <2>2, <2>3
  <2> QED BY <2>4 DEF IsEntered
<1>2. e \in Nat /\ d \in Nat
  BY MarkTypes DEF IsEntered
<1> QED BY <1>1, <1>2

LEMMA EnteredIs ==
    ASSUME msg \in Request, NEW at \in Nat, NEW e, IsEntered(e, at)
    PROVE  Entered(at) = e
<1>1. Entered(at) = CHOOSE x \in Marks : IsEntered(x, at)
  <2>1. \A x \in Marks :
          IsEntered(x, at) <=>
            /\ msg.addr <= x /\ x <= at
            /\ \A j \in 1..Len(msg.seg) : Before(msg.seg)[j] \notin (x + 1)..at
    BY DEF IsEntered
  <2> QED BY <2>1 DEF Entered, Marks
<1>2. e \in Marks
  BY DEF IsEntered
<1> QED BY <1>1, <1>2, EnteredUnique

LEMMA EnteredExists ==
    ASSUME msg \in Request, NEW at \in Nat, msg.addr <= at
    PROVE  IsEntered(Entered(at), at)
<1> DEFINE Back == {n \in Nat : at - n \in Marks /\ msg.addr <= at - n}
<1>1. msg.addr \in Nat /\ Marks \subseteq Nat
      /\ \A j \in 1..Len(msg.seg) : Before(msg.seg)[j] \in Nat
  BY RequestTypes, MarkTypes
<1>2. at - msg.addr \in Back
  <2>1. at - msg.addr \in Nat /\ at - (at - msg.addr) = msg.addr
    BY <1>1
  <2> QED BY <1>1, <2>1 DEF Marks
<1>3. PICK m \in Back : \A n \in Back : m <= n
  BY <1>2, Least
<1>4. \A j \in 1..Len(msg.seg) : Before(msg.seg)[j] \notin ((at - m) + 1)..at
  <2> SUFFICES ASSUME NEW j \in 1..Len(msg.seg), Before(msg.seg)[j] \in ((at - m) + 1)..at
               PROVE  FALSE
    OBVIOUS
  <2> DEFINE y == Before(msg.seg)[j]
  <2>1. y \in Nat /\ y \in Marks
    BY <1>1 DEF Marks
  <2> HIDE DEF y
  <2>2. y \in ((at - m) + 1)..at
    BY DEF y
  <2>3. at - y \in Nat /\ at - (at - y) = y /\ msg.addr <= y /\ ~(m <= at - y)
    BY <1>1, <1>3, <2>1, <2>2
  <2>4. at - y \in Back
    BY <2>1, <2>3
  <2> QED BY <1>3, <2>3, <2>4
<1>5. IsEntered(at - m, at)
  BY <1>1, <1>3, <1>4 DEF IsEntered
<1>6. Entered(at) = at - m
  BY <1>5, EnteredIs
<1> QED BY <1>5, <1>6

(* As far as a chunk reaches nothing is entered.                            *)
LEMMA EnteredBefore ==
    ASSUME TypeOK, Framed, Progress, left > 0, InBuffer, NEW b \in Nat,
           offset + b < Before(msg.seg)[Segment] + msg.seg[Segment].size
    PROVE  /\ Entered(offset + b) = Entered(offset) /\ offset + b < Total(msg.seg)
           /\ Entered(offset) \in Nat /\ Entered(offset) <= offset
<1> DEFINE s == Segment
           l == msg.seg
           e == Entered(offset)
<1>1. /\ msg \in Request /\ l \in Layouts /\ msg.addr \in Nat /\ msg.size \in Nat
      /\ left \in Nat /\ offset \in Nat /\ offset + b \in Nat /\ msg.addr <= offset
  BY StateTypes
<1>2. Lies(l, s, offset) /\ offset + b < Before(l)[s] + l[s].size
  BY ChunkFacts
<1>3. IsEntered(e, offset)
  BY <1>1, EnteredExists
<1>4. s \in 1..Len(l) /\ Len(l) \in Nat /\ s + 1 \in 1..(Len(l) + 1) /\ s \in 1..(Len(l) + 1)
      /\ \A j \in 1..Len(l) : j \in 1..(Len(l) + 1)
  BY <1>1, <1>2, LayoutTypes DEF Lies
<1>5. Before(l)[s] \in Nat /\ Before(l)[s] <= offset /\ Before(l)[s + 1] = Before(l)[s] + l[s].size
      /\ Before(l)[s + 1] \in Nat
  BY <1>1, <1>2, <1>4, LayoutFacts DEF Lies
<1>6. e \in Nat /\ e <= offset
  BY <1>1, <1>3, MarkTypes DEF IsEntered
<1>7. ASSUME NEW j \in 1..Len(l)
      PROVE  Before(l)[j] \in Nat /\ (Before(l)[j] <= offset \/ Before(l)[j] > offset + b)
  <2>1. Before(l)[j] \in Nat /\ (j <= s => Before(l)[j] <= Before(l)[s])
        /\ (s + 1 <= j => Before(l)[s + 1] <= Before(l)[j])
    BY <1>1, <1>4, LayoutFacts
  <2>2. j <= s \/ s + 1 <= j
    BY <1>4
  <2> HIDE DEF s, l
  <2> QED BY <1>1, <1>2, <1>5, <2>1, <2>2
<1>8. IsEntered(e, offset + b)
  <2>1. \A j \in 1..Len(l) : Before(l)[j] \notin (e + 1)..(offset + b)
    <3> TAKE j \in 1..Len(l)
    <3>1. Before(l)[j] \notin (e + 1)..offset
      BY <1>3 DEF IsEntered
    <3> HIDE DEF e, s
    <3> QED BY <1>1, <1>6, <1>7, <3>1
  <2> HIDE DEF e, s
  <2> QED BY <1>1, <1>3, <1>6, <2>1 DEF IsEntered
<1>9. offset + b < Total(l)
  <2>1. Lies(l, s, offset + b)
    BY <1>1, <1>2, <1>4, <1>5 DEF Lies
  <2> QED BY <1>1, <2>1, LayoutFacts
<1> QED BY <1>1, <1>6, <1>8, <1>9, EnteredIs

(* Where all the data is one frame the loop is at the start of a block of    *)
(* the part of the region that lies in its segment.                         *)
LEMMA OnBlock ==
    ASSUME TypeOK, Progress, AtStart, left > 0, msg.rule = "AllOneFrame",
           offset < Total(msg.seg), Entered(offset) \in Nat, Entered(offset) <= offset
    PROVE  (offset - Entered(offset)) % msg.block = 0 /\ offset - Entered(offset) \in Nat
<1> DEFINE e == Entered(offset)
           x == offset - e
           m == msg.block
<1>1. /\ offset = msg.addr + Done /\ offset \in Nat /\ m \in Nat \ {0}
      /\ Total(msg.seg) \in Nat /\ e \in Nat /\ e <= offset /\ offset < Total(msg.seg)
  BY StateTypes
<1>2. Starts(Done)
  BY DEF AtStart
<1>3. \/ offset >= Total(msg.seg)
      \/ e = offset
      \/ msg.rule = "AllOneFrame" /\ x % m = 0
      \/ msg.rule = "FramePerDesc" /\ Done % m = 0
  BY <1>1, <1>2, Zenon DEF Starts
<1>4. ~(offset >= Total(msg.seg)) /\ msg.rule # "FramePerDesc" /\ x \in Nat
  BY <1>1
<1>5. e = offset => x = 0
  BY <1>1
<1>6. e = offset \/ x % m = 0
  BY <1>3, <1>4, Zenon
<1> HIDE DEF e, x, m
<1>7. x % m = 0
  BY <1>1, <1>4, <1>5, <1>6
<1> QED BY <1>4, <1>7 DEF e, x, m

LEMMA InsideNoStart ==
    ASSUME TypeOK, Framed, Progress, AtStart, left > 0, InBuffer, NEW b \in 1..(Chunk - 1)
    PROVE  ~Starts(Done + b)
<1> DEFINE e == Entered(offset)
           at == msg.addr + (Done + b)
<1>1. /\ msg.addr \in Nat /\ msg.size \in Nat /\ left \in Nat /\ offset \in Nat /\ Done \in Nat
      /\ msg.block \in Nat \ {0} /\ frameLeft \in 1..msg.block
      /\ offset = msg.addr + Done /\ b \in Nat /\ Done < msg.size /\ msg \in Request
      /\ msg.rule \in {"AllOneFrame", "FramePerDesc"}
  <2>1. b \in Nat
    BY ChunkFacts
  <2> QED BY <2>1, StateTypes DEF Framed
<1>2. /\ Chunk \in Nat /\ Chunk <= msg.block
      /\ Before(msg.seg)[Segment] + msg.seg[Segment].size \in Nat
      /\ offset + Chunk <= Before(msg.seg)[Segment] + msg.seg[Segment].size
      /\ msg.rule = "FramePerDesc" => Chunk <= frameLeft
  BY ChunkFacts
<1>3. at = offset + b /\ at # offset /\ b > 0 /\ b < Chunk
  BY <1>1, <1>2
<1>4. offset + b < Before(msg.seg)[Segment] + msg.seg[Segment].size
  BY <1>1, <1>2, <1>3
<1>5. /\ Entered(at) = e /\ at < Total(msg.seg) /\ e \in Nat /\ e <= offset
  BY <1>1, <1>3, <1>4, EnteredBefore
<1>6. offset < Total(msg.seg) /\ Total(msg.seg) \in Nat
  BY <1>1, <1>3, <1>5, RequestTypes, LayoutFacts
<1>7. e # at
  BY <1>1, <1>3, <1>5
<1>8. ~(msg.rule = "AllOneFrame" /\ (at - e) % msg.block = 0)
  <2> SUFFICES ASSUME msg.rule = "AllOneFrame" PROVE (at - e) % msg.block # 0
    OBVIOUS
  <2> DEFINE x == offset - e
             m == msg.block
  <2>1. x % m = 0 /\ x \in Nat
    BY <1>5, <1>6, OnBlock
  <2> HIDE DEF e
  <2>2. m \in Nat \ {0} /\ b \in Nat /\ b < m
    BY <1>1, <1>2, <1>3
  <2>3. (x + b) % m = b
    <3> HIDE DEF x, m
    <3>1. (x % m) + b = b /\ (x % m) + b < m
      BY <2>1, <2>2
    <3> QED BY <2>1, <2>2, <3>1, DivWithin
  <2>4. at - e = x + b
    BY <1>1, <1>3, <1>5
  <2>5. (at - e) % m = b
    BY <2>3, <2>4, Zenon
  <2> QED BY <1>3, <2>5
<1>9. ~(msg.rule = "FramePerDesc" /\ (Done + b) % msg.block = 0)
  <2> SUFFICES ASSUME msg.rule = "FramePerDesc" PROVE (Done + b) % msg.block # 0
    OBVIOUS
  <2>1. frameLeft = msg.block - (Done % msg.block) /\ Done % msg.block \in 0..(msg.block - 1)
    BY InBlock
  <2> DEFINE x == Done
             m == msg.block
  <2>2. x \in Nat /\ m \in Nat \ {0} /\ b \in Nat /\ (x % m) + b < m
    <3>1. b < frameLeft
      BY <1>1, <1>2, <1>3
    <3>2. frameLeft = m - (x % m) /\ x % m \in 0..(m - 1)
      BY <2>1
    <3>3. x \in Nat /\ m \in Nat \ {0} /\ b \in Nat /\ frameLeft \in Nat
      BY <1>1
    <3> HIDE DEF x, m
    <3> QED BY <3>1, <3>2, <3>3
  <2>3. (x + b) % m = (x % m) + b
    <3> HIDE DEF x, m
    <3> QED BY <2>2, DivWithin
  <2>4. x % m \in Nat
    BY <2>1
  <2> HIDE DEF x, m
  <2>5. (x + b) % m # 0
    BY <1>3, <2>2, <2>3, <2>4
  <2> QED BY <2>5 DEF x, m
<1>10. ~(at >= Total(msg.seg))
  BY <1>1, <1>5, <1>6
<1> QED BY <1>5, <1>7, <1>8, <1>9, <1>10 DEF Starts

LEMMA NextStarts ==
    ASSUME TypeOK, Framed, Progress, AtStart, left > 0, InBuffer, Chunk # left
    PROVE  Starts(Done + Chunk)
<1> DEFINE e == Entered(offset)
           s == Segment
           l == msg.seg
           at == msg.addr + (Done + Chunk)
<1>1. /\ msg.addr \in Nat /\ msg.size \in Nat /\ left \in Nat /\ offset \in Nat /\ Done \in Nat
      /\ msg.block \in Nat \ {0} /\ frameLeft \in 1..msg.block
      /\ offset = msg.addr + Done /\ msg \in Request /\ l \in Layouts
      /\ msg.rule \in {"AllOneFrame", "FramePerDesc"}
  BY StateTypes DEF Framed
<1>2. /\ Chunk \in Nat /\ Chunk <= msg.block /\ Chunk \in 1..left
      /\ Lies(l, s, offset) /\ Before(l)[s] + l[s].size \in Nat
      /\ offset + Chunk <= Before(l)[s] + l[s].size
      /\ msg.rule = "AllOneFrame" => Chunk = msg.block \/ offset + Chunk = Before(l)[s] + l[s].size
      /\ msg.rule = "FramePerDesc" => Chunk = frameLeft \/ offset + Chunk = Before(l)[s] + l[s].size
  BY ChunkFacts
<1>3. at = offset + Chunk /\ at \in Nat /\ msg.addr <= at
  BY <1>1, <1>2
<1>4. CASE offset + Chunk = Before(l)[s] + l[s].size
  <2>1. s \in 1..Len(l) /\ Before(l)[s + 1] = at /\ Len(l) \in Nat
    BY <1>1, <1>2, <1>3, <1>4, LayoutFacts, LayoutTypes DEF Lies
  <2>2. CASE s = Len(l)
    <3>1. at = Total(l)
      BY <2>1, <2>2 DEF Total
    <3>2. at >= Total(l)
      BY <1>3, <3>1
    <3> QED BY <3>2 DEF Starts
  <2>3. CASE s # Len(l)
    <3>1. s + 1 \in 1..Len(l)
      BY <2>1, <2>3
    <3>2. at \in Marks
      BY <2>1, <3>1 DEF Marks
    <3>3. IsEntered(at, at)
      BY <1>1, <1>3, <3>2, MarkTypes DEF IsEntered
    <3>4. Entered(at) = at
      BY <1>1, <1>3, <3>3, EnteredIs
    <3> QED BY <3>4 DEF Starts
  <2> QED BY <2>2, <2>3
<1>5. CASE offset + Chunk # Before(l)[s] + l[s].size /\ msg.rule = "FramePerDesc"
  <2>1. frameLeft = msg.block - (Done % msg.block) /\ Done % msg.block \in 0..(msg.block - 1)
    BY <1>5, InBlock
  <2> DEFINE x == Done
             c == Chunk
             m == msg.block
  <2>2. (x + c) % m = 0
    <3>1. x \in Nat /\ c \in Nat /\ m \in Nat \ {0} /\ c = m - (x % m)
          /\ x % m \in 0..(m - 1)
      BY <1>1, <1>2, <1>5, <2>1
    <3> HIDE DEF x, c, m
    <3>2. (x % m) + c = m
      BY <3>1
    <3> QED BY <3>1, <3>2, DivUpTo
  <2> QED BY <1>5, <2>2 DEF Starts
<1>6. CASE offset + Chunk # Before(l)[s] + l[s].size /\ msg.rule = "AllOneFrame"
  <2>1. Chunk = msg.block /\ offset + Chunk < Before(l)[s] + l[s].size
    BY <1>1, <1>2, <1>6
  <2>2. /\ Entered(at) = e /\ e \in Nat /\ e <= offset
    BY <1>1, <1>2, <1>3, <2>1, EnteredBefore
  <2>3. 0 \in Nat /\ offset + 0 = offset /\ offset + 0 < Before(l)[s] + l[s].size
    BY <1>1, <1>2, <2>1
  <2>4. offset < Total(l) /\ Total(l) \in Nat
    BY <1>1, <2>3, EnteredBefore, LayoutFacts
  <2> DEFINE x == offset - e
             m == msg.block
  <2>5. x % m = 0 /\ x \in Nat /\ m \in Nat \ {0}
    BY <1>1, <1>6, <2>2, <2>4, OnBlock
  <2>6. at - e = x + m
    BY <1>1, <1>2, <1>3, <2>1, <2>2
  <2>7. (x + m) % m = 0
    <3> HIDE DEF x, m
    <3> QED BY <2>5, SMTT(30)
  <2>8. (at - e) % m = 0
    BY <2>6, <2>7, Zenon
  <2>9. (at - Entered(at)) % msg.block = 0
    BY <2>2, <2>8, Zenon
  <2> QED BY <1>6, <2>9, Zenon DEF Starts
<1> QED BY <1>1, <1>4, <1>5, <1>6
-----------------------------------------------------------------------------
(* The place in the frames after a chunk that stays in one.                 *)
LEMMA FrameStep ==
    ASSUME NEW x \in Nat, NEW m \in Nat \ {0}, NEW c \in 1..m, (x % m) + c <= m
    PROVE  /\ (x % m) + c = m => (x + c) % m = 0 /\ (x + c) \div m = x \div m + 1
           /\ (x % m) + c # m =>
                 /\ (x + c) % m = (x % m) + c /\ (x + c) % m # 0
                 /\ (x + c) \div m = x \div m
           /\ ((x + c) - 1) \div m = x \div m
           /\ (x + c + m - 1) \div m = x \div m + 1
<1>1. x % m \in 0..(m - 1) /\ x \div m \in Nat
  BY DivMod
<1>2. c \in Nat /\ c - 1 \in Nat /\ (x % m) + (c - 1) < m /\ c > 0
  BY <1>1
<1>3. (x % m) + c = m => (x + c) % m = 0 /\ (x + c) \div m = x \div m + 1
  BY <1>2, DivUpTo
<1>4. ASSUME (x % m) + c # m
      PROVE  (x + c) % m = (x % m) + c /\ (x + c) \div m = x \div m /\ (x + c) % m # 0
  <2>1. (x % m) + c < m
    BY <1>1, <1>2, <1>4
  <2>2. (x + c) % m = (x % m) + c /\ (x + c) \div m = x \div m
    BY <1>2, <2>1, DivWithin
  <2> QED BY <1>1, <1>2, <2>2
<1>5. ((x + c) - 1) \div m = x \div m
  <2> DEFINE d == c - 1
  <2>1. d \in Nat /\ (x % m) + d < m /\ (x + c) - 1 = x + d
    BY <1>2
  <2> HIDE DEF d
  <2>2. (x + d) \div m = x \div m
    BY <2>1, DivWithin
  <2> QED BY <2>1, <2>2, Zenon
<1>6. (x + c + m - 1) \div m = x \div m + 1
  BY DivUp
<1> QED BY <1>3, <1>4, <1>5, <1>6

LEMMA BlockStep ==
    ASSUME TypeOK, Progress, Framed, left > 0, InBuffer, msg.rule = "FramePerDesc"
    PROVE  LET x == Done
               c == Chunk
               m == msg.block
           IN  /\ Eof <=> c = left \/ c = frameLeft
               /\ c = frameLeft => (x + c) % m = 0 /\ (x + c) \div m = x \div m + 1
               /\ c # frameLeft => /\ (x + c) % m = (x % m) + c /\ (x + c) % m # 0
                                   /\ (x + c) \div m = x \div m
               /\ ((x + c) - 1) \div m = x \div m
               /\ (x + c + m - 1) \div m = x \div m + 1
<1> DEFINE x == Done
           c == Chunk
           m == msg.block
<1>1. /\ x % m \in 0..(m - 1) /\ x \div m \in Nat
      /\ frameLeft = m - (x % m) /\ (inFrame <=> x % m # 0)
  BY InBlock
<1>2. x \in Nat /\ m \in Nat \ {0} /\ c \in Nat /\ c <= frameLeft /\ c > 0
  BY ChunkFacts, StateTypes
<1>3. Eof <=> (c = left \/ c = (IF inFrame THEN frameLeft ELSE m))
  BY Zenon DEF Eof
<1>4. ~inFrame => frameLeft = m
  <2> HIDE DEF x, c, m
  <2> QED BY <1>1, <1>2
<1>5. c \in 1..m /\ (x % m) + c <= m /\ (c = frameLeft <=> (x % m) + c = m)
  <2> HIDE DEF x, c, m
  <2> QED BY <1>1, <1>2
<1>6. Eof <=> c = left \/ c = frameLeft
  <2> HIDE DEF x, c, m
  <2> QED BY <1>3, <1>4, Zenon
<1> HIDE DEF x, c, m
<1>7. /\ c = frameLeft => (x + c) % m = 0 /\ (x + c) \div m = x \div m + 1
      /\ c # frameLeft => /\ (x + c) % m = (x % m) + c /\ (x + c) % m # 0
                          /\ (x + c) \div m = x \div m
      /\ ((x + c) - 1) \div m = x \div m
      /\ (x + c + m - 1) \div m = x \div m + 1
  BY <1>2, <1>5, FrameStep
<1> QED BY <1>6, <1>7, Zenon DEF x, c, m

(* Where descriptors start, and where a byte lies, depends on the request.  *)
LEMMA SameStarts ==
    ASSUME UNCHANGED msg, NEW k
    PROVE  Starts(k)' <=> Starts(k)
BY DEF Starts, Entered

LEMMA SamePhysical ==
    ASSUME UNCHANGED msg, NEW k
    PROVE  PhysicalByte(k)' = PhysicalByte(k)
BY DEF PhysicalByte

(* What one turn of the loop does, whatever the frame rule.                 *)
LEMMA Turn ==
    ASSUME TypeOK, Progress, Framed, AddDesc
    PROVE  LET n == Len(descs)
               d == descs'[n + 1]
           IN  /\ UNCHANGED <<msg, state>> /\ state = "building"
               /\ left > 0 /\ InBuffer /\ Len(descs) < msg.ring
               /\ Chunk \in Nat /\ Chunk \in 1..left /\ Chunk \in 1..msg.block
               /\ left' = left - Chunk /\ offset' = offset + Chunk /\ Done' = Done + Chunk
               /\ descs' \in Seq(Desc) /\ n \in Nat /\ Len(descs') = n + 1
               /\ \A i \in 1..n : descs'[i] = descs[i]
               /\ d = [addr |-> Address, len |-> Chunk, sof |-> Sof, eof |-> Eof, frame |-> frames]
               /\ \A i \in 1..(n + 1) : Described(descs')[i] = Described(descs)[i]
               /\ Described(descs)[n + 1] = Done
               /\ Described(descs')[Len(descs') + 1] = Done + Chunk
<1> DEFINE n == Len(descs)
           d == [addr |-> Address, len |-> Chunk, sof |-> Sof, eof |-> Eof, frame |-> frames]
<1>1. /\ UNCHANGED <<msg, state>> /\ state = "building"
      /\ left > 0 /\ InBuffer /\ Len(descs) < msg.ring /\ descs' = Append(descs, d)
      /\ left' = left - Chunk /\ offset' = offset + Chunk
  BY DEF AddDesc
<1>2. /\ left \in Nat /\ msg.block \in Nat \ {0} /\ msg.size \in Nat /\ frames \in Nat
      /\ Done \in Nat /\ Done = msg.size - left
  BY StateTypes
<1>3. Chunk \in 1..left /\ Chunk <= msg.block /\ Address \in Nat
  BY <1>1, ChunkFacts
<1>4. Chunk \in Nat /\ Chunk \in 1..msg.block
  BY <1>2, <1>3
<1>5. Done' = Done + Chunk
  <2>1. Done' = msg'.size - left'
    BY DEF Done
  <2> QED BY <1>1, <1>2, <1>4, <2>1
<1>6. Sof \in BOOLEAN /\ Eof \in BOOLEAN
  <2>1. inFrame \in BOOLEAN
    BY DEF TypeOK
  <2>2. Sof \in BOOLEAN
    BY <2>1, Zenon DEF Sof
  <2>3. Eof \in BOOLEAN
    BY Zenon DEF Eof
  <2> QED BY <2>2, <2>3
<1>7. d \in Desc
  BY <1>2, <1>3, <1>4, <1>6 DEF Desc
<1>8. descs \in Seq(Desc)
  BY DEF TypeOK, Desc
<1>9. Described(descs)[n + 1] = Done /\ n \in Nat
  BY <1>8, LenProperties DEF Progress
<1>10. d.len = Chunk
  OBVIOUS
<1> HIDE DEF d
<1>11. /\ descs' \in Seq(Desc) /\ Len(descs') = n + 1
       /\ \A i \in 1..n : descs'[i] = descs[i]
       /\ descs'[n + 1] = d
       /\ \A i \in 1..(n + 1) : Described(descs')[i] = Described(descs)[i]
       /\ Described(descs')[Len(descs') + 1] = Described(descs)[n + 1] + d.len
  BY <1>1, <1>7, <1>8, DescribedAppend
<1> QED BY <1>1, <1>3, <1>4, <1>5, <1>9, <1>10, <1>11 DEF d
-----------------------------------------------------------------------------
(* The invariant holds at the start.                                        *)
LEMMA InitInv == Init => IInv
<1> SUFFICES ASSUME Init PROVE IInv
  OBVIOUS
<1>1. /\ msg \in Request /\ descs = <<>> /\ offset = msg.addr /\ left = msg.size
      /\ frameLeft = msg.block /\ inFrame = FALSE /\ frames = 0 /\ state = "building"
  BY DEF Init
<1>2. /\ msg.addr \in Nat /\ msg.size \in Nat \ {0} /\ msg.block \in Nat \ {0}
      /\ msg.ring \in Nat \ {0} /\ msg.rule \in {"AllOneFrame", "FramePerDesc"}
  BY <1>1, RequestTypes
<1>3. Done = 0
  BY <1>1, <1>2 DEF Done
<1>4. descs \in Seq(Desc) /\ Len(descs) = 0 /\ DOMAIN descs = {} /\ Described(descs)[1] = 0
  <2>1. descs \in Seq(Desc) /\ Len(descs) = 0 /\ DOMAIN descs = {}
    BY <1>1
  <2> QED BY <2>1, DescribedFacts
<1>5. TypeOK
  BY <1>1, <1>2, <1>4 DEF TypeOK, Desc
<1>6. Progress
  BY <1>1, <1>2, <1>3, <1>4 DEF Progress
<1>7. Covered /\ FramesMarked
  BY <1>4 DEF Covered, FramesMarked
<1>8. Framed
  <2>1. 0 % msg.block = 0 /\ 0 \div msg.block = 0
    <3> DEFINE m == msg.block
    <3>1. m \in Nat \ {0}
      BY <1>2
    <3> HIDE DEF m
    <3>2. 0 % m = 0 /\ 0 \div m = 0
      BY <3>1, SMTT(30)
    <3> QED BY <3>2 DEF m
  <2>2. Done % msg.block = 0 /\ Done \div msg.block = 0
    BY <1>3, <2>1, Zenon
  <2>3. frameLeft \in 1..msg.block
    BY <1>1, <1>2
  <2>4. left # 0 /\ msg.block - 0 = msg.block
    BY <1>1, <1>2
  <2> QED BY <1>1, <2>2, <2>3, <2>4 DEF Framed
<1>9. Counted
  <2>1. Started(Done) = {}
    <3>1. 0..(0 - 1) = {}
      OBVIOUS
    <3> QED BY <1>3, <3>1 DEF Started
  <2> QED BY <1>4, <2>1, FS_EmptySet DEF Counted
<1>10. AtStart
  <2>1. msg.addr + Done = msg.addr
    BY <1>2, <1>3
  <2>2. IsEntered(msg.addr, msg.addr)
    <3>1. msg.addr \in Marks
      BY DEF Marks
    <3>2. \A j \in 1..Len(msg.seg) : Before(msg.seg)[j] \notin (msg.addr + 1)..msg.addr
      BY <1>2
    <3> QED BY <1>2, <3>1, <3>2 DEF IsEntered
  <2>3. Entered(msg.addr) = msg.addr
    BY <1>1, <1>2, <2>2, EnteredIs
  <2>4. Starts(Done)
    BY <2>1, <2>3, Zenon DEF Starts
  <2> QED BY <2>4 DEF AtStart
<1>11. Ended
  BY <1>1 DEF Ended
<1> QED BY <1>5, <1>6, <1>7, <1>8, <1>9, <1>10, <1>11 DEF IInv
-----------------------------------------------------------------------------
(* A turn of the loop preserves it, conjunct by conjunct.                   *)

LEMMA TurnFramed ==
    ASSUME TypeOK, Progress, Framed, AddDesc
    PROVE  Framed' /\ inFrame' \in BOOLEAN /\ frames' \in Nat
<1> DEFINE x == Done
           c == Chunk
           m == msg.block
<1>1. /\ msg' = msg /\ left > 0 /\ InBuffer /\ c \in Nat /\ c \in 1..left /\ c \in 1..m
      /\ left' = left - c /\ Done' = x + c
  BY Turn
<1>2. /\ left \in Nat /\ m \in Nat \ {0} /\ msg.size \in Nat /\ frames \in Nat /\ x \in Nat
      /\ x = msg.size - left /\ frameLeft \in Nat
      /\ msg.rule \in {"AllOneFrame", "FramePerDesc"}
  BY StateTypes
<1>3. /\ inFrame' = (msg.rule = "FramePerDesc" /\ ~Eof)
      /\ frameLeft' = IF msg.rule = "AllOneFrame" THEN frameLeft
                      ELSE IF Eof THEN m ELSE frameLeft - c
      /\ frames' = IF Eof THEN frames + 1 ELSE frames
  BY DEF AddDesc, FrameAfter
<1>4. frameLeft \in 1..m
  BY DEF Framed
<1>5. inFrame' \in BOOLEAN /\ frames' \in Nat
  BY <1>2, <1>3
<1>6. CASE msg.rule = "AllOneFrame"
  <2>1. Eof <=> c = left
    BY <1>6 DEF Eof
  <2>2. frames = 0
    BY <1>1, <1>2, <1>6 DEF Framed
  <2>3. left' = 0 <=> c = left
    BY <1>1, <1>2
  <2>4. ~inFrame' /\ frameLeft' = frameLeft /\ frames' = IF left' = 0 THEN 1 ELSE 0
    <3>1. frames + 1 = 1
      BY <2>2
    <3> QED BY <1>3, <1>6, <2>1, <2>2, <2>3, <3>1, Zenon
  <2> HIDE DEF x, c, m
  <2>5. msg'.rule = "AllOneFrame" /\ msg'.rule # "FramePerDesc" /\ frameLeft' \in 1..msg'.block
    BY <1>1, <1>4, <1>6, <2>4 DEF m
  <2> QED BY <1>5, <2>4, <2>5, Zenon DEF Framed
<1>7. CASE msg.rule = "FramePerDesc"
  <2>1. /\ Eof <=> c = left \/ c = frameLeft
        /\ c = frameLeft => (x + c) % m = 0 /\ (x + c) \div m = x \div m + 1
        /\ c # frameLeft => /\ (x + c) % m = (x % m) + c /\ (x + c) % m # 0
                            /\ (x + c) \div m = x \div m
        /\ (x + c + m - 1) \div m = x \div m + 1
    BY <1>1, <1>7, BlockStep
  <2>2. /\ x % m \in 0..(m - 1) /\ x \div m \in Nat
        /\ frameLeft = m - (x % m) /\ frames = x \div m
    BY <1>1, <1>7, InBlock
  <2>3. msg.rule # "AllOneFrame" /\ c <= frameLeft
    BY <1>1, <1>7, ChunkFacts
  <2>4. msg'.rule = "FramePerDesc" /\ msg'.rule # "AllOneFrame" /\ msg'.block = m /\ msg'.size = msg.size
    BY <1>1, <1>7
  <2> HIDE DEF x, c, m
  <2>5. CASE c = left
    <3>1. left' = 0 /\ x + c = msg.size
      BY <1>1, <1>2, <2>5
    <3>2. frames' = (msg.size + m - 1) \div m
      <4>1. frames' = x \div m + 1
        BY <1>3, <2>1, <2>2, <2>5, Zenon
      <4> QED BY <2>1, <3>1, <4>1, Zenon
    <3>3. frameLeft' = m /\ m \in 1..m
      BY <1>2, <1>3, <2>1, <2>3, <2>5
    <3> QED BY <1>5, <2>4, <3>1, <3>2, <3>3, Zenon DEF Framed
  <2>6. CASE c # left /\ c = frameLeft
    <3>1. left' # 0
      BY <1>1, <1>2, <2>6
    <3>2. frames' = (x + c) \div m /\ (x + c) % m = 0 /\ inFrame' = FALSE /\ frameLeft' = m
      BY <1>3, <2>1, <2>2, <2>3, <2>6, Zenon
    <3>3. m - 0 = m /\ m \in 1..m
      BY <1>2
    <3>4. /\ frames' = Done' \div m /\ frameLeft' = m - (Done' % m)
          /\ inFrame' <=> Done' % m # 0
      BY <1>1, <3>2, <3>3, Zenon
    <3>5. frameLeft' \in 1..m
      BY <3>2, <3>3
    <3>8. /\ frames' = Done' \div msg'.block /\ frameLeft' = msg'.block - (Done' % msg'.block)
          /\ inFrame' <=> Done' % msg'.block # 0
      BY <2>4, <3>4, Zenon
    <3>9. frameLeft' \in 1..msg'.block
      BY <2>4, <3>5, Zenon
    <3> QED BY <1>5, <2>4, <3>1, <3>8, <3>9, Zenon DEF Framed
  <2>7. CASE c # left /\ c # frameLeft
    <3>1. left' # 0
      BY <1>1, <1>2, <2>7
    <3>2. /\ frames' = (x + c) \div m /\ (x + c) % m # 0 /\ inFrame' = TRUE
          /\ frameLeft' = frameLeft - c
      BY <1>3, <1>7, <2>1, <2>2, <2>3, <2>7, Zenon
    <3>3. (x + c) % m = (x % m) + c
      BY <2>1, <2>7
    <3>4. frameLeft - c = m - ((x % m) + c) /\ frameLeft - c \in 1..m
      BY <1>1, <1>2, <2>2, <2>3, <2>7
    <3>5. frameLeft' = m - ((x + c) % m)
      BY <3>2, <3>3, <3>4, Zenon
    <3>6. /\ frames' = Done' \div m /\ frameLeft' = m - (Done' % m)
          /\ inFrame' <=> Done' % m # 0
      BY <1>1, <3>2, <3>5, Zenon
    <3>7. frameLeft' \in 1..m
      BY <3>2, <3>4
    <3>8. /\ frames' = Done' \div msg'.block /\ frameLeft' = msg'.block - (Done' % msg'.block)
          /\ inFrame' <=> Done' % msg'.block # 0
      BY <2>4, <3>6, Zenon
    <3>9. frameLeft' \in 1..msg'.block
      BY <2>4, <3>7, Zenon
    <3> QED BY <1>5, <2>4, <3>1, <3>8, <3>9, Zenon DEF Framed
  <2> QED BY <1>5, <2>5, <2>6, <2>7
<1> QED BY <1>2, <1>6, <1>7

LEMMA TurnTypes ==
    ASSUME TypeOK, Progress, Framed, AddDesc
    PROVE  TypeOK'
<1>1. Framed' /\ inFrame' \in BOOLEAN /\ frames' \in Nat
  BY TurnFramed
<1>2. /\ msg' = msg /\ state' = state /\ state = "building" /\ Chunk \in Nat /\ Chunk \in 1..left
      /\ left' = left - Chunk /\ offset' = offset + Chunk /\ descs' \in Seq(Desc)
  BY Turn
<1>3. msg \in Request /\ left \in Nat /\ offset \in Nat /\ msg.block \in Nat
  BY StateTypes
<1>4. left' \in Nat /\ offset' \in Nat
  BY <1>2, <1>3
<1>5. frameLeft' \in Nat
  BY <1>1, <1>2, <1>3 DEF Framed
<1> QED BY <1>1, <1>2, <1>3, <1>4, <1>5 DEF TypeOK, Desc

LEMMA TurnProgress ==
    ASSUME TypeOK, Progress, Framed, AddDesc
    PROVE  Progress'
<1> DEFINE n == Len(descs)
           c == Chunk
           s == Segment
           l == msg.seg
<1>1. /\ msg' = msg /\ left > 0 /\ InBuffer /\ n < msg.ring /\ c \in Nat /\ c \in 1..left
      /\ left' = left - c /\ offset' = offset + c /\ Done' = Done + c
      /\ n \in Nat /\ Len(descs') = n + 1 /\ descs' \in Seq(Desc)
      /\ Described(descs')[Len(descs') + 1] = Done + c
  BY Turn
<1>2. /\ left \in Nat /\ Done \in Nat /\ msg.size \in Nat /\ left <= msg.size /\ l \in Layouts
      /\ offset = msg.addr + Done /\ msg.addr \in Nat /\ msg.ring \in Nat /\ offset \in Nat
      /\ Total(l) \in Nat
  BY StateTypes
<1>3. left' <= msg'.size /\ offset' = msg'.addr + Done' /\ Len(descs') <= msg'.ring /\ Done' # 0
  <2>1. msg'.size = msg.size /\ msg'.addr = msg.addr /\ msg'.ring = msg.ring
    BY <1>1
  <2> DEFINE z == msg.size
             a == msg.addr
             r == msg.ring
             x == Done
  <2>2. /\ left - c <= z /\ offset + c = a + (x + c) /\ n + 1 <= r /\ x + c # 0
    <3>1. /\ left \in Nat /\ x \in Nat /\ z \in Nat /\ a \in Nat /\ r \in Nat /\ n \in Nat
          /\ c \in Nat /\ c > 0 /\ left <= z /\ offset = a + x /\ n < r
      BY <1>1, <1>2
    <3> HIDE DEF z, a, r, x, c, n
    <3> QED BY <3>1
  <2> QED BY <1>1, <2>1, <2>2, Zenon
<1>4. descs' # <<>>
  BY <1>1, EmptySeq
<1>5. offset' <= Total(l)
  <2>1. Lies(l, s, offset) /\ offset + c <= Before(l)[s] + l[s].size
    BY <1>1, ChunkFacts
  <2>2. s \in 1..Len(l) /\ Len(l) \in Nat /\ s + 1 \in 1..(Len(l) + 1)
        /\ Len(l) + 1 \in 1..(Len(l) + 1) /\ s + 1 <= Len(l) + 1
    BY <1>2, <2>1, LayoutTypes DEF Lies
  <2>3. Before(l)[s] + l[s].size = Before(l)[s + 1] /\ Before(l)[s + 1] <= Total(l)
        /\ Before(l)[s + 1] \in Nat
    BY <1>2, <2>2, LayoutFacts DEF Total
  <2> HIDE DEF s, c
  <2> QED BY <1>1, <1>2, <2>1, <2>3
<1> HIDE DEF n, c, s
<1>6. Total(msg.seg)' = Total(l) /\ Described(descs)[Len(descs) + 1]' = Done'
  BY <1>1
<1> QED BY <1>3, <1>4, <1>5, <1>6 DEF Progress

LEMMA TurnCovered ==
    ASSUME TypeOK, Progress, Framed, Covered, AddDesc
    PROVE  Covered'
<1> DEFINE n == Len(descs)
<1>1. /\ msg' = msg /\ left > 0 /\ InBuffer /\ Chunk \in Nat /\ Chunk \in 1..msg.block
      /\ n \in Nat /\ Len(descs') = n + 1 /\ descs' \in Seq(Desc)
      /\ \A i \in 1..n : descs'[i] = descs[i]
      /\ descs'[n + 1] = [addr |-> Address, len |-> Chunk, sof |-> Sof, eof |-> Eof,
                          frame |-> frames]
      /\ \A i \in 1..(n + 1) : Described(descs')[i] = Described(descs)[i]
      /\ Described(descs)[n + 1] = Done
  BY Turn
<1>2. DOMAIN descs = 1..n /\ DOMAIN descs' = 1..(n + 1) /\ n + 1 \in 1..(n + 1)
      /\ \A i \in 1..(n + 1) : i \in 1..n \/ i = n + 1
  <2>1. descs \in Seq(Desc)
    BY DEF TypeOK, Desc
  <2> QED BY <1>1, <2>1, LenProperties
<1>3. ASSUME NEW i \in 1..n
      PROVE  /\ descs'[i].len \in 1..msg.block
             /\ \A b \in 0..(descs'[i].len - 1) :
                   descs'[i].addr + b = PhysicalByte(Described(descs')[i] + b)
  <2>1. descs'[i] = descs[i] /\ Described(descs')[i] = Described(descs)[i]
    <3>1. i \in 1..(n + 1)
      BY <1>1
    <3> QED BY <1>1, <3>1
  <2>2. i \in DOMAIN descs
    BY <1>2
  <2> QED BY <2>1, <2>2, Zenon DEF Covered
<1>4. /\ descs'[n + 1].len \in 1..msg.block
      /\ \A b \in 0..(descs'[n + 1].len - 1) :
            descs'[n + 1].addr + b = PhysicalByte(Described(descs')[n + 1] + b)
  <2>1. descs'[n + 1].len = Chunk /\ descs'[n + 1].addr = Address
        /\ Described(descs')[n + 1] = Done
    BY <1>1, <1>2
  <2>2. \A b \in 0..(Chunk - 1) : Address + b = PhysicalByte(Done + b)
    BY <1>1, ChunkPlace
  <2> QED BY <1>1, <2>1, <2>2, Zenon
<1>5. \A i \in DOMAIN descs' :
        /\ descs'[i].len \in 1..msg.block
        /\ \A b \in 0..(descs'[i].len - 1) :
              descs'[i].addr + b = PhysicalByte(Described(descs')[i] + b)
  BY <1>2, <1>3, <1>4, Zenon
<1>6. \A k : PhysicalByte(k)' = PhysicalByte(k)
  BY <1>1, SamePhysical
<1> QED BY <1>1, <1>5, <1>6, Zenon DEF Covered

LEMMA TurnMarked ==
    ASSUME TypeOK, Progress, Framed, FramesMarked, AddDesc
    PROVE  FramesMarked'
<1> DEFINE n == Len(descs)
           Marked(i) == LET start == Described(descs')[i]
                            end == start + descs'[i].len
                        IN /\ descs'[i].sof <=> start % FrameSize = 0
                           /\ descs'[i].eof <=> (end % FrameSize = 0 \/ end = msg.size)
                           /\ descs'[i].frame = start \div FrameSize
                           /\ start \div FrameSize = (end - 1) \div FrameSize
<1>1. /\ msg' = msg /\ left > 0 /\ InBuffer /\ Chunk \in Nat /\ Chunk \in 1..msg.block
      /\ Chunk \in 1..left
      /\ n \in Nat /\ Len(descs') = n + 1 /\ descs' \in Seq(Desc)
      /\ \A i \in 1..n : descs'[i] = descs[i]
      /\ descs'[n + 1] = [addr |-> Address, len |-> Chunk, sof |-> Sof, eof |-> Eof,
                          frame |-> frames]
      /\ \A i \in 1..(n + 1) : Described(descs')[i] = Described(descs)[i]
      /\ Described(descs)[n + 1] = Done
  BY Turn
<1>2. DOMAIN descs = 1..n /\ DOMAIN descs' = 1..(n + 1) /\ n + 1 \in 1..(n + 1)
      /\ \A i \in 1..(n + 1) : i \in 1..n \/ i = n + 1
  <2>1. descs \in Seq(Desc)
    BY DEF TypeOK, Desc
  <2> QED BY <1>1, <2>1, LenProperties
<1>3. ASSUME NEW i \in 1..n PROVE Marked(i)
  <2>1. descs'[i] = descs[i] /\ Described(descs')[i] = Described(descs)[i]
    <3>1. i \in 1..(n + 1)
      BY <1>1
    <3> QED BY <1>1, <3>1
  <2>2. i \in DOMAIN descs
    BY <1>2
  <2> QED BY <2>1, <2>2, Zenon DEF FramesMarked
<1>4. /\ msg.size \in Nat \ {0} /\ left \in Nat /\ Done \in Nat /\ Done = msg.size - left
      /\ msg.block \in Nat \ {0} /\ msg.rule \in {"AllOneFrame", "FramePerDesc"}
      /\ inFrame \in BOOLEAN /\ left # 0
  BY <1>1, StateTypes DEF TypeOK
<1>5. ASSUME Sof <=> Done % FrameSize = 0,
             Eof <=> ((Done + Chunk) % FrameSize = 0 \/ Done + Chunk = msg.size),
             frames = Done \div FrameSize,
             Done \div FrameSize = ((Done + Chunk) - 1) \div FrameSize
      PROVE  Marked(n + 1)
  <2>1. descs'[n + 1].len = Chunk /\ descs'[n + 1].sof = Sof /\ descs'[n + 1].eof = Eof
        /\ descs'[n + 1].frame = frames
        /\ Described(descs')[n + 1] = Done
    BY <1>1, <1>2
  <2> QED BY <1>5, <2>1, Zenon
<1> HIDE DEF Marked
<1>6. Marked(n + 1)
  <2>1. CASE msg.rule = "AllOneFrame"
    <3> DEFINE x == Done
               c == Chunk
               m == msg.size
    <3>1. FrameSize = m
      BY <2>1 DEF FrameSize
    <3>2. /\ Sof <=> descs = <<>>
          /\ Eof <=> c = left
          /\ descs = <<>> <=> x = 0
          /\ frames = 0
      BY <1>4, <2>1 DEF Sof, Eof, Progress, Framed
    <3>3. /\ x \in Nat /\ m \in Nat \ {0} /\ c \in Nat /\ c > 0 /\ left \in Nat /\ c <= left
          /\ x = m - left /\ left > 0
      BY <1>1, <1>4
    <3> HIDE DEF x, c, m
    <3>4. x \in 0..(m - 1) /\ x + c \in Nat /\ x + c <= m /\ (x + c) - 1 \in 0..(m - 1)
          /\ x + c > 0 /\ (c = left <=> x + c = m)
      BY <3>3
    <3>5. x % m = x /\ x \div m = 0 /\ ((x + c) - 1) \div m = 0
      <4> DEFINE y == (x + c) - 1
      <4>1. y \in 0..(m - 1)
        BY <3>4
      <4> HIDE DEF y
      <4>2. y \div m = 0
        BY <3>3, <4>1, DivSmall
      <4>3. x % m = x /\ x \div m = 0
        BY <3>3, <3>4, DivSmall
      <4> QED BY <4>2, <4>3, Zenon DEF y
    <3>6. (x + c) % m = 0 => x + c = m
      <4> DEFINE y == x + c
      <4>1. y \in Nat /\ y <= m /\ y > 0
        BY <3>4
      <4> HIDE DEF y
      <4>2. y # m => y \in 0..(m - 1)
        BY <3>3, <4>1
      <4>3. y # m => y % m = y
        BY <3>3, <4>2, DivSmall
      <4>4. y # 0
        BY <4>1
      <4>5. y % m = 0 => y = m
        BY <4>3, <4>4, Zenon
      <4> QED BY <4>5, Zenon DEF y
    <3>7. Sof <=> x % m = 0
      BY <3>2, <3>5, Zenon
    <3>8. Eof <=> ((x + c) % m = 0 \/ x + c = m)
      BY <3>2, <3>4, <3>6, Zenon
    <3>9. frames = x \div m /\ x \div m = ((x + c) - 1) \div m
      BY <3>2, <3>5, Zenon
    <3> QED BY <1>5, <3>1, <3>7, <3>8, <3>9, Zenon DEF x, c, m
  <2>2. CASE msg.rule = "FramePerDesc"
    <3> DEFINE x == Done
               c == Chunk
               m == msg.block
    <3>1. FrameSize = m /\ msg.rule # "AllOneFrame"
      BY <2>2 DEF FrameSize
    <3>2. Sof <=> x % m = 0
      <4>1. Sof <=> ~inFrame
        BY <3>1 DEF Sof
      <4>2. inFrame <=> x % m # 0
        BY <1>1, <2>2, InBlock
      <4> QED BY <4>1, <4>2, Zenon
    <3>3. /\ Eof <=> c = left \/ c = frameLeft
          /\ c = frameLeft => (x + c) % m = 0
          /\ c # frameLeft => (x + c) % m # 0
          /\ ((x + c) - 1) \div m = x \div m
      BY <1>1, <2>2, BlockStep
    <3>4. frames = x \div m
      BY <1>1, <2>2, InBlock
    <3>5. c = left <=> x + c = msg.size
      <4> DEFINE z == msg.size
      <4>1. z \in Nat /\ left \in Nat /\ x \in Nat /\ x = z - left /\ c \in Nat
        BY <1>1, <1>4
      <4> HIDE DEF x, c, z
      <4> QED BY <4>1 DEF z
    <3>6. Eof <=> ((x + c) % m = 0 \/ x + c = msg.size)
      BY <3>3, <3>5, Zenon
    <3> QED BY <1>5, <3>1, <3>2, <3>3, <3>4, <3>6, Zenon
  <2> QED BY <1>4, <2>1, <2>2
<1>7. \A i \in DOMAIN descs' : Marked(i)
  BY <1>2, <1>3, <1>6, Zenon
<1>8. FrameSize' = FrameSize
  BY <1>1 DEF FrameSize
<1> QED BY <1>1, <1>7, <1>8, Zenon DEF FramesMarked, Marked

(* The bytes of a chunk after its first start nothing.                      *)
LEMMA TurnCounted ==
    ASSUME TypeOK, Progress, Framed, Counted, AtStart, AddDesc
    PROVE  Counted'
<1> DEFINE x == Done
           c == Chunk
<1>1. /\ msg' = msg /\ left > 0 /\ InBuffer /\ c \in Nat /\ c \in 1..left
      /\ Done' = x + c /\ Len(descs') = Len(descs) + 1 /\ x \in Nat
  BY Turn, StateTypes
<1>2. Starts(x)
  BY <1>1 DEF AtStart
<1>3. \A b \in 1..(c - 1) : ~Starts(x + b)
  BY <1>1, InsideNoStart
<1>4. Started(x + c) = Started(x) \cup {x}
  <2> HIDE DEF x, c
  <2>1. ASSUME NEW k \in 0..((x + c) - 1), Starts(k) PROVE k \in Started(x) \cup {x}
    <3>1. CASE k < x
      <4>1. k \in 0..(x - 1)
        BY <1>1, <3>1
      <4> QED BY <2>1, <4>1 DEF Started
    <3>2. CASE k > x
      <4>1. k - x \in 1..(c - 1) /\ x + (k - x) = k
        BY <1>1, <3>2
      <4>2. ~Starts(x + (k - x))
        BY <1>3, <4>1
      <4> QED BY <2>1, <4>1, <4>2
    <3>3. CASE k = x
      BY <3>3
    <3> QED BY <1>1, <3>1, <3>2, <3>3
  <2>2. ASSUME NEW k \in 0..(x - 1) PROVE k \in 0..((x + c) - 1)
    BY <1>1, <2>2
  <2>3. x \in 0..((x + c) - 1)
    BY <1>1
  <2> QED BY <1>2, <2>1, <2>2, <2>3 DEF Started
<1>5. IsFiniteSet(Started(x)) /\ x \notin Started(x)
  <2> HIDE DEF x
  <2>1. IsFiniteSet(0..(x - 1))
    BY <1>1, FS_Interval
  <2>2. Started(x) \subseteq 0..(x - 1)
    BY DEF Started
  <2>3. x \notin 0..(x - 1)
    BY <1>1
  <2> QED BY <2>1, <2>2, <2>3, FS_Subset
<1>6. Cardinality(Started(x + c)) = Cardinality(Started(x)) + 1
  BY <1>4, <1>5, FS_AddElement
<1>7. Started(Done)' = Started(x + c)
  <2>1. \A k : Starts(k)' <=> Starts(k)
    BY <1>1, SameStarts
  <2> QED BY <1>1, <2>1, Zenon DEF Started
<1> QED BY <1>1, <1>6, <1>7 DEF Counted

LEMMA TurnAtStart ==
    ASSUME TypeOK, Progress, Framed, AtStart, AddDesc
    PROVE  AtStart'
<1>1. /\ msg' = msg /\ left > 0 /\ InBuffer /\ Chunk \in Nat /\ Chunk \in 1..left
      /\ left' = left - Chunk /\ Done' = Done + Chunk /\ left \in Nat
  BY Turn, StateTypes
<1>2. ASSUME left' > 0 PROVE Starts(Done)'
  <2>1. Chunk # left
    BY <1>1, <1>2
  <2>2. Starts(Done + Chunk)
    BY <1>1, <2>1, NextStarts
  <2>3. \A k : Starts(k)' <=> Starts(k)
    BY <1>1, SameStarts
  <2>4. Starts(Done)' <=> Starts(Done + Chunk)
    BY <1>1, <2>3, Zenon
  <2> QED BY <2>2, <2>4, Zenon
<1> QED BY <1>2 DEF AtStart

(* A place that is in no segment is past the end of the buffer.             *)
LEMMA Outside ==
    ASSUME TypeOK, ~InBuffer
    PROVE  offset >= Total(msg.seg)
<1>1. msg.seg \in Layouts /\ offset \in Nat
  BY RequestTypes DEF TypeOK
<1>2. Total(msg.seg) \in Nat
  BY <1>1, LayoutFacts
<1>3. SUFFICES ASSUME offset < Total(msg.seg) PROVE FALSE
  BY <1>1, <1>2
<1>4. PICK i \in 1..Len(msg.seg) : Lies(msg.seg, i, offset)
  BY <1>1, <1>3, LayoutFacts
<1> QED BY <1>4 DEF InBuffer, Holds, Lies

(* A step that changes the state alone keeps the rest.                      *)
LEMMA OnlyState ==
    ASSUME UNCHANGED <<msg, descs, offset, left, frameLeft, inFrame, frames>>,
           Progress, Covered, Framed, FramesMarked, Counted, AtStart
    PROVE  (Progress /\ Covered /\ Framed /\ FramesMarked /\ Counted /\ AtStart)'
<1>1. Done' = Done
  BY DEF Done
<1>2. \A k : Starts(k)' <=> Starts(k)
  BY SameStarts
<1>3. \A k : PhysicalByte(k)' = PhysicalByte(k)
  BY SamePhysical
<1>4. FrameSize' = FrameSize
  BY DEF FrameSize
<1>5. Progress'
  BY <1>1 DEF Progress
<1>6. Covered'
  BY <1>3, Zenon DEF Covered
<1>7. Framed'
  BY <1>1, Zenon DEF Framed
<1>8. FramesMarked'
  BY <1>4, Zenon DEF FramesMarked
<1>9. Counted' /\ AtStart'
  <2>1. Started(Done)' = Started(Done)
    BY <1>1, <1>2, Zenon DEF Started
  <2>2. Starts(Done)' <=> Starts(Done)
    BY <1>1, <1>2, Zenon
  <2>3. Counted'
    BY <2>1, Zenon DEF Counted
  <2>4. AtStart'
    BY <2>2, Zenon DEF AtStart
  <2> QED BY <2>3, <2>4
<1> QED BY <1>5, <1>6, <1>7, <1>8, <1>9

LEMMA StepInv ==
    ASSUME IInv, [Next]_vars
    PROVE  IInv'
<1> USE DEF IInv
<1>1. CASE AddDesc
  <2>1. Ended'
    <3>1. state' = "building"
      BY <1>1, Turn
    <3> QED BY <3>1 DEF Ended
  <2> QED BY <1>1, <2>1, TurnTypes, TurnProgress, TurnCovered, TurnFramed, TurnMarked,
             TurnCounted, TurnAtStart
<1>2. CASE OutOfBuffer
  <2>1. /\ UNCHANGED <<msg, descs, offset, left, frameLeft, inFrame, frames>>
        /\ state' = "DATA_RANGE" /\ left > 0 /\ ~InBuffer
    BY <1>2 DEF OutOfBuffer
  <2>2. TypeOK'
    BY <2>1 DEF TypeOK
  <2>3. Ended'
    <3>1. offset >= Total(msg.seg)
      BY <2>1, Outside
    <3> QED BY <2>1, <3>1 DEF Ended
  <2> QED BY <2>1, <2>2, <2>3, OnlyState
<1>3. CASE Finish
  <2>1. /\ UNCHANGED <<msg, descs, offset, left, frameLeft, inFrame, frames>>
        /\ left = 0 \/ Len(descs) = msg.ring
        /\ state' = IF left = 0 THEN "built" ELSE "DESC_RANGE"
    BY <1>3 DEF Finish
  <2>2. TypeOK'
    BY <2>1 DEF TypeOK
  <2>3. left \in Nat
    BY DEF TypeOK
  <2>4. Ended'
    BY <2>1, <2>3 DEF Ended
  <2> QED BY <2>1, <2>2, <2>4, OnlyState
<1>4. CASE UNCHANGED vars
  <2>1. UNCHANGED <<msg, descs, offset, left, frameLeft, inFrame, frames>> /\ state' = state
    BY <1>4 DEF vars
  <2>2. TypeOK'
    BY <2>1 DEF TypeOK
  <2>3. Ended'
    BY <2>1 DEF Ended
  <2> QED BY <2>1, <2>2, <2>3, OnlyState
<1> QED BY <1>1, <1>2, <1>3, <1>4 DEF Next
-----------------------------------------------------------------------------
(* The loop of zynqmp_dma_build_desc: what is described so far, in what     *)
(* memory, with what frame marks, and why the next descriptor cannot start  *)
(* anywhere else.                                                           *)
THEOREM BuildInvariant == Spec => []IInv
<1>1. Init => IInv
  BY InitInv
<1>2. IInv /\ [Next]_vars => IInv'
  BY StepInv
<1> QED BY <1>1, <1>2, PTL DEF Spec

(* The variables keep their types: no subtraction of the loop goes below 0.  *)
THEOREM TypeCorrect == Spec => []TypeOK
<1>1. IInv => TypeOK
  BY DEF IInv
<1> QED BY <1>1, BuildInvariant, PTL

(* The descriptors written for any region of any buffer move byte k of the  *)
(* region to or from where byte k lies, each byte once and none outside.    *)
THEOREM CoverCorrect == Spec => []ExactCover
<1>1. ASSUME IInv PROVE ExactCover
  <2>1. TypeOK /\ Progress /\ Covered /\ Ended
    BY <1>1 DEF IInv
  <2>2. ASSUME state = "built" PROVE Described(descs)[Len(descs) + 1] = msg.size
    <3>1. left = 0 /\ msg.size \in Nat /\ Done = msg.size - left
      BY <2>1, <2>2, StateTypes DEF Ended
    <3>2. Done = msg.size
      BY <3>1
    <3> QED BY <2>1, <3>2 DEF Progress
  <2> QED BY <2>1, <2>2, Zenon DEF ExactCover, Covered
<1> QED BY <1>1, BuildInvariant, PTL

(* Frames of any length start and end in the descriptors that hold their    *)
(* first and last bytes, and are numbered in order.                         *)
THEOREM FramesCorrect == Spec => []FramesMarked
<1>1. IInv => FramesMarked
  BY DEF IInv
<1> QED BY <1>1, BuildInvariant, PTL

(* A build is refused only when it must be, and takes the least number of   *)
(* descriptors the segments, the block size and the frames allow.           *)
THEOREM RefusedCorrect == Spec => []Refused
<1>1. ASSUME IInv PROVE Refused
  <2>1. TypeOK /\ Progress /\ Framed /\ Counted /\ AtStart /\ Ended
    BY <1>1 DEF IInv
  <2> DEFINE z == msg.size
             a == msg.addr
             r == msg.ring
             t == Total(msg.seg)
             n == Len(descs)
  <2>2. /\ left \in Nat /\ z \in Nat \ {0} /\ a \in Nat /\ r \in Nat /\ Done \in Nat /\ t \in Nat
        /\ offset \in Nat /\ Done = z - left /\ left <= z /\ offset = a + Done /\ n \in Nat
        /\ msg.rule \in {"AllOneFrame", "FramePerDesc"}
    <3>1. descs \in Seq(Desc)
      BY <2>1 DEF TypeOK, Desc
    <3> QED BY <2>1, <3>1, StateTypes, LenProperties
  <2>3. Needed = Cardinality(Started(z))
    BY DEF Needed, Started
  <2>4. Cardinality(Started(Done)) = n
    BY <2>1 DEF Counted
  <2>5. state = "DATA_RANGE" => a + z > t
    <3> SUFFICES ASSUME state = "DATA_RANGE" PROVE a + z > t
      OBVIOUS
    <3>1. left > 0 /\ offset >= t
      BY <2>1 DEF Ended
    <3> HIDE DEF z, a, t
    <3> QED BY <2>2, <3>1
  <2>6. state = "DESC_RANGE" => Needed > r
    <3> SUFFICES ASSUME state = "DESC_RANGE" PROVE Needed > r
      OBVIOUS
    <3>1. left > 0 /\ n = r
      BY <2>1 DEF Ended
    <3>2. Starts(Done)
      BY <2>1, <3>1 DEF AtStart
    <3> DEFINE x == Done
    <3>3. /\ IsFiniteSet(0..(x - 1)) /\ IsFiniteSet(0..(z - 1))
          /\ x \notin 0..(x - 1) /\ x \in 0..(z - 1)
          /\ 0..(x - 1) \subseteq 0..(z - 1)
      <4>1. x \in Nat /\ z \in Nat /\ x < z
        BY <2>2, <3>1
      <4> HIDE DEF x, z
      <4> QED BY <4>1, FS_Interval
    <3> HIDE DEF x, z
    <3>4. /\ Started(x) \subseteq 0..(x - 1) /\ Started(z) \subseteq 0..(z - 1)
          /\ Started(x) \cup {x} \subseteq Started(z) /\ x \notin Started(x)
      BY <3>2, <3>3 DEF Started, x
    <3>5. IsFiniteSet(Started(x)) /\ IsFiniteSet(Started(z))
      BY <3>3, <3>4, FS_Subset
    <3>6. Cardinality(Started(x) \cup {x}) = Cardinality(Started(x)) + 1
      BY <3>4, <3>5, FS_AddElement
    <3>7. Cardinality(Started(x) \cup {x}) <= Cardinality(Started(z))
      BY <3>4, <3>5, FS_Subset
    <3>8. Cardinality(Started(z)) \in Nat /\ Cardinality(Started(x)) = n
      BY <2>4, <3>5, FS_CardinalityType DEF x
    <3> QED BY <2>2, <2>3, <3>1, <3>6, <3>7, <3>8
  <2>7. ASSUME state = "built"
        PROVE  a + z <= t /\ n = Needed /\ Needed <= r
               /\ frames = (z + FrameSize - 1) \div FrameSize
    <3>1. left = 0 /\ Done = z
      <4>1. left = 0
        BY <2>1, <2>7 DEF Ended
      <4> HIDE DEF z
      <4> QED BY <2>2, <4>1
    <3>2. offset <= t /\ n <= r
      <4>1. Done > 0
        BY <2>2, <3>1
      <4> QED BY <2>1, <4>1 DEF Progress
    <3>3. a + z <= t
      BY <2>2, <3>1, <3>2
    <3>4. n = Needed
      BY <2>3, <2>4, <3>1, Zenon
    <3>5. frames = (z + FrameSize - 1) \div FrameSize
      <4>1. CASE msg.rule = "AllOneFrame"
        <5>1. frames = 1 /\ FrameSize = z
          BY <2>1, <3>1, <4>1 DEF Framed, FrameSize
        <5>2. (z + z - 1) \div z = 1
          BY <2>2, DivSelf
        <5> QED BY <5>1, <5>2, Zenon
      <4>2. CASE msg.rule = "FramePerDesc"
        <5>1. FrameSize = msg.block
          BY <4>2 DEF FrameSize
        <5>2. frames = (z + msg.block - 1) \div msg.block
          BY <2>1, <3>1, <4>2, Zenon DEF Framed
        <5> QED BY <5>1, <5>2, Zenon
      <4> QED BY <2>2, <4>1, <4>2
    <3> QED BY <3>2, <3>3, <3>4, <3>5
  <2> QED BY <2>5, <2>6, <2>7, Zenon DEF Refused
<1> QED BY <1>1, BuildInvariant, PTL
=============================================================================
