---------------------------- MODULE Embed_proofs ----------------------------
(***************************************************************************)
(* Theorems about the temporary slot region, for every program, every      *)
(* capacity and every order of the host's calls.                           *)
(***************************************************************************)
EXTENDS Embed, TLAPS

(* The order of the regions, said of every two of them: RegionsNest relates*)
(* neighbours only.                                                        *)
Ordered ==
    /\ \A k \in 1 .. Len(open) : tmpTop <= open[k].base /\ marks[k] <= Capacity
    /\ \A j, k \in 1 .. Len(open) : j < k => marks[k] <= open[j].base

Region == [base : 0 .. Capacity, data : Seq(Values)]

(* tc_embed_slot_capacity_of always leaves room above the declared slots. *)
LEMMA CapacityFacts == Base \in Nat \ {0} /\ Capacity \in Nat /\ Declared < Capacity
  BY EmbedAssumption DEF Base, Capacity

(* The arrays the host lays out are sequences of values.                  *)
LEMMA ArraysAreSequences == ASSUME NEW a \in Arrays PROVE a \in Seq(Values) /\ Len(a) \in 0 .. MaxCount
  <1>1. PICK n \in 0 .. MaxCount : a \in [1 .. n -> Values]
    BY DEF Arrays
  <1> QED
    BY <1>1, EmbedAssumption

(* An index of a sequence that has grown by one is an old one or the last.*)
LEMMA LastOrBefore == \A m \in Nat : \A k \in 1 .. m + 1 : k \in 1 .. m \/ k = m + 1
  OBVIOUS

(* An element of a sequence is in its set.                                *)
LEMMA Element == \A S : \A s \in Seq(S) : \A k \in 1 .. Len(s) : s[k] \in S
  OBVIOUS

(* What replacing one element of a sequence does.                         *)
LEMMA Updated ==
    \A S : \A s \in Seq(S) : \A k \in 1 .. Len(s) : \A e \in S :
        LET t == [s EXCEPT ![k] = e]
        IN  /\ t \in Seq(S) /\ Len(t) = Len(s) /\ t[k] = e
            /\ \A j \in 1 .. Len(s) : j # k => t[j] = s[j]
  OBVIOUS

(* A number below the modulus is its own remainder.                        *)
LEMMA OwnRemainder == \A m \in Nat \ {0} : \A x \in 0 .. m - 1 : x % m = x
  OBVIOUS

(* What is granted fits between the declared slots and the last region:    *)
(* the difference is taken of operands that have been compared.            *)
LEMMA GrantedFits ==
    ASSUME tmpTop \in 0 .. Capacity, NEW n \in Nat, ~Exhausted(n)
    PROVE  n <= tmpTop /\ Declared <= tmpTop - n
  <1>1. n <= tmpTop /\ tmpTop - n \in 0 .. SizeRange - 1 /\ SizeRange \in Nat \ {0}
    BY CapacityFacts, SizeAssumption DEF Exhausted
  <1>2. (tmpTop - n) % SizeRange = tmpTop - n
    BY <1>1, OwnRemainder
  <1> QED
    BY <1>1, <1>2, EmbedAssumption DEF Exhausted

(* Reserving a region below the last one keeps them stacked.               *)
LEMMA PushRegion ==
    ASSUME TypeOK, RegionsNest, Ordered, NEW n \in Nat, ~Exhausted(n), Reserve(n),
           NEW data \in Seq(Values), Len(data) = n, Opened(tmpTop - n, data)
    PROVE  /\ tmpTop' \in 0 .. Capacity /\ marks' \in Seq(0 .. Capacity)
           /\ open' \in Seq([base : 0 .. Capacity, data : Seq(Values)])
           /\ RegionsNest' /\ Ordered'
  <1> USE CapacityFacts, EmbedAssumption
  <1>1. /\ tmpTop \in Nat /\ tmpTop <= Capacity /\ tmpTop' = tmpTop - n
        /\ Declared <= tmpTop - n /\ Len(marks) < MaxDepth
    BY GrantedFits DEF TypeOK, Exhausted, Reserve
  <1>2. marks' = Append(marks, tmpTop) /\ open' = Append(open, [base |-> tmpTop - n, data |-> data])
    BY DEF Reserve, Opened
  <1>3. marks \in Seq(0 .. Capacity) /\ open \in Seq(Region) /\ Len(open) = Len(marks)
    BY DEF TypeOK, RegionsNest, Region
  <1>4. tmpTop' \in 0 .. Capacity /\ marks' \in Seq(0 .. Capacity)
    BY <1>1, <1>2, <1>3
  <1>5. [base |-> tmpTop - n, data |-> data] \in Region
    BY <1>1 DEF Region
  <1>6. open' \in Seq(Region)
    BY <1>2, <1>3, <1>5
  <1>7. /\ Len(marks') = Len(marks) + 1 /\ Len(open') = Len(open) + 1
        /\ marks'[Len(marks) + 1] = tmpTop
        /\ open'[Len(open) + 1].base = tmpTop - n /\ open'[Len(open) + 1].data = data
        /\ \A k \in 1 .. Len(open) : open'[k] = open[k] /\ marks'[k] = marks[k]
    BY <1>2, <1>3
  <1>8. \A k \in 1 .. Len(open) : open[k].base \in Nat /\ Len(open[k].data) \in Nat /\ marks[k] \in Nat
    <2> SUFFICES ASSUME NEW k \in 1 .. Len(open)
                 PROVE  open[k].base \in Nat /\ Len(open[k].data) \in Nat /\ marks[k] \in Nat
      OBVIOUS
    <2>1. open[k] \in Region /\ marks[k] \in 0 .. Capacity
      BY <1>3
    <2>2. open[k].base \in 0 .. Capacity /\ open[k].data \in Seq(Values)
      BY <2>1 DEF Region
    <2> QED
      BY <2>1, <2>2
  <1>9. RegionsNest'
    <2>1. \A k \in 1 .. Len(open') : open'[k].base + Len(open'[k].data) = marks'[k]
      <3> SUFFICES ASSUME NEW k \in 1 .. Len(open')
                   PROVE  open'[k].base + Len(open'[k].data) = marks'[k]
        OBVIOUS
      <3>1. CASE k \in 1 .. Len(open)
        BY <3>1, <1>7 DEF RegionsNest
      <3>2. CASE k = Len(open) + 1
        <4>1. open'[k].base = tmpTop - n /\ open'[k].data = data /\ marks'[k] = tmpTop
          BY <3>2, <1>3, <1>7
        <4>2. Len(open'[k].data) = n
          BY <4>1
        <4>3. tmpTop - n + n = tmpTop
          BY <1>1
        <4> QED
          BY <4>1, <4>2, <4>3
      <3> QED
        BY <3>1, <3>2, <1>3, <1>7
    <2>2. \A k \in 1 .. Len(open') :
            open'[k].base = IF k = Len(marks') THEN tmpTop' ELSE marks'[k + 1]
      <3> SUFFICES ASSUME NEW k \in 1 .. Len(open')
                   PROVE  open'[k].base = IF k = Len(marks') THEN tmpTop' ELSE marks'[k + 1]
        OBVIOUS
      <3>1. CASE k \in 1 .. Len(open) - 1
        <4>1. k \in 1 .. Len(open) /\ k + 1 \in 1 .. Len(open) /\ k # Len(marks)
          BY <3>1, <1>3
        <4>2. open[k].base = marks[k + 1]
          BY <4>1 DEF RegionsNest
        <4>3. open'[k] = open[k] /\ marks'[k + 1] = marks[k + 1]
          BY <4>1, <1>7, <1>3
        <4>4. k # Len(marks')
          BY <3>1, <1>3, <1>7
        <4> QED
          BY <4>2, <4>3, <4>4
      <3>2. CASE k = Len(open)
        BY <3>2, <1>3, <1>7 DEF RegionsNest
      <3>3. CASE k = Len(open) + 1
        BY <3>3, <1>1, <1>3, <1>7
      <3> QED
        BY <3>1, <3>2, <3>3, <1>3, <1>7
    <2>3. marks' # <<>> /\ marks'[1] = Capacity
      BY <1>1, <1>3, <1>7 DEF RegionsNest
    <2> QED
      BY <1>1, <1>3, <1>7, <2>1, <2>2, <2>3 DEF RegionsNest
  <1>10. Ordered'
    <2>1. \A k \in 1 .. Len(open') : tmpTop' <= open'[k].base /\ marks'[k] <= Capacity
      <3> SUFFICES ASSUME NEW k \in 1 .. Len(open')
                   PROVE  tmpTop' <= open'[k].base /\ marks'[k] <= Capacity
        OBVIOUS
      <3>1. CASE k \in 1 .. Len(open)
        <4>1. /\ open'[k].base = open[k].base /\ marks'[k] = marks[k]
              /\ tmpTop <= open[k].base /\ marks[k] <= Capacity
          BY <3>1, <1>7 DEF Ordered
        <4> QED
          BY <3>1, <4>1, <1>1, <1>8
      <3>2. CASE k = Len(open) + 1
        <4>1. open'[k].base = tmpTop - n /\ marks'[k] = tmpTop
          BY <3>2, <1>3, <1>7
        <4> QED
          BY <4>1, <1>1
      <3> QED
        BY <3>1, <3>2, <1>3, <1>7
    <2>2. \A j, k \in 1 .. Len(open') : j < k => marks'[k] <= open'[j].base
      <3> SUFFICES ASSUME NEW j \in 1 .. Len(open'), NEW k \in 1 .. Len(open'), j < k
                   PROVE  marks'[k] <= open'[j].base
        OBVIOUS
      <3>1. j \in 1 .. Len(open) /\ open'[j].base = open[j].base
        <4>1. Len(open) \in Nat /\ Len(open') = Len(open) + 1
          BY <1>3, <1>7
        <4>2. j \in 1 .. Len(open)
          BY <4>1
        <4> QED
          BY <4>2, <1>7
      <3>2. CASE k \in 1 .. Len(open)
        BY <3>1, <3>2, <1>7 DEF Ordered
      <3>3. CASE k = Len(open) + 1
        <4>1. marks'[k] = tmpTop
          BY <3>3, <1>3, <1>7
        <4> QED
          BY <3>1, <4>1 DEF Ordered
      <3>4. Len(open) \in Nat /\ Len(open') = Len(open) + 1
        BY <1>3, <1>7
      <3>5. k \in 1 .. Len(open) + 1
        BY <3>4
      <3>6. k \in 1 .. Len(open) \/ k = Len(open) + 1
        BY <3>4, <3>5, LastOrBefore
      <3> QED
        BY <3>2, <3>3, <3>6
    <2> QED
      BY <2>1, <2>2 DEF Ordered
  <1> QED
    BY <1>4, <1>6, <1>9, <1>10 DEF Region

(* tc_embed_tmp_end restores the mark below, which is the base the region *)
(* before it starts at.                                                   *)
LEMMA PopRegion ==
    ASSUME TypeOK, RegionsNest, Ordered, TmpEnd, open # <<>>
    PROVE  TypeOK' /\ RegionsNest' /\ Ordered'
  <1> USE CapacityFacts, EmbedAssumption
  <1> DEFINE m == Len(open) - 1
  <1>1. /\ marks \in Seq(0 .. Capacity) /\ open \in Seq(Region)
        /\ Len(open) = Len(marks) /\ Len(open) \in Nat \ {0} /\ open # <<>> /\ marks # <<>>
    <2>1. marks \in Seq(0 .. Capacity) /\ open \in Seq(Region) /\ Len(open) = Len(marks) /\ open # <<>>
      BY DEF TypeOK, RegionsNest, Region, TmpEnd
    <2> QED
      BY <2>1
  <1>2. /\ open' = Front(open) /\ marks' = Front(marks) /\ tmpTop' = Last(marks)
        /\ UNCHANGED <<slots, err, rc>>
    BY <1>1 DEF TmpEnd
  <1>3. open' = SubSeq(open, 1, m) /\ marks' = SubSeq(marks, 1, m) /\ tmpTop' = marks[Len(open)]
    BY <1>1, <1>2 DEF Front, Last
  <1>4. /\ Len(open') = m /\ Len(marks') = m /\ m \in Nat
        /\ \A k \in 1 .. m : k \in 1 .. Len(open) /\ open'[k] = open[k] /\ marks'[k] = marks[k]
    BY <1>1, <1>3
  <1>5. open' \in Seq(Region) /\ marks' \in Seq(0 .. Capacity) /\ tmpTop' \in 0 .. Capacity
    BY <1>1, <1>3
  <1>6. TypeOK'
    BY <1>2, <1>5 DEF TypeOK, Region
  <1>7. RegionsNest'
    <2>1. Declared <= tmpTop'
      <3>0. Len(open) \in 1 .. Len(open) /\ Len(open) = Len(marks)
        BY <1>1
      <3>1. open[Len(open)].base = tmpTop /\ tmpTop \in Nat /\ Declared <= tmpTop
        <4>1. tmpTop \in 0 .. Capacity /\ Declared <= tmpTop
          BY DEF RegionsNest, TypeOK
        <4>2. open[Len(open)].base = tmpTop
          BY <3>0 DEF RegionsNest
        <4> QED
          BY <4>1, <4>2
      <3>2. open[Len(open)].base + Len(open[Len(open)].data) = marks[Len(open)]
        BY <1>1 DEF RegionsNest
      <3>3. open[Len(open)] \in Region
        BY <1>1
      <3>4. Len(open[Len(open)].data) \in Nat
        BY <3>3 DEF Region
      <3> QED
        BY <3>1, <3>2, <3>4, <1>3
    <2>2. Len(marks') <= MaxDepth
      BY <1>1, <1>4 DEF RegionsNest
    <2>3. \A k \in 1 .. Len(open') :
            /\ open'[k].base + Len(open'[k].data) = marks'[k]
            /\ open'[k].base = IF k = Len(marks') THEN tmpTop' ELSE marks'[k + 1]
      <3> SUFFICES ASSUME NEW k \in 1 .. m
                   PROVE  /\ open'[k].base + Len(open'[k].data) = marks'[k]
                          /\ open'[k].base = IF k = m THEN tmpTop' ELSE marks'[k + 1]
        BY <1>4
      <3>1. k \in 1 .. Len(open) /\ open'[k] = open[k] /\ marks'[k] = marks[k] /\ k # Len(marks)
        BY <1>1, <1>4
      <3>2. open[k].base + Len(open[k].data) = marks[k] /\ open[k].base = marks[k + 1]
        BY <3>1 DEF RegionsNest
      <3>3. CASE k = m
        BY <3>1, <3>2, <3>3, <1>1, <1>3
      <3>4. CASE k # m
        <4>1. k + 1 \in 1 .. m
          BY <3>4, <1>4
        <4> QED
          BY <3>1, <3>2, <3>4, <4>1, <1>4
      <3> QED
        BY <3>3, <3>4
    <2>4. IF marks' = <<>> THEN tmpTop' = Capacity ELSE marks'[1] = Capacity
      <3>1. marks[1] = Capacity
        BY <1>1 DEF RegionsNest
      <3>2. CASE m = 0
        BY <3>1, <3>2, <1>1, <1>3, <1>4, <1>5
      <3>3. CASE m # 0
        BY <3>1, <3>3, <1>4, <1>5
      <3> QED
        BY <3>2, <3>3
    <2> QED
      BY <1>4, <2>1, <2>2, <2>3, <2>4 DEF RegionsNest
  <1>8. Ordered'
    <2>1. \A k \in 1 .. m : tmpTop' <= open'[k].base /\ marks'[k] <= Capacity
      <3> SUFFICES ASSUME NEW k \in 1 .. m
                   PROVE  tmpTop' <= open'[k].base /\ marks'[k] <= Capacity
        OBVIOUS
      <3>1. k \in 1 .. Len(open) /\ open'[k] = open[k] /\ marks'[k] = marks[k]
        BY <1>4
      <3>2. Len(open) \in 1 .. Len(open) /\ k < Len(open)
        BY <1>1, <1>4
      <3> QED
        BY <3>1, <3>2, <1>3 DEF Ordered
    <2>2. \A j, k \in 1 .. m : j < k => marks'[k] <= open'[j].base
      BY <1>4 DEF Ordered
    <2> QED
      BY <1>4, <2>1, <2>2 DEF Ordered
  <1> QED
    BY <1>6, <1>7, <1>8

(* The slot of an element of an open array lies in the temporary region.   *)
LEMMA ElementSlots ==
    ASSUME TypeOK, RegionsNest, Ordered
    PROVE  /\ tmpTop \in Nat /\ Declared <= tmpTop /\ Len(open) \in Nat
           /\ \A k \in 1 .. Len(open) :
                 /\ open[k] \in Region
                 /\ open[k].base \in Nat /\ open[k].data \in Seq(Values)
                 /\ Len(open[k].data) \in Nat /\ marks[k] \in Nat
                 /\ \A i \in 1 .. Len(open[k].data) :
                       /\ open[k].base + i - 1 \in tmpTop .. Capacity - 1
                       /\ open[k].base + i - 1 < marks[k]
  <1> USE CapacityFacts, EmbedAssumption
  <1>1. tmpTop \in Nat /\ Declared <= tmpTop /\ open \in Seq(Region) /\ marks \in Seq(0 .. Capacity)
        /\ Len(open) = Len(marks)
    BY DEF TypeOK, RegionsNest, Region
  <1>2. ASSUME NEW k \in 1 .. Len(open)
        PROVE  /\ open[k] \in Region
               /\ open[k].base \in Nat /\ open[k].data \in Seq(Values)
               /\ Len(open[k].data) \in Nat /\ marks[k] \in Nat
               /\ \A i \in 1 .. Len(open[k].data) :
                     /\ open[k].base + i - 1 \in tmpTop .. Capacity - 1
                     /\ open[k].base + i - 1 < marks[k]
    <2>1. open[k] \in Region /\ marks[k] \in 0 .. Capacity
      BY <1>1
    <2>2. open[k].base \in Nat /\ open[k].data \in Seq(Values)
      BY <2>1 DEF Region
    <2>3. Len(open[k].data) \in Nat
      BY <2>2
    <2>4. /\ tmpTop <= open[k].base /\ marks[k] <= Capacity
          /\ open[k].base + Len(open[k].data) = marks[k]
      BY DEF Ordered, RegionsNest
    <2>5. ASSUME NEW i \in 1 .. Len(open[k].data)
          PROVE  /\ open[k].base + i - 1 \in tmpTop .. Capacity - 1
                 /\ open[k].base + i - 1 < marks[k]
      <3>1. /\ open[k].base \in Nat /\ Len(open[k].data) \in Nat /\ i \in 1 .. Len(open[k].data)
            /\ tmpTop \in Nat /\ Capacity \in Nat /\ tmpTop <= open[k].base
            /\ open[k].base + Len(open[k].data) <= Capacity
        BY <1>1, <2>2, <2>3, <2>4
      <3> QED
        BY <3>1, <2>4
    <2> QED
      BY <2>1, <2>2, <2>3, <2>5
  <1> QED
    BY <1>1, <1>2

(* No two elements of the open arrays share a slot.                        *)
LEMMA ElementsApart ==
    ASSUME TypeOK, RegionsNest, Ordered,
           NEW j \in 1 .. Len(open), NEW i \in 1 .. Len(open[j].data),
           NEW k \in 1 .. Len(open), NEW h \in 1 .. Len(open[k].data),
           open[j].base + i - 1 = open[k].base + h - 1
    PROVE  j = k /\ i = h
  <1>1. /\ j \in Nat /\ k \in Nat /\ i \in Nat \ {0} /\ h \in Nat \ {0}
        /\ open[j].base \in Nat /\ open[k].base \in Nat
        /\ open[j].base + i - 1 < marks[j] /\ open[k].base + h - 1 < marks[k]
    <2>1. /\ Len(open) \in Nat /\ open[j].base \in Nat /\ open[k].base \in Nat
          /\ Len(open[j].data) \in Nat /\ Len(open[k].data) \in Nat
          /\ open[j].base + i - 1 < marks[j] /\ open[k].base + h - 1 < marks[k]
      BY ElementSlots
    <2> QED
      BY <2>1
  <1>2. marks[j] \in Nat /\ marks[k] \in Nat
    BY ElementSlots
  <1>3. CASE j < k
    <2>1. marks[k] <= open[j].base
      BY <1>3 DEF Ordered
    <2>2. open[k].base + h - 1 < open[j].base
      BY <1>1, <1>2, <2>1
    <2> QED
      BY <1>1, <2>2
  <1>4. CASE k < j
    <2>1. marks[j] <= open[k].base
      BY <1>4 DEF Ordered
    <2>2. open[j].base + i - 1 < open[k].base
      BY <1>1, <1>2, <2>1
    <2> QED
      BY <1>1, <2>2
  <1>5. CASE j = k
    BY <1>1, <1>5
  <1> QED
    BY <1>1, <1>3, <1>4, <1>5

(* What a push must leave in the slots for the arrays to be intact.        *)
LEMMA PushKeepsData ==
    ASSUME TypeOK, RegionsNest, Ordered, OpenDataIntact, NEW n \in Nat,
           NEW data \in Seq(Values), Len(data) = n, Opened(tmpTop - n, data),
           \A s \in tmpTop .. Capacity - 1 : slots'[s] = slots[s],
           \A i \in 1 .. n : slots'[tmpTop - n + i - 1] = data[i]
    PROVE  OpenDataIntact'
  <1>1. open' = Append(open, [base |-> tmpTop - n, data |-> data])
    BY DEF Opened
  <1>2. open \in Seq(Region) /\ Len(open) \in Nat
    BY DEF TypeOK, Region
  <1>3. /\ Len(open') = Len(open) + 1
        /\ open'[Len(open) + 1].base = tmpTop - n /\ open'[Len(open) + 1].data = data
        /\ \A k \in 1 .. Len(open) : open'[k] = open[k]
    BY <1>1, <1>2
  <1> SUFFICES ASSUME NEW k \in 1 .. Len(open) + 1, NEW i \in 1 .. Len(open'[k].data)
               PROVE  slots'[open'[k].base + i - 1] = open'[k].data[i]
    BY <1>3 DEF OpenDataIntact
  <1>4. CASE k \in 1 .. Len(open)
    <2>1. open'[k] = open[k] /\ i \in 1 .. Len(open[k].data)
      BY <1>3, <1>4
    <2>2. open[k].base + i - 1 \in tmpTop .. Capacity - 1
      BY <1>4, <2>1, ElementSlots
    <2>3. slots[open[k].base + i - 1] = open[k].data[i]
      BY <1>4, <2>1 DEF OpenDataIntact
    <2> QED
      BY <2>1, <2>2, <2>3
  <1>5. CASE k = Len(open) + 1
    BY <1>3, <1>5
  <1> QED
    BY <1>2, <1>4, <1>5, LastOrBefore

(* A store, in a state whose declared slots alone may have changed.        *)
LEMMA StoreKeeps ==
    ASSUME TypeOK, RegionsNest, Ordered, OpenDataIntact,
           NEW f \in [Slot -> Values], \A s \in Declared .. Capacity - 1 : f[s] = slots[s],
           NEW v \in Values, StoreTo(f, v), UNCHANGED <<tmpTop, marks>>
    PROVE  /\ slots' \in [Slot -> Values]
           /\ open' \in Seq([base : 0 .. Capacity, data : Seq(Values)])
           /\ RegionsNest' /\ Ordered' /\ OpenDataIntact'
  <1> USE CapacityFacts
  <1>0. open \in Seq(Region) /\ Len(open) \in Nat /\ Declared \in Nat
    BY EmbedAssumption DEF TypeOK, Region
  <1>1. ASSUME NEW k \in 1 .. Len(open), NEW i \in 1 .. Len(open[k].data)
        PROVE  /\ open[k].base + i - 1 \in Slot
               /\ f[open[k].base + i - 1] = open[k].data[i]
    <2>1. open[k].base + i - 1 \in tmpTop .. Capacity - 1 /\ tmpTop \in Nat /\ Declared <= tmpTop
      BY ElementSlots
    <2>2. open[k].base + i - 1 \in Declared .. Capacity - 1 /\ open[k].base + i - 1 \in Slot
      BY <1>0, <2>1 DEF Slot
    <2>3. slots[open[k].base + i - 1] = open[k].data[i]
      BY DEF OpenDataIntact
    <2> QED
      BY <2>2, <2>3
  <1>2. ASSUME NEW s \in 0 .. tmpTop - 1, slots' = [f EXCEPT ![s] = v], UNCHANGED open
        PROVE  /\ slots' \in [Slot -> Values]
               /\ open' \in Seq(Region)
               /\ RegionsNest' /\ Ordered' /\ OpenDataIntact'
    <2>1. slots' \in [Slot -> Values] /\ open' \in Seq(Region)
      BY <1>0, <1>2
    <2>2. RegionsNest' /\ Ordered'
      BY <1>2 DEF RegionsNest, Ordered
    <2>3. ASSUME NEW k \in 1 .. Len(open), NEW i \in 1 .. Len(open[k].data)
          PROVE  slots'[open[k].base + i - 1] = open[k].data[i]
      <3>1. open[k].base + i - 1 \in tmpTop .. Capacity - 1 /\ tmpTop \in Nat
        BY ElementSlots
      <3> DEFINE x == open[k].base + i - 1
      <3>2. x # s
        BY <3>1
      <3>3. x \in Slot /\ f[x] = open[k].data[i]
        BY <1>1
      <3> HIDE DEF x
      <3>4. slots'[x] = f[x]
        BY <3>2, <3>3, <1>2
      <3>5. slots'[x] = open[k].data[i]
        BY <3>3, <3>4
      <3> QED
        BY <3>5 DEF x
    <2>4. open' = open
      BY <1>2
    <2>5. OpenDataIntact'
      BY <2>3, <2>4 DEF OpenDataIntact
    <2> QED
      BY <2>1, <2>2, <2>5
  <1>3. ASSUME NEW k \in 1 .. Len(open), NEW i \in 1 .. Len(open[k].data),
               slots' = [f EXCEPT ![open[k].base + i - 1] = v],
               open' = [open EXCEPT ![k].data[i] = v]
        PROVE  /\ slots' \in [Slot -> Values]
               /\ open' \in Seq(Region)
               /\ RegionsNest' /\ Ordered' /\ OpenDataIntact'
    <2>1. slots' \in [Slot -> Values]
      BY <1>3
    <2>2. /\ open[k] \in Region /\ open[k].base \in 0 .. Capacity
          /\ open[k].data \in Seq(Values) /\ Len(open[k].data) \in Nat
      <3>1. open[k] \in Region
        BY <1>0
      <3>2. open[k].data \in Seq(Values) /\ open[k].base \in 0 .. Capacity
        BY <3>1 DEF Region
      <3> QED
        BY <3>1, <3>2
    <2> DEFINE d == [open[k].data EXCEPT ![i] = v]
    <2>3. d \in Seq(Values) /\ Len(d) = Len(open[k].data)
      BY <2>2
    <2>4. [open[k] EXCEPT !.data = d] = [base |-> open[k].base, data |-> d]
      BY <2>2 DEF Region
    <2>5. [base |-> open[k].base, data |-> d] \in Region
      BY <2>2, <2>3 DEF Region
    <2>6. open' = [open EXCEPT ![k] = [base |-> open[k].base, data |-> d]]
      BY <1>3, <2>4
    <2>7. /\ open' \in Seq(Region) /\ Len(open') = Len(open)
          /\ open'[k].base = open[k].base /\ open'[k].data = d
          /\ \A j \in 1 .. Len(open) : j # k => open'[j] = open[j]
      <3> DEFINE r == [base |-> open[k].base, data |-> d]
      <3>1. open \in Seq(Region) /\ r \in Region /\ open' = [open EXCEPT ![k] = r]
        BY <1>0, <2>5, <2>6
      <3> HIDE DEF r
      <3>2. /\ open' \in Seq(Region) /\ Len(open') = Len(open)
            /\ open'[k] = r
            /\ \A j \in 1 .. Len(open) : j # k => open'[j] = open[j]
        BY <3>1, Updated
      <3>3. r.base = open[k].base /\ r.data = d
        BY DEF r
      <3> QED
        BY <3>2, <3>3
    <2>8. \A j \in 1 .. Len(open) : open'[j].base = open[j].base /\ Len(open'[j].data) = Len(open[j].data)
      BY <2>3, <2>7
    <2>9. RegionsNest' /\ Ordered'
      BY <2>7, <2>8 DEF RegionsNest, Ordered
    <2>10. ASSUME NEW j \in 1 .. Len(open), NEW h \in 1 .. Len(open[j].data)
           PROVE  slots'[open[j].base + h - 1] = open'[j].data[h]
      <3>1. CASE j = k /\ h = i
        BY <3>1, <1>1, <1>3, <2>2, <2>7
      <3>2. CASE ~(j = k /\ h = i)
        <4>1. open[j].base + h - 1 # open[k].base + i - 1
          BY <3>2, ElementsApart
        <4>2. slots'[open[j].base + h - 1] = open[j].data[h]
          BY <4>1, <1>1, <1>3
        <4>3. open'[j].data[h] = open[j].data[h]
          BY <3>2, <2>2, <2>7
        <4> QED
          BY <4>2, <4>3
      <3> QED
        BY <3>1, <3>2
    <2> QED
      BY <2>1, <2>7, <2>8, <2>9, <2>10 DEF OpenDataIntact
  <1>4. open' \in Seq(Region) => open' \in Seq([base : 0 .. Capacity, data : Seq(Values)])
    BY DEF Region
  <1> QED
    BY <1>2, <1>3, <1>4 DEF StoreTo

-----------------------------------------------------------------------------

Inv == TypeOK /\ RegionsNest /\ Ordered /\ OpenDataIntact

(* No array is open in the initial state.                                  *)
LEMMA InitInv == Init => Inv
  <1> SUFFICES ASSUME Init PROVE Inv
    OBVIOUS
  <1>1. TypeOK
    <2>1. tmpTop \in 0 .. Capacity
      BY CapacityFacts DEF Init
    <2>2. rc \in {0, -1}
      BY DEF Init
    <2>3. err \in BOOLEAN /\ slots \in [Slot -> Values]
      BY DEF Init
    <2>4. marks \in Seq(0 .. Capacity) /\ open \in Seq([base : 0 .. Capacity, data : Seq(Values)])
      BY DEF Init
    <2> QED
      BY <2>1, <2>2, <2>3, <2>4 DEF TypeOK
  <1>2. RegionsNest
    BY CapacityFacts, EmbedAssumption DEF Init, RegionsNest
  <1>3. Ordered /\ OpenDataIntact
    BY DEF Init, Ordered, OpenDataIntact
  <1> QED
    BY <1>1, <1>2, <1>3 DEF Inv

(* An operation that fails changes no array and no region.                 *)
LEMMA FailKeeps == Inv /\ Fail => Inv'
  <1> SUFFICES ASSUME Inv, Fail PROVE Inv'
    OBVIOUS
  <1>1. /\ slots' = slots /\ tmpTop' = tmpTop /\ marks' = marks /\ open' = open
        /\ rc' \in {0, -1} /\ err' \in BOOLEAN
    BY DEF Fail
  <1>2. TypeOK'
    BY <1>1 DEF Inv, TypeOK
  <1>3. RegionsNest' /\ Ordered' /\ OpenDataIntact'
    BY <1>1 DEF Inv, RegionsNest, Ordered, OpenDataIntact
  <1> QED
    BY <1>2, <1>3 DEF Inv

(* tc_embed_tmp_begin, whether there is room or not.                      *)
LEMMA TmpBeginKeeps ==
    ASSUME Inv, NEW n \in 0 .. SizeRange - 1, TmpBegin(n)
    PROVE  Inv'
  <1>1. CASE Exhausted(n)
    BY <1>1, FailKeeps DEF TmpBegin
  <1>2. CASE ~Exhausted(n)
    <2> DEFINE data == [i \in 1 .. n |-> slots[tmpTop - n + i - 1]]
    <2>1. /\ Reserve(n) /\ Opened(tmpTop - n, data) /\ slots' = slots /\ err' = err /\ rc' = 0
      BY <1>2 DEF TmpBegin, Succeed
    <2>2. tmpTop \in Nat /\ tmpTop <= Capacity /\ n \in Nat /\ tmpTop - n \in Nat
      <3>1. tmpTop \in 0 .. Capacity /\ n \in Nat /\ Capacity \in Nat /\ tmpTop >= n
        BY <1>2, CapacityFacts, EmbedAssumption DEF Inv, TypeOK, Exhausted
      <3> QED
        BY <3>1
    <2>3. \A i \in 1 .. n : tmpTop - n + i - 1 \in Slot
      BY <2>2, CapacityFacts DEF Slot
    <2>4. data \in Seq(Values) /\ Len(data) = n
      <3>1. \A i \in 1 .. n : slots[tmpTop - n + i - 1] \in Values
        BY <2>3 DEF Inv, TypeOK
      <3> QED
        BY <2>2, <3>1
    <2>5. \A i \in 1 .. n : slots'[tmpTop - n + i - 1] = data[i]
      BY <2>1
    <2>6. \A s \in tmpTop .. Capacity - 1 : slots'[s] = slots[s]
      BY <2>1
    <2> HIDE DEF data
    <2>7. OpenDataIntact'
      BY <2>1, <2>2, <2>4, <2>5, <2>6, PushKeepsData DEF Inv
    <2>8. /\ tmpTop' \in 0 .. Capacity /\ marks' \in Seq(0 .. Capacity)
          /\ open' \in Seq([base : 0 .. Capacity, data : Seq(Values)])
          /\ RegionsNest' /\ Ordered'
      BY <1>2, <2>1, <2>2, <2>4, PushRegion DEF Inv
    <2>9. TypeOK'
      BY <2>1, <2>8 DEF Inv, TypeOK
    <2> QED
      BY <2>7, <2>8, <2>9 DEF Inv
  <1> QED
    BY <1>1, <1>2

(* tc_embed_tmp_end, called once for a region or once too often.          *)
LEMMA TmpEndKeeps == Inv /\ TmpEnd => Inv'
  <1> SUFFICES ASSUME Inv, TmpEnd PROVE Inv'
    OBVIOUS
  <1>0. CASE open = <<>>
    <2>1. Len(marks) = 0 /\ marks \in Seq(0 .. Capacity)
      BY <1>0 DEF Inv, RegionsNest, TypeOK
    <2>2. marks = <<>>
      BY <2>1
    <2>3. UNCHANGED vars
      BY <1>0, <2>2 DEF TmpEnd, vars
    <2> QED
      BY <2>3 DEF vars, Inv, TypeOK, RegionsNest, Ordered, OpenDataIntact
  <1> SUFFICES ASSUME open # <<>> PROVE Inv'
    BY <1>0
  <1>1. TypeOK' /\ RegionsNest' /\ Ordered'
    BY PopRegion DEF Inv
  <1>2. slots' = slots /\ open' = Front(open) /\ open \in Seq(Region) /\ open # <<>>
    BY DEF TmpEnd, Inv, TypeOK, Region
  <1>3. Len(open') = Len(open) - 1 /\ \A k \in 1 .. Len(open) - 1 : open'[k] = open[k] /\ k \in 1 .. Len(open)
    <2> DEFINE m == Len(open) - 1
    <2>1. Len(open) \in Nat \ {0}
      BY <1>2
    <2>2. m \in Nat /\ m <= Len(open) /\ open' = SubSeq(open, 1, m)
      BY <1>2, <2>1 DEF Front
    <2> HIDE DEF m
    <2>3. Len(open') = m /\ \A k \in 1 .. m : open'[k] = open[k] /\ k \in 1 .. Len(open)
      BY <1>2, <2>1, <2>2
    <2> QED
      BY <2>3 DEF m
  <1>4. OpenDataIntact'
    <2> SUFFICES ASSUME NEW k \in 1 .. Len(open'), NEW i \in 1 .. Len(open'[k].data)
                 PROVE  slots'[open'[k].base + i - 1] = open'[k].data[i]
      BY DEF OpenDataIntact
    <2>1. open'[k] = open[k] /\ k \in 1 .. Len(open)
      BY <1>3
    <2> QED
      BY <1>2, <2>1 DEF Inv, OpenDataIntact
  <1> QED
    BY <1>1, <1>4 DEF Inv

(* tc_embed_make_ptr lays an array into a fresh region or fails.           *)
LEMMA MakePtrKeeps ==
    ASSUME Inv, NEW data \in Arrays, MakePtr(data)
    PROVE  Inv'
  <1>1. data \in Seq(Values) /\ Len(data) \in Nat
    BY ArraysAreSequences, EmbedAssumption
  <1>2. CASE Len(data) = 0
    <2>1. /\ open' = open /\ slots' = slots /\ tmpTop' = tmpTop /\ marks' = marks
          /\ err' = err /\ rc' \in {0, -1}
      BY <1>2 DEF MakePtr, Succeed
    <2>2. TypeOK'
      BY <2>1 DEF Inv, TypeOK
    <2>3. RegionsNest' /\ Ordered' /\ OpenDataIntact'
      BY <2>1 DEF Inv, RegionsNest, Ordered, OpenDataIntact
    <2> QED
      BY <2>2, <2>3 DEF Inv
  <1>3. CASE Len(data) # 0 /\ Exhausted(Len(data))
    BY <1>3, FailKeeps DEF MakePtr
  <1>4. CASE Len(data) # 0 /\ ~Exhausted(Len(data))
    <2> DEFINE n == Len(data)
               base == tmpTop - n
    <2>1. /\ Reserve(n) /\ Opened(base, data) /\ err' = FALSE /\ rc' = 0
          /\ slots' = [s \in Slot |-> IF base <= s /\ s < tmpTop
                                      THEN data[s - base + 1] ELSE slots[s]]
      BY <1>4 DEF MakePtr, Succeed
    <2>2. tmpTop \in Nat /\ tmpTop <= Capacity /\ base \in Nat /\ base + n = tmpTop
      <3>1. tmpTop \in 0 .. Capacity /\ n \in Nat /\ Capacity \in Nat /\ tmpTop >= n
        BY <1>1, <1>4, CapacityFacts, EmbedAssumption DEF Inv, TypeOK, Exhausted
      <3> QED
        BY <3>1
    <2>3. slots' \in [Slot -> Values]
      <3>1. ASSUME NEW s \in Slot, base <= s, s < tmpTop
            PROVE  data[s - base + 1] \in Values
        <4>1. s - base + 1 \in 1 .. n
          BY <1>1, <2>2, <3>1, CapacityFacts DEF Slot
        <4> QED
          BY <1>1, <4>1
      <3>2. ASSUME NEW s \in Slot PROVE slots[s] \in Values
        BY DEF Inv, TypeOK
      <3> QED
        BY <2>1, <3>1, <3>2
    <2>4. \A i \in 1 .. n : slots'[tmpTop - n + i - 1] = data[i]
      <3> SUFFICES ASSUME NEW i \in 1 .. n PROVE slots'[base + i - 1] = data[i]
        OBVIOUS
      <3> DEFINE t == base + i - 1
      <3>1. t \in Slot /\ base <= t /\ t < tmpTop /\ t - base + 1 = i
        BY <1>1, <2>2, CapacityFacts DEF Slot
      <3> HIDE DEF t
      <3>2. slots'[t] = data[i]
        BY <2>1, <3>1
      <3> QED
        BY <3>2 DEF t
    <2>5. \A s \in tmpTop .. Capacity - 1 : slots'[s] = slots[s]
      <3> SUFFICES ASSUME NEW s \in tmpTop .. Capacity - 1 PROVE slots'[s] = slots[s]
        OBVIOUS
      <3>1. s \in Slot /\ ~(s < tmpTop)
        BY <2>2, CapacityFacts DEF Slot
      <3> QED
        BY <2>1, <3>1
    <2>6. OpenDataIntact'
      BY <1>1, <2>1, <2>4, <2>5, PushKeepsData DEF Inv
    <2>7. /\ tmpTop' \in 0 .. Capacity /\ marks' \in Seq(0 .. Capacity)
          /\ open' \in Seq([base : 0 .. Capacity, data : Seq(Values)])
          /\ RegionsNest' /\ Ordered'
      BY <1>1, <1>4, <2>1, PushRegion DEF Inv
    <2>8. TypeOK'
      BY <2>1, <2>3, <2>7 DEF TypeOK
    <2> QED
      BY <2>6, <2>7, <2>8 DEF Inv
  <1> QED
    BY <1>2, <1>3, <1>4

(* A slot written by the host, open array or variable.                    *)
LEMMA HostWriteKeeps ==
    ASSUME Inv, NEW v \in Values, HostWrite(v)
    PROVE  Inv'
  <1>1. StoreTo(slots, v) /\ UNCHANGED <<tmpTop, marks>> /\ err' = FALSE /\ rc' = 0
    BY DEF HostWrite, Succeed
  <1>2. slots \in [Slot -> Values] /\ \A s \in Declared .. Capacity - 1 : slots[s] = slots[s]
    BY DEF Inv, TypeOK
  <1>3. /\ slots' \in [Slot -> Values]
        /\ open' \in Seq([base : 0 .. Capacity, data : Seq(Values)])
        /\ RegionsNest' /\ Ordered' /\ OpenDataIntact'
    BY <1>1, <1>2, StoreKeeps DEF Inv
  <1> QED
    BY <1>1, <1>3 DEF Inv, TypeOK

(* The arguments of a call go to declared slots only.                      *)
LEMMA CallKeeps ==
    ASSUME Inv, NEW f \in Funcs, NEW args \in Arrays, NEW v \in Values, Call(f, args, v)
    PROVE  Inv'
  <1>1. CASE Len(args) # Len(ParamSlots[f])
    BY <1>1, FailKeeps DEF Call
  <1>2. CASE Len(args) = Len(ParamSlots[f])
    <2>1. /\ StoreTo(WithArgs(f, args), v) /\ UNCHANGED <<tmpTop, marks>>
          /\ err' \in BOOLEAN /\ rc' \in {0, -1}
      BY <1>2 DEF Call, Succeed
    <2>2. args \in Seq(Values) /\ ParamSlots[f] \in Seq(0 .. Declared - 1)
      BY ArraysAreSequences, EmbedAssumption
    <2>3. \A i \in 1 .. Len(args) : args[i] \in Values /\ ParamSlots[f][i] \in 0 .. Declared - 1
      <3> SUFFICES ASSUME NEW i \in 1 .. Len(args)
                   PROVE  args[i] \in Values /\ ParamSlots[f][i] \in 0 .. Declared - 1
        OBVIOUS
      <3>1. args[i] \in Values
        BY <2>2
      <3> DEFINE p == ParamSlots[f]
      <3>2. p \in Seq(0 .. Declared - 1) /\ i \in 1 .. Len(p)
        BY <1>2, <2>2
      <3> HIDE DEF p
      <3>3. p[i] \in 0 .. Declared - 1
        BY <3>2, Element
      <3> QED
        BY <3>1, <3>3 DEF p
    <2>4. WithArgs(f, args) \in [Slot -> Values]
      <3> SUFFICES ASSUME NEW s \in Slot
                   PROVE  (IF \E i \in 1 .. Len(args) : ParamSlots[f][i] = s
                           THEN args[CHOOSE i \in 1 .. Len(args) : ParamSlots[f][i] = s]
                           ELSE slots[s]) \in Values
        BY DEF WithArgs
      <3>1. CASE \E i \in 1 .. Len(args) : ParamSlots[f][i] = s
        BY <2>3, <3>1
      <3>2. CASE ~\E i \in 1 .. Len(args) : ParamSlots[f][i] = s
        BY <3>2 DEF Inv, TypeOK
      <3> QED
        BY <3>1, <3>2
    <2>5. \A s \in Declared .. Capacity - 1 : WithArgs(f, args)[s] = slots[s]
      <3> SUFFICES ASSUME NEW s \in Declared .. Capacity - 1
                   PROVE  WithArgs(f, args)[s] = slots[s]
        OBVIOUS
      <3>1. s \in Slot /\ ~\E i \in 1 .. Len(args) : ParamSlots[f][i] = s
        BY <2>3, CapacityFacts, EmbedAssumption DEF Slot
      <3> QED
        BY <3>1 DEF WithArgs
    <2>6. /\ slots' \in [Slot -> Values]
          /\ open' \in Seq([base : 0 .. Capacity, data : Seq(Values)])
          /\ RegionsNest' /\ Ordered' /\ OpenDataIntact'
      BY <2>1, <2>4, <2>5, StoreKeeps DEF Inv
    <2> QED
      BY <2>1, <2>6 DEF Inv, TypeOK
  <1> QED
    BY <1>1, <1>2

(* No call of the host breaks the invariant.                              *)
LEMMA StepInv == Inv /\ [Next]_vars => Inv'
  <1> SUFFICES ASSUME Inv, [Next]_vars PROVE Inv'
    OBVIOUS
  <1>1. ASSUME NEW n \in 0 .. SizeRange - 1, TmpBegin(n) PROVE Inv'
    BY <1>1, TmpBeginKeeps
  <1>2. CASE TmpEnd
    BY <1>2, TmpEndKeeps
  <1>3. ASSUME NEW data \in Arrays, MakePtr(data) PROVE Inv'
    BY <1>3, MakePtrKeeps
  <1>4. ASSUME NEW v \in Values, HostWrite(v) PROVE Inv'
    BY <1>4, HostWriteKeeps
  <1>5. ASSUME NEW f \in Funcs, NEW args \in Arrays, NEW v \in Values, Call(f, args, v) PROVE Inv'
    BY <1>5, CallKeeps
  <1>6. CASE UNCHANGED vars
    BY <1>6 DEF vars, Inv, TypeOK, RegionsNest, Ordered, OpenDataIntact
  <1>7. CASE Refuse
    BY <1>7, FailKeeps DEF Refuse
  <1> QED
    BY <1>1, <1>2, <1>3, <1>4, <1>5, <1>6, <1>7 DEF Next

(* The inductive invariant holds after every sequence of calls.           *)
LEMMA Invariance == Spec => []Inv
  BY InitInv, StepInv, PTL DEF Spec

(* The state of the host interface has its types.                          *)
THEOREM TypeCorrect == Spec => []TypeOK
  <1>1. Inv => TypeOK
    BY DEF Inv
  <1> QED
    BY <1>1, Invariance, PTL

(* Begins, ends and failures of tmp_begin, make_ptr and call in any order  *)
(* keep the regions stacked one below the other.                           *)
THEOREM RegionsAreNested == Spec => []RegionsNest
  <1>1. Inv => RegionsNest
    BY DEF Inv
  <1> QED
    BY <1>1, Invariance, PTL

(* An open array keeps the host's data, whatever is called in between.     *)
THEOREM OpenArraysAreIntact == Spec => []OpenDataIntact
  <1>1. Inv => OpenDataIntact
    BY DEF Inv
  <1> QED
    BY <1>1, Invariance, PTL
=============================================================================
