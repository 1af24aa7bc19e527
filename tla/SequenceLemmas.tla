--------------------------- MODULE SequenceLemmas ---------------------------
(***************************************************************************)
(* Lemmas about sequences that the proofs about the event loop's vectors   *)
(* share: what the operators the models take from SequencesExt return.     *)
(***************************************************************************)
EXTENDS SequencesExt, Integers, TLAPS, SequenceTheorems

(* RemoveAt at an index of the sequence: one entry shorter, entries before
   the index keep their place and the later ones move down by one. *)
LEMMA RemoveAtProperties ==
  ASSUME NEW S, NEW s \in Seq(S), NEW k \in 1..Len(s)
  PROVE  /\ RemoveAt(s, k) \in Seq(S)
         /\ Len(RemoveAt(s, k)) = Len(s) - 1
         /\ \A i \in 1..Len(s) - 1 :
              RemoveAt(s, k)[i] = IF i < k THEN s[i] ELSE s[i + 1]
<1> DEFINE front == SubSeq(s, 1, k - 1)
           back  == SubSeq(s, k + 1, Len(s))
<1>0. Len(s) \in Nat /\ k \in Int /\ 1 <= k /\ k <= Len(s)
  BY LenProperties
<1>1. /\ front \in Seq(S)
      /\ Len(front) = k - 1
      /\ \A i \in 1..k - 1 : front[i] = s[i]
  BY <1>0, ElementOfSeq, SubSeqProperties
<1>2. /\ back \in Seq(S)
      /\ Len(back) = Len(s) - k
      /\ \A i \in 1..Len(s) - k : back[i] = s[k + i]
  BY <1>0, ElementOfSeq, SubSeqProperties
<1>3. RemoveAt(s, k) = front \o back
  BY DEF RemoveAt
<1> HIDE DEF front, back
<1>4. /\ front \o back \in Seq(S)
      /\ Len(front \o back) = Len(front) + Len(back)
      /\ \A i \in 1..Len(front) + Len(back) :
           (front \o back)[i] = IF i <= Len(front) THEN front[i]
                                                  ELSE back[i - Len(front)]
  BY <1>1, <1>2, ConcatProperties
<1>5. Len(front) + Len(back) = Len(s) - 1
  BY <1>0, <1>1, <1>2
<1>6. ASSUME NEW i \in 1..Len(s) - 1
      PROVE  (front \o back)[i] = IF i < k THEN s[i] ELSE s[i + 1]
  <2>0. i \in Int /\ 1 <= i /\ i <= Len(s) - 1
    BY <1>0
  <2>1. CASE i < k
    BY <2>0, <2>1, <1>0, <1>1, <1>4, <1>5
  <2>2. CASE ~(i < k)
    <3>1. i - (k - 1) \in 1..Len(s) - k /\ k + (i - (k - 1)) = i + 1
      BY <2>0, <2>2, <1>0
    <3>2. (front \o back)[i] = back[i - (k - 1)]
      BY <2>0, <2>2, <1>0, <1>1, <1>4, <1>5
    <3>3. back[i - (k - 1)] = s[i + 1]
      <4> DEFINE j == i - (k - 1)
      <4>1. j \in 1..Len(s) - k /\ k + j = i + 1
        BY <3>1
      <4> HIDE DEF j
      <4>2. back[j] = s[k + j]
        BY <4>1, <1>2
      <4>3. back[j] = s[i + 1]
        BY <4>1, <4>2
      <4> QED BY <4>3 DEF j
    <3> QED BY <2>0, <2>2, <1>0, <3>2, <3>3
  <2> QED BY <2>0, <2>1, <2>2, <1>0
<1> QED BY <1>3, <1>4, <1>5, <1>6

(* An entry of the first of two sequences is removed from it alone. *)
LEMMA RemoveAtConcat ==
  ASSUME NEW S, NEW s \in Seq(S), NEW t \in Seq(S), NEW k \in 1..Len(s)
  PROVE  RemoveAt(s \o t, k) = RemoveAt(s, k) \o t
<1> DEFINE st == s \o t
           r == RemoveAt(s, k)
           l == Len(s)
           m == Len(t)
<1>1. l \in Nat /\ m \in Nat /\ k \in Nat /\ 1 <= k /\ k <= l
  BY LenProperties
<1>2. /\ st \in Seq(S) /\ Len(st) = l + m
      /\ \A i \in 1..l + m : st[i] = IF i <= l THEN s[i] ELSE t[i - l]
  BY ConcatProperties
<1>3. /\ r \in Seq(S) /\ Len(r) = l - 1
      /\ \A i \in 1..l - 1 : r[i] = IF i < k THEN s[i] ELSE s[i + 1]
  BY RemoveAtProperties
<1> HIDE DEF st, r, l, m
<1>4. /\ RemoveAt(st, k) \in Seq(S) /\ Len(RemoveAt(st, k)) = l + m - 1
      /\ \A i \in 1..l + m - 1 : RemoveAt(st, k)[i] = IF i < k THEN st[i] ELSE st[i + 1]
  <2>1. k \in 1..Len(st) /\ Len(st) - 1 = l + m - 1
    BY <1>1, <1>2
  <2> QED
    BY <1>2, <2>1, RemoveAtProperties
<1>5. /\ r \o t \in Seq(S) /\ Len(r \o t) = l - 1 + m
      /\ \A i \in 1..l - 1 + m : (r \o t)[i] = IF i <= l - 1 THEN r[i] ELSE t[i - (l - 1)]
  BY <1>3, ConcatProperties DEF m
<1>6. l + m - 1 = l - 1 + m
  BY <1>1
<1>7. ASSUME NEW i \in 1..l - 1 + m
      PROVE  RemoveAt(st, k)[i] = (r \o t)[i]
  <2>0. i \in Nat /\ 1 <= i /\ i <= l + m - 1 /\ i \in 1..l + m - 1 /\ i \in 1..l + m /\ i + 1 \in 1..l + m
    BY <1>1
  <2>1. RemoveAt(st, k)[i] = (IF i < k THEN st[i] ELSE st[i + 1])
    BY <1>4, <2>0
  <2>2. st[i] = (IF i <= l THEN s[i] ELSE t[i - l])
    BY <1>2, <2>0
  <2>3. st[i + 1] = IF i + 1 <= l THEN s[i + 1] ELSE t[i + 1 - l]
    BY <1>1, <1>2, <2>0
  <2>4. i + 1 - l = i - (l - 1)
    BY <1>1, <2>0
  <2>5. CASE i <= l - 1
    <3>1. r[i] = (IF i < k THEN s[i] ELSE s[i + 1]) /\ i <= l /\ i + 1 <= l
      BY <1>1, <1>3, <2>0, <2>5
    <3> QED
      BY <1>5, <2>1, <2>2, <2>3, <2>5, <3>1
  <2>6. CASE ~(i <= l - 1)
    <3>1. ~(i < k) /\ ~(i + 1 <= l)
      BY <1>1, <2>0, <2>6
    <3>2. (r \o t)[i] = t[i - (l - 1)]
      BY <1>5, <2>6
    <3> QED
      BY <2>1, <2>3, <2>4, <3>1, <3>2
  <2> QED
    BY <2>5, <2>6
<1>8. RemoveAt(st, k) = r \o t
  BY <1>4, <1>5, <1>6, <1>7, SeqEqual
<1> QED
  BY <1>8 DEF st, r

=============================================================================
