-------------------------- MODULE PatchReviewProofs --------------------------
(***************************************************************************)
(* Proofs about the review of a patch: about its text (PatchDraft), for    *)
(* any file, any finding, any lines an answer may add and any window, and  *)
(* about its states (PatchReview), for any number of patches, stages and   *)
(* other callers, and any number of faults.                                *)
(***************************************************************************)
EXTENDS PatchDraft, PatchReview, FiniteSetTheorems, SequenceTheorems, TLAPS

-----------------------------------------------------------------------------
(* Natural numbers are well ordered.                                       *)
Descends == {p \in Nat \X Nat : p[1] < p[2]}
LEMMA DescentEnds == IsWellFoundedOn(Descends, Nat)
<1>1. Descends = OpToRel(<, Nat)
  BY DEF Descends, OpToRel
<1> QED BY <1>1, NatLessThanWellFounded DEF OpToRel, Descends

LEMMA LeastOf ==
  ASSUME NEW T, T \subseteq Nat, T # {}
  PROVE \E m \in T : \A k \in T : m <= k
<1>1. PICK m \in T : \A k \in T : ~(<<k, m>> \in Descends)
  BY DescentEnds, WFMin
<1>2. ASSUME NEW k \in T, ~(m <= k) PROVE FALSE
  <2>1. k \in Nat /\ m \in Nat /\ k < m
    BY <1>2
  <2>2. <<k, m>> \in Nat \X Nat
    BY <2>1
  <2>3. <<k, m>>[1] < <<k, m>>[2]
    BY <2>1
  <2> QED BY <1>1, <1>2, <2>2, <2>3 DEF Descends
<1> QED BY <1>2

(* What holds at 0 and goes on from every number to the next holds up to n. *)
LEMMA Climbs ==
  ASSUME NEW n \in Nat, NEW T, 0 \in T, \A k \in 1..n : k - 1 \in T => k \in T
  PROVE  \A k \in 0..n : k \in T
<1> DEFINE B == {k \in 0..n : k \notin T}
<1>1. SUFFICES ASSUME B # {} PROVE FALSE
  OBVIOUS
<1>2. PICK m \in B : \A k \in B : m <= k
  <2> B \subseteq Nat
    OBVIOUS
  <2> HIDE DEF B
  <2> QED BY <1>1, LeastOf
<1>3. m # 0 /\ m \in 1..n
  BY <1>2
<1>4. m - 1 \in T
  <2> m - 1 \in 0..n /\ ~(m <= m - 1)
    BY <1>3
  <2> QED BY <1>2
<1> QED BY <1>2, <1>3, <1>4

(* What a fold over a list goes through, for a step F[k] of each element.  *)
Goes(g, F, base, n) == g[0] = base /\ \A k \in 1..n : g[k] = F[k][g[k-1]]
LEMMA FoldGoes ==
  ASSUME NEW n \in Nat, NEW S, NEW base \in S, NEW F, \A k \in 1..n : \A x \in S : F[k][x] \in S
  PROVE  \E g \in [0..n -> S] : Goes(g, F, base, n)
<1> DEFINE T == {m \in 0..n : \E g \in [0..m -> S] : Goes(g, F, base, m)}
<1>1. 0 \in T
  <2> DEFINE g == [k \in 0..0 |-> base]
  <2>1. g \in [0..0 -> S] /\ g[0] = base /\ 1..0 = {}
    OBVIOUS
  <2> HIDE DEF g
  <2>2. Goes(g, F, base, 0)
    BY <2>1 DEF Goes
  <2> QED BY <2>1, <2>2
<1>2. ASSUME NEW m \in 1..n, m - 1 \in T PROVE m \in T
  <2>0. m \in Nat /\ m - 1 \in Nat /\ m - 1 \in 0..m-1 /\ 0 \in 0..m-1
    OBVIOUS
  <2>1. PICK h \in [0..m-1 -> S] : Goes(h, F, base, m - 1)
    BY <1>2
  <2> DEFINE top == F[m][h[m-1]]
             g == [k \in 0..m |-> IF k = m THEN top ELSE h[k]]
  <2>2. top \in S
    <3> h[m-1] \in S
      BY <2>0
    <3> QED OBVIOUS
  <2> HIDE DEF top
  <2>3. g \in [0..m -> S] /\ g[m] = top /\ \A k \in 0..m-1 : g[k] = h[k]
    BY <2>0, <2>2
  <2> HIDE DEF g
  <2>4. g[0] = base
    BY <2>0, <2>1, <2>3 DEF Goes
  <2>5. ASSUME NEW k \in 1..m PROVE g[k] = F[k][g[k-1]]
    <3>1. CASE k = m
      BY <2>0, <2>3, <3>1 DEF top
    <3>2. CASE k # m
      <4>1. k \in 1..m-1 /\ k \in 0..m-1 /\ k - 1 \in 0..m-1
        BY <2>0, <3>2
      <4>2. h[k] = F[k][h[k-1]]
        BY <2>1, <4>1 DEF Goes
      <4> QED BY <2>3, <4>1, <4>2
    <3> QED BY <3>1, <3>2
  <2>6. Goes(g, F, base, m)
    BY <2>4, <2>5 DEF Goes
  <2> QED BY <2>3, <2>6
<1>3. \A k \in 0..n : k \in T
  <2> HIDE DEF T
  <2> QED BY <1>1, <1>2, Climbs
<1>4. n \in 0..n
  OBVIOUS
<1> QED BY <1>3, <1>4

-----------------------------------------------------------------------------
(* A part of a sequence.                                                    *)
LEMMA PartIs ==
  ASSUME NEW S, NEW text \in Seq(S), NEW a \in Nat, NEW b \in Int, 1 <= a, a - 1 <= b, b <= Len(text)
  PROVE  /\ SubSeq(text, a, b) \in Seq(S) /\ Len(SubSeq(text, a, b)) = b - a + 1
         /\ \A i \in 1..b-a+1 : SubSeq(text, a, b)[i] = text[a + i - 1]
<1>1. \A i \in a..b : text[i] \in S
  BY LenProperties
<1>2. /\ SubSeq(text, a, b) \in Seq(S)
      /\ Len(SubSeq(text, a, b)) = IF a <= b THEN b - a + 1 ELSE 0
      /\ \A i \in 1..b-a+1 : SubSeq(text, a, b)[i] = text[a + i - 1]
  BY <1>1, SubSeqProperties
<1> QED BY <1>2

(* A part of a text in the place of another: what applying one hunk does.   *)
Spliced(text, a, b, new) == SubSeq(text, 1, a - 1) \o new \o SubSeq(text, b + 1, Len(text))

Splices(r, text, a, b, new) ==
  /\ Len(r) = a - 1 + Len(new) + (Len(text) - b)
  /\ \A i \in 1..a-1 : r[i] = text[i]
  /\ \A i \in 1..Len(new) : r[a - 1 + i] = new[i]
  /\ \A i \in b+1..Len(text) : r[a - 1 + Len(new) + i - b] = text[i]

LEMMA SplicedIs ==
  ASSUME NEW S, NEW text \in Seq(S), NEW new \in Seq(S), NEW a \in Nat, NEW b \in Int,
         1 <= a, a - 1 <= b, b <= Len(text)
  PROVE  Spliced(text, a, b, new) \in Seq(S) /\ Splices(Spliced(text, a, b, new), text, a, b, new)
<1> DEFINE l == Len(new)
           n == Len(text)
<1>0. l \in Nat /\ n \in Nat /\ b <= n /\ Len(new) = l /\ Len(text) = n
  BY LenProperties
<1> HIDE DEF l, n
<1> DEFINE left == SubSeq(text, 1, a - 1)
           right == SubSeq(text, b + 1, n)
           both == left \o new
           r == both \o right
<1>1. left \in Seq(S) /\ Len(left) = a - 1 /\ \A i \in 1..a-1 : left[i] = text[i]
  <2>1. 1 \in Nat /\ a - 1 \in Int /\ 1 <= 1 /\ 1 - 1 <= a - 1 /\ a - 1 <= Len(text)
    OBVIOUS
  <2>2. /\ left \in Seq(S) /\ Len(left) = a - 1 - 1 + 1
        /\ \A i \in 1..a-1-1+1 : left[i] = text[1 + i - 1]
    BY <2>1, PartIs
  <2> HIDE DEF left
  <2> QED BY <2>2
<1>2. right \in Seq(S) /\ Len(right) = n - b /\ \A i \in 1..n-b : right[i] = text[b + i]
  <2>1. b + 1 \in Nat /\ n \in Int /\ 1 <= b + 1 /\ b + 1 - 1 <= n /\ n <= Len(text)
    BY <1>0
  <2>2. /\ right \in Seq(S) /\ Len(right) = n - (b + 1) + 1
        /\ \A i \in 1..n-(b+1)+1 : right[i] = text[b + 1 + i - 1]
    BY <1>0, <2>1, PartIs
  <2> HIDE DEF right
  <2>3. n - (b + 1) + 1 = n - b /\ \A i \in 1..n-b : b + 1 + i - 1 = b + i
    BY <1>0
  <2> QED BY <2>2, <2>3
<1> HIDE DEF left, right
<1>3. /\ both \in Seq(S) /\ Len(both) = a - 1 + l
      /\ \A i \in 1..a-1 : both[i] = left[i]
      /\ \A i \in 1..l : both[a - 1 + i] = new[i]
  <2> DEFINE m == a - 1
  <2>1. m \in Nat /\ Len(left) = m
    BY <1>1
  <2> HIDE DEF m
  <2>2. /\ left \o new \in Seq(S) /\ Len(left \o new) = m + l
        /\ \A i \in 1..m : (left \o new)[i] = left[i]
        /\ \A i \in 1..l : (left \o new)[m + i] = new[i]
    <3>1. /\ left \o new \in Seq(S) /\ Len(left \o new) = Len(left) + Len(new)
          /\ \A i \in 1..Len(left) + Len(new) : (left \o new)[i] = IF i <= Len(left) THEN left[i] ELSE new[i - Len(left)]
      BY <1>1, ConcatProperties
    <3> DEFINE v == left \o new
    <3> HIDE DEF v
    <3>2. v \in Seq(S) /\ Len(v) = m + l /\ \A i \in 1..m + l : v[i] = IF i <= m THEN left[i] ELSE new[i - m]
      BY <1>0, <2>1, <3>1 DEF v
    <3>3. \A i \in 1..m : i \in 1..m + l /\ i <= m
      BY <1>0, <2>1
    <3>4. ASSUME NEW i \in 1..l PROVE v[m + i] = new[i]
      <4> DEFINE j == m + i
                 e == j - m
      <4>1. j \in 1..m + l /\ ~(j <= m) /\ e = i
        BY <1>0, <2>1
      <4> HIDE DEF j
      <4>2. v[j] = new[e]
        BY <3>2, <4>1
      <4> HIDE DEF e
      <4>3. v[j] = new[i]
        BY <4>1, <4>2
      <4> QED BY <4>3 DEF j
    <3>5. \A i \in 1..m : v[i] = left[i]
      BY <3>2, <3>3
    <3>6. v \in Seq(S) /\ Len(v) = m + l
      BY <3>2
    <3> QED BY <3>4, <3>5, <3>6 DEF v
  <2> QED BY <2>2 DEF m, both
<1> HIDE DEF both
<1>4. /\ r \in Seq(S) /\ Len(r) = a - 1 + l + (n - b)
      /\ \A i \in 1..a-1+l : r[i] = both[i]
      /\ \A i \in 1..n-b : r[a - 1 + l + i] = right[i]
  <2> DEFINE m == a - 1 + l
             k == n - b
  <2>1. /\ m \in Nat /\ k \in Nat /\ Len(both) = m /\ Len(right) = k
        /\ both \in Seq(S) /\ right \in Seq(S)
    BY <1>2, <1>3
  <2> HIDE DEF m, k
  <2>2. both \o right \in Seq(S)
    BY <2>1
  <2>3. Len(both \o right) = m + k
    BY <2>1, ConcatProperties
  <2>4. \A i \in 1..m : (both \o right)[i] = both[i]
    BY <2>1
  <2>5. \A i \in 1..k : (both \o right)[m + i] = right[i]
    BY <2>1
  <2> QED BY <2>2, <2>3, <2>4, <2>5 DEF m, k, r
<1>5. Spliced(text, a, b, new) = r
  BY DEF Spliced, both, left, right, n
<1> HIDE DEF r
<1>6. \A i \in 1..a-1 : r[i] = text[i]
  <2> TAKE i \in 1..a-1
  <2> i \in 1..a-1+l
    BY <1>0
  <2> QED BY <1>1, <1>3, <1>4
<1>7. \A i \in 1..l : r[a - 1 + i] = new[i]
  <2> TAKE i \in 1..l
  <2> a - 1 + i \in 1..a-1+l
    BY <1>0
  <2> QED BY <1>3, <1>4
<1>8. \A i \in b+1..n : r[a - 1 + l + i - b] = text[i]
  <2> TAKE i \in b+1..n
  <2>1. i - b \in 1..n-b /\ a - 1 + l + (i - b) = a - 1 + l + i - b /\ b + (i - b) = i
    BY <1>0
  <2>2. r[a - 1 + l + (i - b)] = right[i - b] /\ right[i - b] = text[b + (i - b)]
    BY <1>2, <1>4, <2>1
  <2> QED BY <2>1, <2>2
<1> QED BY <1>4, <1>5, <1>6, <1>7, <1>8 DEF l, n, Splices

LEMMA SplicedLines ==
  ASSUME NEW S, NEW text \in Seq(S), NEW new \in Seq(S), NEW a \in Nat, NEW b \in Int,
         1 <= a, a - 1 <= b, b <= Len(text)
  PROVE  /\ Lines(Spliced(text, a, b, new)) \subseteq Lines(text) \cup Lines(new)
         /\ Lines(new) \subseteq Lines(Spliced(text, a, b, new))
<1> DEFINE r == Spliced(text, a, b, new)
           n == Len(text)
           l == Len(new)
<1>2. n \in Nat /\ l \in Nat /\ Len(new) = l /\ Len(text) = n /\ b <= n /\ DOMAIN text = 1..n /\ DOMAIN new = 1..l
  BY LenProperties
<1> HIDE DEF r, n, l
<1>1. /\ r \in Seq(S) /\ Len(r) = a - 1 + l + (n - b)
      /\ \A i \in 1..a-1 : r[i] = text[i]
      /\ \A i \in 1..l : r[a - 1 + i] = new[i]
      /\ \A i \in b+1..n : r[a - 1 + l + i - b] = text[i]
  <2> r \in Seq(S) /\ Splices(r, text, a, b, new)
    BY SplicedIs DEF r
  <2> QED BY <1>2 DEF Splices
<1>3. DOMAIN r = 1..(a - 1 + l + (n - b))
  BY <1>1, LenProperties
<1>4. ASSUME NEW k \in DOMAIN r PROVE r[k] \in Lines(text) \cup Lines(new)
  <2>1. CASE k \in 1..a-1
    <3>1. k \in DOMAIN text
      BY <1>2, <2>1
    <3> QED BY <1>2, <1>1, <2>1, <3>1 DEF Lines
  <2>2. CASE k \in a..a-1+l
    <3>1. k - a + 1 \in 1..l /\ a - 1 + (k - a + 1) = k
      BY <1>2, <2>2
    <3> QED BY <1>2, <1>1, <3>1 DEF Lines
  <2>3. CASE k \notin 1..a-1 /\ k \notin a..a-1+l
    <3>0. k \in Nat /\ a - 1 + l < k /\ k <= a - 1 + l + (n - b)
      BY <1>2, <1>3, <2>3
    <3> DEFINE j == b + (k - (a - 1 + l))
    <3>1. j \in b+1..n /\ j \in DOMAIN text /\ a - 1 + l + j - b = k
      BY <1>2, <3>0
    <3> HIDE DEF j
    <3> QED BY <1>1, <3>1 DEF Lines
  <2> QED BY <2>1, <2>2, <2>3
<1>5. ASSUME NEW k \in DOMAIN new PROVE new[k] \in Lines(r)
  <2>1. a - 1 + k \in DOMAIN r /\ r[a - 1 + k] = new[k]
    BY <1>1, <1>2, <1>3
  <2> QED BY <2>1 DEF Lines
<1>6. Lines(r) \subseteq Lines(text) \cup Lines(new)
  BY <1>4 DEF Lines
<1>7. Lines(new) \subseteq Lines(r)
  BY <1>5 DEF Lines
<1> QED BY <1>6, <1>7 DEF r

(* Two ways to make one change: what p is in the place of o, and the part   *)
(* of it in which they differ in the place of the same part of o, the two   *)
(* taken with a line after them or without.                                 *)
Fits(t, a, n, m, e, f, u, x, y) ==
  /\ 1 <= a /\ a + n - 1 <= t /\ a + u - 1 <= t
  /\ x + y <= n + e /\ x + y <= m + e /\ (f = 0 \/ f < x)
  /\ u <= n + e /\ n + e - y <= u
Agree(text, o, p, oe, pe, new, a, n, m, e, f, u, x, y) ==
  /\ Len(text) \in Nat /\ Len(o) = n /\ Len(p) = m /\ Len(oe) = n + e /\ Len(pe) = m + e
  /\ \A i \in 1..n : oe[i] = o[i] /\ text[a + i - 1] = o[i]
  /\ \A i \in 1..m : pe[i] = p[i]
  /\ oe[n + e] = pe[m + e] \/ e = 0
  /\ \A i \in 1..x : oe[i] = pe[i]
  /\ \A i \in 1..y : oe[n + e - y + i] = pe[m + e - y + i]
  /\ \A i \in f+1..u : text[a + i - 1] = oe[i]
  /\ Len(new) = m - n + u - f
  /\ \A i \in f+1..m-n+u : new[i - f] = pe[i]

ChangeOf(S, text, o, p, oe, pe, new, a, n, m, e, f, u, x, y) ==
  /\ {text, o, p, oe, pe, new} \subseteq Seq(S) /\ {a, f, u, x, y, n, m} \subseteq Nat /\ e \in {0, 1}
  /\ Fits(Len(text), a, n, m, e, f, u, x, y) /\ Agree(text, o, p, oe, pe, new, a, n, m, e, f, u, x, y)
OneChange(text, a, f, u, new, n, p) == Spliced(text, a + f, a + u - 1, new) = Spliced(text, a, a + n - 1, p)
LEMMA SameChange ==
  ASSUME NEW S, NEW text, NEW o, NEW p, NEW oe, NEW pe, NEW new, NEW a, NEW n, NEW m, NEW e, NEW f, NEW u, NEW x, NEW y,
         ChangeOf(S, text, o, p, oe, pe, new, a, n, m, e, f, u, x, y)
  PROVE  OneChange(text, a, f, u, new, n, p)
<1> PICK t \in Nat : Len(text) = t
  <2> text \in Seq(S)
    BY DEF ChangeOf
  <2> QED BY LenProperties
<1> /\ text \in Seq(S) /\ o \in Seq(S) /\ p \in Seq(S) /\ oe \in Seq(S) /\ pe \in Seq(S) /\ new \in Seq(S)
    /\ a \in Nat /\ f \in Nat /\ u \in Nat /\ x \in Nat /\ y \in Nat /\ n \in Nat /\ m \in Nat /\ e \in {0, 1}
  BY DEF ChangeOf
<1> DEFINE r == Spliced(text, a + f, a + u - 1, new)
           s == Spliced(text, a, a + n - 1, p)
<1>0. /\ 1 <= a /\ a + n - 1 <= t /\ a + u - 1 <= t
      /\ x + y <= n + e /\ x + y <= m + e /\ (f = 0 \/ f < x)
      /\ u <= n + e /\ n + e - y <= u /\ f <= u
  <2> Fits(t, a, n, m, e, f, u, x, y)
    BY DEF ChangeOf
  <2> QED BY DEF Fits
<1>9. Agree(text, o, p, oe, pe, new, a, n, m, e, f, u, x, y)
  BY DEF ChangeOf
<1>1. r \in Seq(S) /\ Splices(r, text, a + f, a + u - 1, new)
  <2> DEFINE l == a + f
             k == a + u - 1
  <2>1. l \in Nat /\ k \in Int /\ 1 <= l /\ l - 1 <= k /\ k <= Len(text)
    BY <1>0
  <2> HIDE DEF l, k
  <2>2. Spliced(text, l, k, new) \in Seq(S) /\ Splices(Spliced(text, l, k, new), text, l, k, new)
    BY <2>1, SplicedIs
  <2> QED BY <2>2 DEF l, k
<1>2. s \in Seq(S) /\ Splices(s, text, a, a + n - 1, p)
  <2> DEFINE k == a + n - 1
  <2>1. k \in Int /\ 1 <= a /\ a - 1 <= k /\ k <= Len(text)
    BY <1>0
  <2> HIDE DEF k
  <2>2. Spliced(text, a, k, p) \in Seq(S) /\ Splices(Spliced(text, a, k, p), text, a, k, p)
    BY <2>1, SplicedIs
  <2> QED BY <2>2 DEF k
<1> HIDE DEF r, s
<1>3. /\ Len(r) = t + m - n
      /\ \A i \in 1..a+f-1 : r[i] = text[i]
      /\ \A i \in 1..m-n+u-f : r[a + f - 1 + i] = new[i]
      /\ \A i \in a+u..t : r[i + m - n] = text[i]
  <2>1. /\ Len(r) = a + f - 1 + Len(new) + (t - (a + u - 1))
        /\ \A i \in 1..a+f-1 : r[i] = text[i]
        /\ \A i \in 1..Len(new) : r[a + f - 1 + i] = new[i]
        /\ \A i \in (a+u-1)+1..t : r[a + f - 1 + Len(new) + i - (a + u - 1)] = text[i]
    BY <1>1 DEF Splices
  <2>0. Len(new) = m - n + u - f
    BY <1>9 DEF Agree
  <2>2. Len(r) = t + m - n
    <3> Len(r) = a + f - 1 + Len(new) + (t - (a + u - 1))
      BY <2>1
    <3> QED BY <2>0
  <2>3. \A i \in a+u..t : r[i + m - n] = text[i]
    <3> TAKE i \in a+u..t
    <3>1. i \in (a+u-1)+1..t /\ a + f - 1 + Len(new) + i - (a + u - 1) = i + m - n
      BY <2>0
    <3> QED BY <2>1, <3>1
  <2> QED BY <2>0, <2>1, <2>2, <2>3
<1>4. /\ Len(s) = t + m - n
      /\ \A i \in 1..a-1 : s[i] = text[i]
      /\ \A i \in 1..m : s[a - 1 + i] = p[i]
      /\ \A i \in a+n..t : s[i + m - n] = text[i]
  <2>1. /\ Len(s) = a - 1 + m + (t - (a + n - 1))
        /\ \A i \in 1..a-1 : s[i] = text[i]
        /\ \A i \in 1..m : s[a - 1 + i] = p[i]
        /\ \A i \in (a+n-1)+1..t : s[a - 1 + m + i - (a + n - 1)] = text[i]
    <3> Len(p) = m
      BY <1>9 DEF Agree
    <3> QED BY <1>2 DEF Splices
  <2>2. Len(s) = t + m - n
    <3> Len(s) = a - 1 + m + (t - (a + n - 1))
      BY <2>1
    <3> QED OBVIOUS
  <2>3. \A i \in a+n..t : s[i + m - n] = text[i]
    <3> TAKE i \in a+n..t
    <3>1. i \in (a+n-1)+1..t /\ a - 1 + m + i - (a + n - 1) = i + m - n
      BY <1>0
    <3> QED BY <2>1, <3>1
  <2> QED BY <2>1, <2>2, <2>3
<1>5. ASSUME NEW k \in 1..Len(r) PROVE r[k] = s[k]
  <2>0. k \in Nat /\ 1 <= k /\ k <= t + m - n
    BY <1>0, <1>3
  <2> DEFINE i == k - a + 1
  <2>1. CASE k < a
    <3>1. k \in 1..a-1 /\ k \in 1..a+f-1
      BY <2>0, <2>1
    <3> QED BY <1>3, <1>4, <3>1
  <2>2. CASE a <= k /\ k < a + f
    <3>1. /\ k \in 1..a+f-1 /\ i \in 1..x /\ i \in 1..n /\ i \in 1..m
          /\ a - 1 + i = k /\ a + i - 1 = k
      BY <1>0, <2>0, <2>2
    <3>2. r[k] = text[k] /\ s[k] = p[i]
      <4> HIDE DEF i
      <4> QED BY <1>3, <1>4, <3>1
    <3>3. text[k] = o[i] /\ oe[i] = o[i] /\ oe[i] = pe[i] /\ pe[i] = p[i]
      <4> HIDE DEF i
      <4> QED BY <1>9, <3>1 DEF Agree
    <3> QED BY <3>2, <3>3
  <2>3. CASE a + f <= k /\ k < a + m - n + u
    <3>1. i \in f+1..m-n+u /\ i - f \in 1..m-n+u-f /\ a + f - 1 + (i - f) = k /\ a - 1 + i = k
      BY <1>0, <2>0, <2>3
    <3>2. r[k] = pe[i]
      <4> HIDE DEF i
      <4>1. r[a + f - 1 + (i - f)] = new[i - f] /\ new[i - f] = pe[i]
        BY <1>3, <1>9, <3>1 DEF Agree
      <4> QED BY <3>1, <4>1
    <3>3. CASE i <= m
      <4>1. i \in 1..m
        BY <3>1, <3>3
      <4> HIDE DEF i
      <4>2. pe[i] = p[i]
        BY <1>9, <4>1 DEF Agree
      <4>3. s[a - 1 + i] = p[i]
        BY <1>4, <4>1
      <4> QED BY <3>1, <3>2, <4>2, <4>3
    <3>4. CASE m < i
      <4>1. e = 1 /\ i = m + e /\ u = n + e /\ n + e \in f+1..u /\ a + (n + e) - 1 = a + n /\ a + n \in a+n..t /\ (a + n) + m - n = k
        BY <1>0, <2>0, <3>1, <3>4
      <4>2. s[k] = text[a + n]
        <5> HIDE DEF i
        <5> QED BY <1>4, <4>1
      <4>3. text[a + n] = oe[n + e]
        <5> HIDE DEF i
        <5>1. \A j \in f+1..u : text[a + j - 1] = oe[j]
          BY <1>9 DEF Agree
        <5>2. \A j : j = n + e => j \in f+1..u /\ a + j - 1 = a + n
          BY <4>1
        <5> QED BY <5>1, <5>2
      <4>4. oe[n + e] = pe[m + e]
        <5> HIDE DEF i
        <5> QED BY <1>9, <4>1 DEF Agree
      <4> QED BY <3>2, <4>1, <4>2, <4>3, <4>4
    <3>5. i <= m \/ m < i
      BY <3>1
    <3> QED BY <3>3, <3>4, <3>5
  <2>4. CASE a + m - n + u <= k
    <3> DEFINE j == k - m + n
    <3>1. j \in a+u..t /\ j + m - n = k
      BY <1>0, <2>0, <2>4
    <3>2. r[k] = text[j]
      <4> HIDE DEF j
      <4> QED BY <1>3, <3>1
    <3>3. CASE a + n <= j
      <4>1. j \in a+n..t
        BY <3>1, <3>3
      <4> HIDE DEF j
      <4> QED BY <1>4, <3>1, <3>2, <4>1
    <3>4. CASE j < a + n
      <4> DEFINE g == i - (m + e - y)
                 h == j - a + 1
      <4>0. i \in 1..m /\ a - 1 + i = k
        BY <1>0, <2>0, <2>4, <3>1, <3>4
      <4>9. g \in 1..y
        BY <1>0, <2>0, <2>4, <3>1, <3>4
      <4>8. m + e - y + g = i /\ n + e - y + g = h
        BY <1>0, <2>0
      <4>7. h \in 1..n /\ a + h - 1 = j
        BY <1>0, <2>0, <2>4, <3>1, <3>4
      <4>1. /\ i \in 1..m /\ a - 1 + i = k /\ g \in 1..y /\ m + e - y + g = i /\ n + e - y + g = h
            /\ h \in 1..n /\ a + h - 1 = j
        BY <4>0, <4>9, <4>8, <4>7
      <4> HIDE DEF i, j, g, h
      <4>2. s[k] = p[i] /\ pe[i] = p[i]
        BY <1>4, <1>9, <4>1 DEF Agree
      <4>3. oe[h] = pe[i]
        BY <1>9, <4>1 DEF Agree
      <4>4. oe[h] = o[h] /\ text[j] = o[h]
        BY <1>9, <4>1 DEF Agree
      <4> QED BY <3>2, <4>2, <4>3, <4>4
    <3>5. a + n <= j \/ j < a + n
      BY <3>1
    <3> QED BY <3>3, <3>4, <3>5
  <2>5. k < a \/ (a <= k /\ k < a + f) \/ (a + f <= k /\ k < a + m - n + u) \/ a + m - n + u <= k
    BY <2>0
  <2> QED BY <2>1, <2>2, <2>3, <2>4, <2>5
<1>6. r = s
  BY <1>1, <1>2, <1>3, <1>4, <1>5, SeqEqual
<1> QED BY <1>6 DEF r, s, OneChange

(* Appending is associative.                                               *)
Associates(w, y, z) == (w \o y) \o z = w \o (y \o z)
LEMMA AssociatesIs ==
  ASSUME NEW S, NEW w \in Seq(S), NEW y \in Seq(S), NEW z \in Seq(S)
  PROVE  Associates(w, y, z)
BY ConcatAssociative DEF Associates

-----------------------------------------------------------------------------
(* The lines of a diff with some of the marks.                              *)
Marks == {" ", "-", "+", ""}
BodyLines(S) == [mark : Marks, line : S]
KeptOf(l, marks) == IF l.mark \in marks THEN <<l.line>> ELSE <<>>
Keeps(g, body, marks, n) == g[0] = <<>> /\ \A k \in 1..n : g[k] = g[k-1] \o KeptOf(body[k], marks)

LEMMA KeptIs ==
  ASSUME NEW S, NEW body \in Seq(BodyLines(S)), NEW marks
  PROVE  \E g \in [0..Len(body) -> Seq(S)] : Keeps(g, body, marks, Len(body)) /\ Unmarked(body, marks) = g[Len(body)]
<1> DEFINE n == Len(body)
           Turn(f) == [k \in 0..n |-> IF k = 0 THEN <<>> ELSE f[k-1] \o (IF body[k].mark \in marks THEN <<body[k].line>> ELSE <<>>)]
           to == CHOOSE f : f = Turn(f)
           F == [k \in 1..n |-> [x \in Seq(S) |-> x \o KeptOf(body[k], marks)]]
<1>1. Unmarked(body, marks) = to[n]
  BY DEF Unmarked
<1>2. n \in Nat /\ \A k \in 1..n : body[k] \in BodyLines(S)
  BY LenProperties
<1> HIDE DEF n
<1>3. ASSUME NEW k \in 1..n PROVE KeptOf(body[k], marks) \in Seq(S)
  <2>1. body[k].line \in S
    BY <1>2 DEF BodyLines
  <2> QED BY <2>1 DEF KeptOf
<1>4. \A k \in 1..n : \A x \in Seq(S) : F[k][x] = x \o KeptOf(body[k], marks) /\ F[k][x] \in Seq(S)
  BY <1>3, ConcatProperties
<1> HIDE DEF F
<1>5. PICK g \in [0..n -> Seq(S)] : Goes(g, F, <<>>, n)
  BY <1>2, <1>4, EmptySeq, FoldGoes
<1>6. Keeps(g, body, marks, n)
  <2>1. ASSUME NEW k \in 1..n PROVE g[k] = g[k-1] \o KeptOf(body[k], marks)
    <3>1. k - 1 \in 0..n /\ g[k-1] \in Seq(S)
      BY <1>2
    <3> QED BY <1>4, <1>5, <3>1 DEF Goes
  <2> QED BY <1>5, <2>1 DEF Keeps, Goes
<1>7. g = Turn(g)
  <2>1. ASSUME NEW k \in 0..n
        PROVE  g[k] = IF k = 0 THEN <<>> ELSE g[k-1] \o (IF body[k].mark \in marks THEN <<body[k].line>> ELSE <<>>)
    <3>1. k # 0 => k \in 1..n
      BY <1>2
    <3> QED BY <1>6, <3>1 DEF Keeps, KeptOf
  <2>2. g = [k \in 0..n |-> g[k]]
    OBVIOUS
  <2> QED BY <2>1, <2>2
<1>8. to = Turn(to)
  BY <1>7
<1> HIDE DEF to
<1>9. \A k \in 0..n : to[k] = IF k = 0 THEN <<>> ELSE to[k-1] \o KeptOf(body[k], marks)
  BY <1>8 DEF KeptOf
<1> HIDE DEF Turn
<1> DEFINE T == {k \in 0..n : to[k] = g[k]}
<1>10. 0 \in T
  BY <1>2, <1>6, <1>9 DEF Keeps
<1>11. ASSUME NEW k \in 1..n, k - 1 \in T PROVE k \in T
  <2>1. k \in 0..n /\ k # 0 /\ to[k-1] = g[k-1]
    BY <1>2, <1>11
  <2>2. to[k] = to[k-1] \o KeptOf(body[k], marks) /\ g[k] = g[k-1] \o KeptOf(body[k], marks)
    BY <1>6, <1>9, <2>1 DEF Keeps
  <2> QED BY <2>1, <2>2
<1>12. n \in T
  <2> HIDE DEF T
  <2> n \in 0..n
    BY <1>2
  <2> QED BY <1>2, <1>10, <1>11, Climbs
<1> QED BY <1>1, <1>6, <1>12 DEF n

LEMMA MarkedIs ==
  ASSUME NEW S, NEW lines \in Seq(S), NEW mark \in Marks
  PROVE  /\ Marked(mark, lines) \in Seq(BodyLines(S)) /\ Len(Marked(mark, lines)) = Len(lines)
         /\ \A i \in 1..Len(lines) : Marked(mark, lines)[i] = [mark |-> mark, line |-> lines[i]]
<1> DEFINE n == Len(lines)
<1>1. n \in Nat /\ DOMAIN lines = 1..n /\ \A i \in 1..n : lines[i] \in S
  BY LenProperties
<1> HIDE DEF n
<1>2. Marked(mark, lines) = [i \in 1..n |-> [mark |-> mark, line |-> lines[i]]]
  BY <1>1 DEF Marked
<1>3. \A i \in 1..n : [mark |-> mark, line |-> lines[i]] \in BodyLines(S)
  BY <1>1 DEF BodyLines
<1> QED BY <1>1, <1>2, <1>3 DEF n

LEMMA UnmarkedIs ==
  ASSUME NEW S, NEW body \in Seq(BodyLines(S)), NEW marks
  PROVE  /\ Unmarked(body, marks) \in Seq(S)
         /\ \A l \in Lines(Unmarked(body, marks)) : \E i \in DOMAIN body : l = body[i].line
<1> DEFINE n == Len(body)
<1>1. n \in Nat /\ DOMAIN body = 1..n /\ \A k \in 1..n : body[k] \in BodyLines(S)
  BY LenProperties
<1>2. PICK g \in [0..n -> Seq(S)] : Keeps(g, body, marks, n) /\ Unmarked(body, marks) = g[n]
  BY KeptIs
<1> HIDE DEF n
<1> DEFINE T == {k \in 0..n : Lines(g[k]) \subseteq {body[i].line : i \in 1..n}}
<1>3. 0 \in T
  <2>1. g[0] = <<>>
    BY <1>2 DEF Keeps
  <2>2. Lines(<<>>) = {}
    BY DEF Lines
  <2> QED BY <1>1, <2>1, <2>2
<1>4. ASSUME NEW k \in 1..n, k - 1 \in T PROVE k \in T
  <2>1. k \in 0..n /\ k - 1 \in 0..n /\ g[k-1] \in Seq(S) /\ body[k].line \in S
    BY <1>1 DEF BodyLines
  <2>2. g[k] = g[k-1] \o KeptOf(body[k], marks)
    BY <1>2 DEF Keeps
  <2>3. CASE body[k].mark \notin marks
    <3>1. g[k] = g[k-1]
      BY <2>1, <2>2, <2>3 DEF KeptOf
    <3> QED BY <1>4, <2>1, <3>1
  <2>4. CASE body[k].mark \in marks
    <3>1. g[k] = Append(g[k-1], body[k].line)
      BY <2>1, <2>2, <2>4, AppendIsConcat DEF KeptOf
    <3>2. Lines(g[k]) \subseteq Lines(g[k-1]) \cup {body[k].line}
      BY <2>1, <3>1, AppendProperties, LenProperties DEF Lines
    <3> QED BY <1>4, <2>1, <3>2
  <2> QED BY <2>3, <2>4
<1>5. n \in T
  <2> HIDE DEF T
  <2> n \in 0..n
    BY <1>1
  <2> QED BY <1>1, <1>3, <1>4, Climbs
<1> QED BY <1>1, <1>2, <1>5 DEF n

LEMMA UnmarkedMarked ==
  ASSUME NEW S, NEW lines \in Seq(S), NEW mark \in Marks, NEW marks
  PROVE  Unmarked(Marked(mark, lines), marks) = IF mark \in marks THEN lines ELSE <<>>
<1> DEFINE body == Marked(mark, lines)
           n == Len(lines)
<1>1. /\ n \in Nat /\ DOMAIN lines = 1..n /\ body \in Seq(BodyLines(S)) /\ Len(body) = n
      /\ \A i \in 1..n : body[i] = [mark |-> mark, line |-> lines[i]]
  BY MarkedIs, LenProperties
<1> HIDE DEF body
<1>2. PICK g \in [0..n -> Seq(S)] : Keeps(g, body, marks, n) /\ Unmarked(body, marks) = g[n]
  BY <1>1, KeptIs
<1> HIDE DEF n
<1> DEFINE T == {k \in 0..n : g[k] = IF mark \in marks THEN SubSeq(lines, 1, k) ELSE <<>>}
<1>3. 0 \in T
  <2>1. SubSeq(lines, 1, 0) = <<>>
    BY SubSeqEmpty
  <2>2. g[0] = <<>> /\ 0 \in 0..n
    BY <1>1, <1>2 DEF Keeps
  <2> QED BY <2>1, <2>2
<1>4. ASSUME NEW k \in 1..n, k - 1 \in T PROVE k \in T
  <2>1. k \in 0..n /\ k - 1 \in 0..n /\ g[k-1] \in Seq(S)
    BY <1>1
  <2>2. g[k] = g[k-1] \o (IF mark \in marks THEN <<lines[k]>> ELSE <<>>)
    <3>1. body[k].mark = mark /\ body[k].line = lines[k]
      BY <1>1
    <3>2. g[k] = g[k-1] \o KeptOf(body[k], marks)
      BY <1>2 DEF Keeps
    <3> QED BY <3>1, <3>2 DEF KeptOf
  <2>3. CASE mark \in marks
    <3>1. SubSeq(lines, 1, k) = SubSeq(lines, 1, k - 1) \o <<lines[k]>>
      <4> 1 \in 1..Len(lines) /\ k \in 1..Len(lines)
        BY <1>1 DEF n
      <4> QED BY SubSeqRecursiveSecond
    <3> QED BY <1>4, <2>1, <2>2, <2>3, <3>1
  <2>4. CASE mark \notin marks
    BY <1>4, <2>1, <2>2, <2>4
  <2> QED BY <2>3, <2>4
<1>5. n \in T
  <2> HIDE DEF T
  <2> n \in 0..n
    BY <1>1
  <2> QED BY <1>1, <1>3, <1>4, Climbs
<1>6. SubSeq(lines, 1, n) = lines
  BY SubSeqFull DEF n
<1> QED BY <1>1, <1>2, <1>5, <1>6 DEF body

JoinsMarks(b, c, marks) == Unmarked(b \o c, marks) = Unmarked(b, marks) \o Unmarked(c, marks)
LEMMA UnmarkedJoins ==
  ASSUME NEW S, NEW b \in Seq(BodyLines(S)), NEW c \in Seq(BodyLines(S)), NEW marks
  PROVE  JoinsMarks(b, c, marks)
<1> DEFINE n == Len(b)
           m == Len(c)
           d == b \o c
<1>1. /\ n \in Nat /\ m \in Nat /\ d \in Seq(BodyLines(S)) /\ Len(d) = n + m
      /\ \A i \in 1..n : d[i] = b[i]
      /\ \A i \in 1..m : d[n + i] = c[i]
  BY ConcatProperties, LenProperties
<1>7. d \in Seq(BodyLines(S))
  BY <1>1
<1>2. PICK g \in [0..n -> Seq(S)] : Keeps(g, b, marks, n) /\ Unmarked(b, marks) = g[n]
  BY KeptIs
<1>3. PICK h \in [0..m -> Seq(S)] : Keeps(h, c, marks, m) /\ Unmarked(c, marks) = h[m]
  BY KeptIs
<1> HIDE DEF d
<1>4. PICK k \in [0..n+m -> Seq(S)] : Keeps(k, d, marks, n + m) /\ Unmarked(d, marks) = k[n + m]
  <2> PICK k \in [0..Len(d) -> Seq(S)] : Keeps(k, d, marks, Len(d)) /\ Unmarked(d, marks) = k[Len(d)]
    BY <1>7, KeptIs
  <2> QED BY <1>1
<1> HIDE DEF n, m
<1> DEFINE T == {i \in 0..n : k[i] = g[i]}
           U == {i \in 0..m : k[n + i] = g[n] \o h[i]}
<1>5. n \in T
  <2>1. 0 \in T
    BY <1>1, <1>2, <1>4 DEF Keeps
  <2>2. ASSUME NEW i \in 1..n, i - 1 \in T PROVE i \in T
    <3>1. i \in 0..n /\ i \in 1..n+m /\ d[i] = b[i] /\ k[i-1] = g[i-1]
      BY <1>1, <2>2
    <3>2. k[i] = k[i-1] \o KeptOf(d[i], marks) /\ g[i] = g[i-1] \o KeptOf(b[i], marks)
      BY <1>2, <1>4, <3>1 DEF Keeps
    <3> QED BY <3>1, <3>2
  <2> HIDE DEF T
  <2>3. n \in 0..n
    BY <1>1
  <2> QED BY <1>1, <2>1, <2>2, <2>3, Climbs
<1>6. m \in U
  <2>0. g[n] \in Seq(S)
    BY <1>1
  <2>1. 0 \in U
    <3>1. h[0] = <<>> /\ n + 0 = n /\ k[n] = g[n] /\ 0 \in 0..m
      BY <1>1, <1>3, <1>5 DEF Keeps
    <3> QED BY <2>0, <3>1, ConcatEmptySeq
  <2>2. ASSUME NEW i \in 1..m, i - 1 \in U PROVE i \in U
    <3>0. i \in 0..m /\ i - 1 \in 0..m /\ n + i \in 1..n+m /\ (n + i) - 1 = n + (i - 1)
      BY <1>1
    <3>1. d[n + i] = c[i] /\ k[n + (i-1)] = g[n] \o h[i-1] /\ h[i-1] \in Seq(S)
      BY <1>1, <2>2, <3>0
    <3>2. k[n + i] = k[(n + i) - 1] \o KeptOf(d[n + i], marks) /\ h[i] = h[i-1] \o KeptOf(c[i], marks)
      BY <1>3, <1>4, <3>0 DEF Keeps
    <3>3. KeptOf(c[i], marks) \in Seq(S)
      <4>1. c[i] \in BodyLines(S)
        BY <1>1, LenProperties DEF m
      <4> QED BY <4>1 DEF BodyLines, KeptOf
    <3>4. (g[n] \o h[i-1]) \o KeptOf(c[i], marks) = g[n] \o (h[i-1] \o KeptOf(c[i], marks))
      <4> DEFINE w == g[n]
                 y == h[i-1]
                 z == KeptOf(c[i], marks)
      <4>1. w \in Seq(S) /\ y \in Seq(S) /\ z \in Seq(S)
        BY <2>0, <3>1, <3>3
      <4> HIDE DEF w, y, z
      <4>2. Associates(w, y, z)
        BY <4>1, AssociatesIs
      <4> QED BY <4>2 DEF w, y, z, Associates
    <3> QED BY <3>0, <3>1, <3>2, <3>4
  <2> HIDE DEF U
  <2>3. m \in 0..m
    BY <1>1
  <2> QED BY <1>1, <2>1, <2>2, <2>3, Climbs
<1> QED BY <1>2, <1>3, <1>4, <1>6 DEF d, JoinsMarks

(* What is read of a hunk that was written from four parts.                 *)
Reads(h, start, b, r, a, c) ==
  /\ h.start = start /\ h.olds = Len(b \o r \o c) /\ h.news = Len(b \o a \o c)
  /\ Unmarked(h.body, {" ", "-"}) = b \o r \o c
  /\ Unmarked(h.body, {" ", "+"}) = b \o a \o c
  /\ Unmarked(h.body, {"+"}) = a
LEMMA HunkIs ==
  ASSUME NEW S, NEW start, NEW b \in Seq(S), NEW r \in Seq(S), NEW a \in Seq(S), NEW c \in Seq(S), NEW h,
         h = Hunk(start, b, r, a, c)
  PROVE  h.body \in Seq(BodyLines(S)) /\ Reads(h, start, b, r, a, c)
<1> DEFINE B == Marked(" ", b)
           R == Marked("-", r)
           A == Marked("+", a)
           C == Marked(" ", c)
<1>1. h.start = start /\ h.olds = Len(b \o r \o c) /\ h.news = Len(b \o a \o c) /\ h.body = B \o R \o A \o C
  BY DEF Hunk
<1>2. /\ B \in Seq(BodyLines(S)) /\ R \in Seq(BodyLines(S)) /\ A \in Seq(BodyLines(S)) /\ C \in Seq(BodyLines(S))
  <2> " " \in Marks /\ "-" \in Marks /\ "+" \in Marks
    BY DEF Marks
  <2> QED BY MarkedIs
<1>3. ASSUME NEW marks
      PROVE  /\ Unmarked(B, marks) = IF " " \in marks THEN b ELSE <<>>
             /\ Unmarked(R, marks) = IF "-" \in marks THEN r ELSE <<>>
             /\ Unmarked(A, marks) = IF "+" \in marks THEN a ELSE <<>>
             /\ Unmarked(C, marks) = IF " " \in marks THEN c ELSE <<>>
  <2> " " \in Marks /\ "-" \in Marks /\ "+" \in Marks
    BY DEF Marks
  <2> QED BY UnmarkedMarked
<1> HIDE DEF B, R, A, C
<1>4. B \o R \in Seq(BodyLines(S)) /\ B \o R \o A \in Seq(BodyLines(S)) /\ B \o R \o A \o C \in Seq(BodyLines(S))
  BY <1>2, ConcatProperties
<1>5. ASSUME NEW marks
      PROVE  Unmarked(h.body, marks) = Unmarked(B, marks) \o Unmarked(R, marks) \o Unmarked(A, marks) \o Unmarked(C, marks)
  <2> DEFINE Bodies == Seq(BodyLines(S))
  <2>0. \A d, e \in Bodies : Unmarked(d \o e, marks) = Unmarked(d, marks) \o Unmarked(e, marks)
    BY UnmarkedJoins DEF JoinsMarks
  <2>4. B \in Bodies /\ R \in Bodies /\ A \in Bodies /\ C \in Bodies /\ B \o R \in Bodies /\ B \o R \o A \in Bodies
    BY <1>2, <1>4
  <2> HIDE DEF Bodies
  <2>1. Unmarked(B \o R, marks) = Unmarked(B, marks) \o Unmarked(R, marks)
    BY <2>0, <2>4
  <2>2. Unmarked(B \o R \o A, marks) = Unmarked(B \o R, marks) \o Unmarked(A, marks)
    BY <2>0, <2>4
  <2>3. Unmarked(B \o R \o A \o C, marks) = Unmarked(B \o R \o A, marks) \o Unmarked(C, marks)
    BY <2>0, <2>4
  <2> QED BY <1>1, <2>1, <2>2, <2>3
<1>6. Unmarked(h.body, {" ", "-"}) = b \o r \o <<>> \o c
  <2> " " \in {" ", "-"} /\ "-" \in {" ", "-"} /\ "+" \notin {" ", "-"}
    OBVIOUS
  <2> QED BY <1>3, <1>5
<1>7. Unmarked(h.body, {" ", "+"}) = b \o <<>> \o a \o c
  <2> " " \in {" ", "+"} /\ "-" \notin {" ", "+"} /\ "+" \in {" ", "+"}
    OBVIOUS
  <2> QED BY <1>3, <1>5
<1>8. Unmarked(h.body, {"+"}) = <<>> \o <<>> \o a \o <<>>
  <2> " " \notin {"+"} /\ "-" \notin {"+"} /\ "+" \in {"+"}
    OBVIOUS
  <2> QED BY <1>3, <1>5
<1>9. b \o r \o <<>> = b \o r /\ b \o <<>> = b /\ <<>> \o <<>> \o a \o <<>> = a
  <2>1. b \o r \in Seq(S) /\ <<>> \in Seq(S)
    BY ConcatProperties, EmptySeq
  <2>2. b \o r \o <<>> = b \o r /\ b \o <<>> = b
    BY <2>1, ConcatEmptySeq
  <2>3. <<>> \o <<>> = <<>> /\ <<>> \o a = a /\ a \o <<>> = a
    BY <2>1, ConcatEmptySeq
  <2> QED BY <2>2, <2>3
<1> QED BY <1>1, <1>2, <1>4, <1>6, <1>7, <1>8, <1>9 DEF Reads

(* The parts of two sequences that are the same.                            *)
LEMMA LongestIs ==
  ASSUME NEW k \in Nat, NEW T, T \subseteq 0..k, T # {}
  PROVE  Longest(T) \in T /\ \A m \in T : m <= Longest(T)
<1> DEFINE U == {k - i : i \in T}
<1>1. U \subseteq Nat /\ U # {}
  <2>1. ASSUME NEW i \in T PROVE k - i \in Nat
    <3> i \in 0..k
      OBVIOUS
    <3> QED OBVIOUS
  <2> QED BY <2>1
<1>2. PICK m \in U : \A i \in U : m <= i
  <2> HIDE DEF U
  <2> QED BY <1>1, LeastOf
<1>3. PICK n \in T : m = k - n
  BY <1>2
<1>4. \A i \in T : i <= n
  <2> TAKE i \in T
  <2> k - i \in U
    OBVIOUS
  <2> k - n <= k - i /\ k - i \in Int /\ i \in Int /\ n \in Int
    BY <1>2, <1>3
  <2> QED OBVIOUS
<1> QED BY <1>3, <1>4 DEF Longest

LEMMA PrefixIs ==
  ASSUME NEW S, NEW o \in Seq(S), NEW p \in Seq(S), NEW n \in Nat, NEW m \in Nat, Len(o) = n, Len(p) = m
  PROVE  /\ CommonPrefix(o, p) \in Nat /\ CommonPrefix(o, p) <= n /\ CommonPrefix(o, p) <= m
         /\ \A i \in 1..CommonPrefix(o, p) : o[i] = p[i]
<1> DEFINE k == Least(n, m)
           T == {i \in 0..k : SubSeq(o, 1, i) = SubSeq(p, 1, i)}
           x == CommonPrefix(o, p)
<1>1. k \in Nat /\ k <= n /\ k <= m
  BY DEF Least
<1>2. x = Longest(T)
  BY DEF CommonPrefix
<1> HIDE DEF k, x
<1>3. x \in T
  <2>1. SubSeq(o, 1, 0) = <<>> /\ SubSeq(p, 1, 0) = <<>>
    BY SubSeqEmpty
  <2>2. 0 \in T /\ T \subseteq 0..k
    BY <1>1, <2>1
  <2> HIDE DEF T
  <2> QED BY <1>1, <1>2, <2>2, LongestIs
<1>4. ASSUME NEW i \in 1..x PROVE o[i] = p[i]
  <2>1. /\ 1 \in Nat /\ x \in Int /\ 1 <= 1 /\ 1 - 1 <= x /\ x <= Len(o) /\ x <= Len(p)
        /\ i \in 1..x-1+1 /\ 1 + i - 1 = i
    BY <1>1, <1>3
  <2>2. SubSeq(o, 1, x)[i] = o[1 + i - 1]
    BY <2>1, PartIs
  <2>3. SubSeq(p, 1, x)[i] = p[1 + i - 1]
    BY <2>1, PartIs
  <2> QED BY <1>3, <2>1, <2>2, <2>3
<1> QED BY <1>1, <1>3, <1>4 DEF x

EndAlike(o, p, n, m, x, y) ==
  /\ y \in Nat /\ x + y <= n /\ x + y <= m
  /\ \A i \in 1..y : o[n - y + i] = p[m - y + i]
  /\ x < n /\ x < m /\ o[n] = p[m] => 1 <= y
LEMMA SuffixIs ==
  ASSUME NEW S, NEW o \in Seq(S), NEW p \in Seq(S), NEW n \in Nat, NEW m \in Nat, Len(o) = n, Len(p) = m,
         NEW x \in Nat, x <= n, x <= m
  PROVE  EndAlike(o, p, n, m, x, CommonSuffix(o, p, x))
<1> DEFINE k == Least(n, m) - x
           T == {i \in 0..k : SubSeq(o, n - i + 1, n) = SubSeq(p, m - i + 1, m)}
           y == CommonSuffix(o, p, x)
<1>1. k \in Nat /\ x + k <= n /\ x + k <= m /\ (x < n /\ x < m => 1 <= k)
  BY DEF Least
<1>2. y = Longest(T)
  BY DEF CommonSuffix
<1> HIDE DEF k, y
<1>3. y \in T /\ \A i \in T : i <= y
  <2>0. n - 0 + 1 \in Int /\ m - 0 + 1 \in Int /\ n < n - 0 + 1 /\ m < m - 0 + 1
    OBVIOUS
  <2>1. SubSeq(o, n - 0 + 1, n) = <<>> /\ SubSeq(p, m - 0 + 1, m) = <<>>
    BY <2>0, SubSeqEmpty
  <2>2. 0 \in T /\ T \subseteq 0..k
    BY <1>1, <2>1
  <2> HIDE DEF T
  <2> QED BY <1>1, <1>2, <2>2, LongestIs
<1>5. y \in Nat /\ x + y <= n /\ x + y <= m
  BY <1>1, <1>3
<1>6. ASSUME NEW j \in 0..k
      PROVE  /\ Len(SubSeq(o, n - j + 1, n)) = j /\ \A i \in 1..j : SubSeq(o, n - j + 1, n)[i] = o[n - j + i]
             /\ Len(SubSeq(p, m - j + 1, m)) = j /\ \A i \in 1..j : SubSeq(p, m - j + 1, m)[i] = p[m - j + i]
             /\ SubSeq(o, n - j + 1, n) \in Seq(S) /\ SubSeq(p, m - j + 1, m) \in Seq(S)
  <2> DEFINE a == n - j + 1
             b == m - j + 1
  <2>1. /\ a \in Nat /\ 1 <= a /\ a - 1 <= n /\ n <= Len(o) /\ n \in Int /\ n - a + 1 = j
        /\ b \in Nat /\ 1 <= b /\ b - 1 <= m /\ m <= Len(p) /\ m \in Int /\ m - b + 1 = j
        /\ \A i \in 1..j : a + i - 1 = n - j + i /\ b + i - 1 = m - j + i
    BY <1>1
  <2> HIDE DEF a, b
  <2>2. /\ SubSeq(o, a, n) \in Seq(S) /\ Len(SubSeq(o, a, n)) = n - a + 1
        /\ \A i \in 1..n-a+1 : SubSeq(o, a, n)[i] = o[a + i - 1]
    BY <2>1, PartIs
  <2>3. /\ SubSeq(p, b, m) \in Seq(S) /\ Len(SubSeq(p, b, m)) = m - b + 1
        /\ \A i \in 1..m-b+1 : SubSeq(p, b, m)[i] = p[b + i - 1]
    BY <2>1, PartIs
  <2>4. \A i \in 1..j : SubSeq(o, a, n)[i] = o[n - j + i] /\ SubSeq(p, b, m)[i] = p[m - j + i]
    BY <2>1, <2>2, <2>3
  <2> QED BY <2>1, <2>2, <2>3, <2>4 DEF a, b
<1>7. ASSUME NEW i \in 1..y PROVE o[n - y + i] = p[m - y + i]
  <2>1. y \in 0..k /\ SubSeq(o, n - y + 1, n) = SubSeq(p, m - y + 1, m)
    BY <1>3
  <2>2. SubSeq(o, n - y + 1, n)[i] = o[n - y + i] /\ SubSeq(p, m - y + 1, m)[i] = p[m - y + i]
    BY <1>6, <2>1
  <2> QED BY <2>1, <2>2
<1>8. ASSUME x < n, x < m, o[n] = p[m] PROVE 1 <= y
  <2>1. 1 \in 0..k /\ n - 1 + 1 = n /\ m - 1 + 1 = m
    BY <1>1, <1>8
  <2>2. SubSeq(o, n - 1 + 1, n) = SubSeq(p, m - 1 + 1, m)
    <3> DEFINE s == SubSeq(o, n - 1 + 1, n)
               t == SubSeq(p, m - 1 + 1, m)
    <3>1. /\ s \in Seq(S) /\ t \in Seq(S) /\ Len(s) = 1 /\ Len(t) = 1
          /\ \A i \in 1..1 : s[i] = o[n - 1 + i] /\ t[i] = p[m - 1 + i]
      BY <1>6, <2>1
    <3> HIDE DEF s, t
    <3>2. \A i \in 1..Len(s) : s[i] = t[i]
      <4> TAKE i \in 1..Len(s)
      <4> i = 1 /\ i \in 1..1
        BY <3>1
      <4> QED BY <1>8, <2>1, <3>1
    <3>3. s = t
      BY <3>1, <3>2, SeqEqual
    <3> QED BY <3>3 DEF s, t
  <2>3. 1 \in T
    BY <2>1, <2>2
  <2> HIDE DEF T
  <2> QED BY <1>3, <2>3
<1> QED BY <1>5, <1>7, <1>8 DEF y, EndAlike

Alike(o, a, b, p, c, d, l) ==
  /\ a \in Nat /\ b \in Int /\ c \in Nat /\ d \in Int /\ l \in Nat
  /\ 1 <= a /\ 1 <= c /\ b = a + l - 1 /\ d = c + l - 1 /\ b <= Len(o) /\ d <= Len(p)
  /\ \A i \in 1..l : o[a + i - 1] = p[c + i - 1]
OnePart(o, a, b, p, c, d) == SubSeq(o, a, b) = SubSeq(p, c, d)
LEMMA SamePart ==
  ASSUME NEW S, NEW o \in Seq(S), NEW p \in Seq(S), NEW a, NEW b, NEW c, NEW d, NEW l, Alike(o, a, b, p, c, d, l)
  PROVE  OnePart(o, a, b, p, c, d)
<1> DEFINE left == SubSeq(o, a, b)
           right == SubSeq(p, c, d)
<1>0. /\ a \in Nat /\ b \in Int /\ c \in Nat /\ d \in Int /\ l \in Nat
      /\ 1 <= a /\ 1 <= c /\ a - 1 <= b /\ c - 1 <= d /\ b - a + 1 = l /\ d - c + 1 = l /\ b <= Len(o) /\ d <= Len(p)
      /\ \A i \in 1..l : o[a + i - 1] = p[c + i - 1]
  BY DEF Alike
<1>1. left \in Seq(S) /\ Len(left) = l /\ \A i \in 1..l : left[i] = o[a + i - 1]
  <2> left \in Seq(S) /\ Len(left) = b - a + 1 /\ \A i \in 1..b-a+1 : left[i] = o[a + i - 1]
    BY <1>0, PartIs
  <2> QED BY <1>0
<1>2. right \in Seq(S) /\ Len(right) = l /\ \A i \in 1..l : right[i] = p[c + i - 1]
  <2> right \in Seq(S) /\ Len(right) = d - c + 1 /\ \A i \in 1..d-c+1 : right[i] = p[c + i - 1]
    BY <1>0, PartIs
  <2> QED BY <1>0
<1> HIDE DEF left, right
<1>3. Len(left) = Len(right) /\ \A i \in 1..Len(left) : left[i] = right[i]
  BY <1>0, <1>1, <1>2
<1>4. left = right
  BY <1>1, <1>2, <1>3, SeqEqual
<1> QED BY <1>4 DEF left, right, OnePart

(* The diff of two texts: the part in which they differ and the lines       *)
(* around it, in the text before and in the text after.                     *)
Window2(o, p, f, u, x, y) ==
  /\ f \in Nat /\ u \in Nat /\ x \in Nat /\ y \in Nat
  /\ x + y <= Len(o) /\ x + y <= Len(p) /\ f <= x /\ (f = 0 \/ f < x) /\ u <= Len(o) /\ Len(o) - y <= u
  /\ \A i \in 1..x : o[i] = p[i]
  /\ \A i \in 1..y : o[Len(o) - y + i] = p[Len(p) - y + i]
  /\ x < Len(o) /\ x < Len(p) /\ o[Len(o)] = p[Len(p)] => 1 <= y
Shows(h, o, p, f, u, x, y) ==
  /\ h.start = f + 1
  /\ Unmarked(h.body, {" ", "-"}) = SubSeq(o, f + 1, u) /\ h.olds = Len(SubSeq(o, f + 1, u))
  /\ Unmarked(h.body, {" ", "+"}) = SubSeq(p, f + 1, Len(p) - Len(o) + u)
  /\ h.news = Len(SubSeq(p, f + 1, Len(p) - Len(o) + u))
  /\ Unmarked(h.body, {"+"}) = SubSeq(p, x + 1, Len(p) - y)

LEMMA DiffIs ==
  ASSUME NEW S, NEW file, NEW o \in Seq(S), NEW p \in Seq(S)
  PROVE  \E f, u, x, y \in Nat : \E h :
           /\ BuildUnifiedDiff(file, o, p) = [headers |-> TRUE, prefixed |-> TRUE, files |-> {file}, hunks |-> <<h>>]
           /\ h.body \in Seq(BodyLines(S)) /\ Window2(o, p, f, u, x, y) /\ Shows(h, o, p, f, u, x, y)
<1> DEFINE n == Len(o)
           m == Len(p)
           x == CommonPrefix(o, p)
           y == CommonSuffix(o, p, x)
           f == IF x <= Context THEN 0 ELSE x - Context
           u == Least(n, n - y + Context)
           before == SubSeq(o, f + 1, x)
           removed == SubSeq(o, x + 1, n - y)
           added == SubSeq(p, x + 1, m - y)
           after == SubSeq(o, n - y + 1, u)
           h == Hunk(f + 1, before, removed, added, after)
<1>1. BuildUnifiedDiff(file, o, p) = [headers |-> TRUE, prefixed |-> TRUE, files |-> {file}, hunks |-> <<h>>]
  BY DEF BuildUnifiedDiff, DiffWith
<1>2. n \in Nat /\ m \in Nat /\ Len(o) = n /\ Len(p) = m /\ Context \in Nat \ {0}
  BY LenProperties, DraftAssumption DEF DraftAssumption
<1> HIDE DEF n, m
<1>3. x \in Nat /\ x <= n /\ x <= m /\ \A i \in 1..x : o[i] = p[i]
  BY <1>2, PrefixIs
<1> HIDE DEF x
<1>4. /\ y \in Nat /\ x + y <= n /\ x + y <= m
      /\ \A i \in 1..y : o[n - y + i] = p[m - y + i]
      /\ x < n /\ x < m /\ o[n] = p[m] => 1 <= y
  <2> EndAlike(o, p, n, m, x, y)
    BY <1>2, <1>3, SuffixIs
  <2> QED BY DEF EndAlike
<1> HIDE DEF y
<1>5. f \in Nat /\ f <= x /\ (f = 0 \/ f < x)
  BY <1>2, <1>3
<1>6. u \in Nat /\ u <= n /\ n - y <= u
  BY <1>2, <1>3, <1>4 DEF Least
<1> HIDE DEF f, u
<1>7. Window2(o, p, f, u, x, y)
  BY <1>2, <1>3, <1>4, <1>5, <1>6 DEF Window2
<1> DEFINE v == m - n + u
<1>8. v \in Nat /\ m - y <= v /\ v <= m /\ x <= n - y /\ x <= m - y
  BY <1>2, <1>3, <1>4, <1>6
<1> HIDE DEF v
<1>9. before \in Seq(S) /\ removed \in Seq(S) /\ added \in Seq(S) /\ after \in Seq(S)
  <2>1. /\ f + 1 \in Nat /\ x + 1 \in Nat /\ n - y + 1 \in Nat /\ x \in Int /\ n - y \in Int /\ m - y \in Int /\ u \in Int
        /\ 1 <= f + 1 /\ 1 <= x + 1 /\ 1 <= n - y + 1
        /\ f + 1 - 1 <= x /\ x + 1 - 1 <= n - y /\ x + 1 - 1 <= m - y /\ n - y + 1 - 1 <= u
        /\ x <= Len(o) /\ n - y <= Len(o) /\ m - y <= Len(p) /\ u <= Len(o)
    BY <1>2, <1>3, <1>4, <1>5, <1>6, <1>8
  <2>2. \A a \in Nat : \A b \in Int : 1 <= a /\ a - 1 <= b /\ b <= Len(o) => SubSeq(o, a, b) \in Seq(S)
    BY PartIs
  <2>3. \A a \in Nat : \A b \in Int : 1 <= a /\ a - 1 <= b /\ b <= Len(p) => SubSeq(p, a, b) \in Seq(S)
    BY PartIs
  <2> QED BY <2>1, <2>2, <2>3
<1>10. before \o removed \o after = SubSeq(o, f + 1, u)
  <2>1. /\ f + 1 \in 1..Len(o)+1 /\ x \in (f+1)-1..Len(o) /\ n - y \in x..Len(o)
        /\ n - y \in (f+1)-1..Len(o) /\ u \in n-y..Len(o)
    BY <1>2, <1>3, <1>4, <1>5, <1>6, <1>8
  <2>2. before \o removed = SubSeq(o, f + 1, n - y)
    BY <2>1, ConcatAdjacentSubSeq
  <2>3. SubSeq(o, f + 1, n - y) \o after = SubSeq(o, f + 1, u)
    BY <2>1, ConcatAdjacentSubSeq
  <2> QED BY <2>2, <2>3
<1>11. before \o added \o after = SubSeq(p, f + 1, v)
  <2>1. before = SubSeq(p, f + 1, x)
    <3> DEFINE a == f + 1
               l == x - f
    <3>1. a \in Nat /\ x \in Int /\ l \in Nat /\ 1 <= a /\ x = a + l - 1 /\ x <= Len(o) /\ x <= Len(p)
      BY <1>2, <1>3, <1>5
    <3>2. \A i \in 1..l : o[a + i - 1] = p[a + i - 1]
      <4> TAKE i \in 1..l
      <4> a + i - 1 \in 1..x
        BY <1>3, <1>5
      <4> QED BY <1>3
    <3> HIDE DEF a, l
    <3>3. SubSeq(o, a, x) = SubSeq(p, a, x)
      <4> Alike(o, a, x, p, a, x, l)
        BY <3>1, <3>2 DEF Alike
      <4> OnePart(o, a, x, p, a, x)
        BY SamePart
      <4> QED BY DEF OnePart
    <3> QED BY <3>3 DEF a
  <2>2. after = SubSeq(p, m - y + 1, v)
    <3> DEFINE a == n - y + 1
               c == m - y + 1
               l == u - (n - y)
    <3>1. /\ a \in Nat /\ u \in Int /\ c \in Nat /\ v \in Int /\ l \in Nat /\ 1 <= a /\ 1 <= c
          /\ u = a + l - 1 /\ v = c + l - 1 /\ u <= Len(o) /\ v <= Len(p)
      <4> v = m - n + u
        BY DEF v
      <4> QED BY <1>2, <1>3, <1>4, <1>6, <1>8
    <3>2. \A i \in 1..l : o[a + i - 1] = p[c + i - 1]
      <4> TAKE i \in 1..l
      <4> i \in 1..y /\ a + i - 1 = n - y + i /\ c + i - 1 = m - y + i
        BY <1>2, <1>4, <1>6
      <4> QED BY <1>4
    <3> HIDE DEF a, c, l
    <3>3. SubSeq(o, a, u) = SubSeq(p, c, v)
      <4> Alike(o, a, u, p, c, v, l)
        BY <3>1, <3>2 DEF Alike
      <4> OnePart(o, a, u, p, c, v)
        BY SamePart
      <4> QED BY DEF OnePart
    <3> QED BY <3>3 DEF a, c
  <2>3. /\ f + 1 \in 1..Len(p)+1 /\ x \in (f+1)-1..Len(p) /\ m - y \in x..Len(p)
        /\ m - y \in (f+1)-1..Len(p) /\ v \in m-y..Len(p)
    BY <1>2, <1>3, <1>4, <1>5, <1>6, <1>8
  <2>4. SubSeq(p, f + 1, x) \o added = SubSeq(p, f + 1, m - y)
    BY <2>3, ConcatAdjacentSubSeq
  <2>5. SubSeq(p, f + 1, m - y) \o SubSeq(p, m - y + 1, v) = SubSeq(p, f + 1, v)
    BY <2>3, ConcatAdjacentSubSeq
  <2> QED BY <2>1, <2>2, <2>4, <2>5
<1> HIDE DEF before, removed, added, after
<1>12. /\ h.start = f + 1 /\ h.olds = Len(before \o removed \o after) /\ h.news = Len(before \o added \o after)
       /\ h.body \in Seq(BodyLines(S))
       /\ Unmarked(h.body, {" ", "-"}) = before \o removed \o after
       /\ Unmarked(h.body, {" ", "+"}) = before \o added \o after
       /\ Unmarked(h.body, {"+"}) = added
  <2> DEFINE k == f + 1
  <2>1. h = Hunk(k, before, removed, added, after)
    OBVIOUS
  <2> HIDE DEF h, k
  <2>2. h.body \in Seq(BodyLines(S)) /\ Reads(h, k, before, removed, added, after)
    BY <1>9, <2>1, HunkIs
  <2> QED BY <2>2 DEF k, Reads
<1> HIDE DEF h
<1>13. Shows(h, o, p, f, u, x, y)
  BY <1>10, <1>11, <1>12 DEF Shows, v, n, m, added
<1> QED BY <1>1, <1>3, <1>4, <1>5, <1>6, <1>7, <1>12, <1>13

-----------------------------------------------------------------------------
(* Where a hunk stands, as code that is quoted from a file does, and what  *)
(* it makes of the text.                                                   *)
QuotedAt(F, o, A) == A >= 1 /\ A + Len(o) - 1 <= Len(F) /\ \A i \in 1..Len(o) : F[A + i - 1] = o[i]
LEMMA StandingIs ==
  ASSUME NEW S, NEW lines \in Seq(S), NEW old \in Seq(S), NEW at \in Int
  PROVE  StandsAt(lines, old, at) <=> QuotedAt(lines, old, at)
<1> DEFINE l == Len(old)
           b == at + l - 1
           part == SubSeq(lines, at, b)
<1>1. l \in Nat /\ Len(old) = l
  BY LenProperties
<1> HIDE DEF l
<1>2. ASSUME at >= 1, b <= Len(lines)
      PROVE  part = old <=> \A i \in 1..l : lines[at + i - 1] = old[i]
  <2>1. at \in Nat /\ b \in Int /\ 1 <= at /\ at - 1 <= b /\ b <= Len(lines) /\ b - at + 1 = l
    BY <1>1, <1>2
  <2> HIDE DEF b
  <2>2. part \in Seq(S) /\ Len(part) = b - at + 1 /\ \A i \in 1..b-at+1 : part[i] = lines[at + i - 1]
    BY <2>1, PartIs
  <2> HIDE DEF part
  <2>3. (\A i \in 1..Len(part) : part[i] = old[i]) => part = old
    <3> Len(part) = Len(old)
      BY <1>1, <2>1, <2>2
    <3> QED BY <2>2, SeqEqual
  <2> QED BY <1>1, <2>1, <2>2, <2>3
<1>3. StandsAt(lines, old, at) <=> at >= 1 /\ b <= Len(lines) /\ part = old
  BY DEF StandsAt, l
<1> HIDE DEF part
<1> QED BY <1>1, <1>2, <1>3 DEF QuotedAt

LEMMA ApplyIs ==
  ASSUME NEW S, NEW lines \in Seq(S), NEW h, h.old \in Seq(S), h.new \in Seq(S), h.start \in Nat, lines # Conflict
  PROVE  /\ Stands(lines, h.old) = {} => ApplyHunk(lines, h) = Conflict
         /\ Stands(lines, h.old) # {} =>
              \E at \in Stands(lines, h.old) :
                /\ ApplyHunk(lines, h) = Spliced(lines, at, at + Len(h.old) - 1, h.new)
                /\ StandsAt(lines, h.old, h.start) => at = h.start
<1> DEFINE all == Stands(lines, h.old)
           places == IF StandsAt(lines, h.old, h.start) THEN {h.start} ELSE all
           at == CHOOSE p \in places : \A q \in places : p <= q
           l == Len(h.old)
           n == Len(lines)
<1>1. l \in Nat /\ n \in Nat
  BY LenProperties
<1>2. ApplyHunk(lines, h) = IF places = {} THEN Conflict
                            ELSE SubSeq(lines, 1, at - 1) \o h.new \o SubSeq(lines, at + l, n)
  BY DEF ApplyHunk
<1>3. all \subseteq Nat
  BY <1>1 DEF Stands
<1>4. StandsAt(lines, h.old, h.start) => h.start \in all
  <2> SUFFICES ASSUME StandsAt(lines, h.old, h.start) PROVE h.start \in all
    OBVIOUS
  <2>1. h.start >= 1 /\ h.start + l - 1 <= n
    BY DEF StandsAt
  <2>2. h.start \in 1..n+1
    BY <1>1, <2>1
  <2> QED BY <2>2 DEF Stands
<1> HIDE DEF all, l, n
<1>5. CASE all = {}
  <2> places = {}
    BY <1>4, <1>5
  <2> QED BY <1>2, <1>5 DEF all
<1>6. CASE all # {}
  <2>1. places # {} /\ places \subseteq Nat /\ places \subseteq all
    BY <1>3, <1>4, <1>6
  <2>2. \E p \in places : \A q \in places : p <= q
    <3> HIDE DEF places
    <3> QED BY <2>1, LeastOf
  <2>3. at \in places
    <3> HIDE DEF places
    <3> QED BY <2>2
  <2>4. at \in Nat /\ at \in all
    BY <2>1, <2>3
  <2>5. StandsAt(lines, h.old, h.start) => at = h.start
    <3> HIDE DEF at
    <3> QED BY <2>3
  <2>6. ApplyHunk(lines, h) = SubSeq(lines, 1, at - 1) \o h.new \o SubSeq(lines, at + l, n)
    BY <1>2, <2>1
  <2> HIDE DEF places, at
  <2>7. at + l - 1 + 1 = at + l
    BY <1>1, <2>4
  <2>8. ApplyHunk(lines, h) = Spliced(lines, at, at + l - 1, h.new)
    BY <2>6, <2>7 DEF Spliced, n
  <2> QED BY <1>6, <2>4, <2>5, <2>8 DEF all, l
<1> QED BY <1>5, <1>6 DEF all

LEMMA OneInTurn ==
  ASSUME NEW lines, NEW d, NEW g, d.hunks = <<g>>
  PROVE  /\ ApplyUnifiedDiff(lines, d) = ApplyHunk(lines, ParsedHunk(g))
         /\ ParseUnifiedHunks(d) = <<ParsedHunk(g)>>
<1> DEFINE hs == ParseUnifiedHunks(d)
           order == LastFirst(hs)
           h == ParsedHunk(g)
           Next0(f) == [k \in 0..Len(hs) |-> IF k = 0 THEN lines ELSE ApplyHunk(f[k - 1], hs[order[k]])]
           after == CHOOSE f : f = Next0(f)
<1>1. hs = <<h>>
  BY DEF ParseUnifiedHunks
<1>2. ApplyUnifiedDiff(lines, d) = after[Len(hs)]
  BY DEF ApplyUnifiedDiff, ApplyInTurn
<1>3. DOMAIN hs = {1} /\ Len(hs) = 1 /\ hs[1] = h
  BY <1>1
<1> HIDE DEF hs, h
<1>4. order[1] = 1
  <2> DEFINE Ok(s) == \A j, k \in DOMAIN hs : j < k =>
               \/ hs[s[j]].start > hs[s[k]].start
               \/ hs[s[j]].start = hs[s[k]].start /\ s[j] < s[k]
             one == [k \in DOMAIN hs |-> 1]
  <2>1. one \in [DOMAIN hs -> DOMAIN hs] /\ Ok(one)
    BY <1>3
  <2>2. order = CHOOSE s \in [DOMAIN hs -> DOMAIN hs] : Ok(s)
    BY DEF LastFirst
  <2> HIDE DEF Ok, order, one
  <2>3. order \in [DOMAIN hs -> DOMAIN hs]
    BY <2>1, <2>2
  <2> QED BY <1>3, <2>3
<1> HIDE DEF order
<1> DEFINE g0 == [k \in 0..1 |-> IF k = 0 THEN lines ELSE ApplyHunk(lines, h)]
<1>5. g0 = Next0(g0)
  <2>1. g0[0] = lines
    OBVIOUS
  <2>2. \A k \in 0..1 : g0[k] = IF k = 0 THEN lines ELSE ApplyHunk(g0[k - 1], hs[order[k]])
    <3> TAKE k \in 0..1
    <3> k = 0 \/ k = 1
      OBVIOUS
    <3> QED BY <1>3, <1>4, <2>1
  <2> HIDE DEF g0
  <2>3. g0 = [k \in 0..1 |-> g0[k]]
    BY DEF g0
  <2> QED BY <1>3, <2>2, <2>3
<1>6. after = Next0(after)
  BY <1>5
<1> HIDE DEF after
<1>7. after[0] = lines /\ after[1] = ApplyHunk(after[0], h)
  <2> 0 \in 0..Len(hs) /\ 1 \in 0..Len(hs) /\ 1 - 1 = 0
    BY <1>3
  <2> QED BY <1>3, <1>4, <1>6
<1> QED BY <1>1, <1>2, <1>3, <1>7 DEF h, hs

LEMMA TwoInTurn ==
  ASSUME NEW lines, NEW d, NEW g, NEW e, d.hunks = <<g, e>>, g.start \in Nat, e.start \in Nat, g.start < e.start
  PROVE  /\ ApplyUnifiedDiff(lines, d) = ApplyHunk(ApplyHunk(lines, ParsedHunk(e)), ParsedHunk(g))
         /\ ParseUnifiedHunks(d) = <<ParsedHunk(g), ParsedHunk(e)>>
<1> DEFINE hs == ParseUnifiedHunks(d)
           order == LastFirst(hs)
           h == ParsedHunk(g)
           i == ParsedHunk(e)
           Next0(f) == [k \in 0..Len(hs) |-> IF k = 0 THEN lines ELSE ApplyHunk(f[k - 1], hs[order[k]])]
           after == CHOOSE f : f = Next0(f)
<1>1. hs = <<h, i>>
  BY DEF ParseUnifiedHunks
<1>2. ApplyUnifiedDiff(lines, d) = after[Len(hs)]
  BY DEF ApplyUnifiedDiff, ApplyInTurn
<1>3. DOMAIN hs = {1, 2} /\ Len(hs) = 2 /\ hs[1] = h /\ hs[2] = i
  BY <1>1
<1>8. h.start \in Nat /\ i.start \in Nat /\ h.start < i.start
  BY DEF ParsedHunk
<1> HIDE DEF hs, h, i
<1>4. order[1] = 2 /\ order[2] = 1
  <2> DEFINE Ok(s) == \A j, k \in DOMAIN hs : j < k =>
               \/ hs[s[j]].start > hs[s[k]].start
               \/ hs[s[j]].start = hs[s[k]].start /\ s[j] < s[k]
             turned == [k \in DOMAIN hs |-> IF k = 1 THEN 2 ELSE 1]
  <2>1. turned \in [DOMAIN hs -> DOMAIN hs] /\ Ok(turned)
    BY <1>3, <1>8
  <2>2. order = CHOOSE s \in [DOMAIN hs -> DOMAIN hs] : Ok(s)
    BY DEF LastFirst
  <2> HIDE DEF Ok, order, turned
  <2>3. order \in [DOMAIN hs -> DOMAIN hs] /\ Ok(order)
    BY <2>1, <2>2
  <2>4. order[1] \in {1, 2} /\ order[2] \in {1, 2}
    BY <1>3, <2>3
  <2>5. \/ hs[order[1]].start > hs[order[2]].start
        \/ hs[order[1]].start = hs[order[2]].start /\ order[1] < order[2]
    BY <1>3, <2>3 DEF Ok
  <2> QED BY <1>3, <1>8, <2>4, <2>5
<1> HIDE DEF order
<1> DEFINE once == ApplyHunk(lines, i)
           twice == ApplyHunk(once, h)
           g0 == [k \in 0..2 |-> IF k = 0 THEN lines ELSE IF k = 1 THEN once ELSE twice]
<1>5. g0 = Next0(g0)
  <2>1. g0[0] = lines /\ g0[1] = once /\ g0[2] = twice
    OBVIOUS
  <2>2. \A k \in 0..2 : g0[k] = IF k = 0 THEN lines ELSE ApplyHunk(g0[k - 1], hs[order[k]])
    <3> TAKE k \in 0..2
    <3> k = 0 \/ k = 1 \/ k = 2
      OBVIOUS
    <3> HIDE DEF g0
    <3> QED BY <1>3, <1>4, <2>1
  <2> HIDE DEF g0
  <2>3. g0 = [k \in 0..2 |-> g0[k]]
    BY DEF g0
  <2> QED BY <1>3, <2>2, <2>3
<1>6. after = Next0(after)
  BY <1>5
<1> HIDE DEF after
<1>7. after[0] = lines /\ after[1] = ApplyHunk(after[0], i) /\ after[2] = ApplyHunk(after[1], h)
  <2> 0 \in 0..Len(hs) /\ 1 \in 0..Len(hs) /\ 2 \in 0..Len(hs) /\ 1 - 1 = 0 /\ 2 - 1 = 1
    BY <1>3
  <2> QED BY <1>3, <1>4, <1>6
<1> QED BY <1>1, <1>2, <1>3, <1>7 DEF h, i, hs

(* The lines of one body, and of two put end to end.                        *)
LEMMA FlatOne ==
  ASSUME NEW d, NEW g, d.hunks = <<g>>
  PROVE  Body(d) = g.body
<1> DEFINE s == [i \in DOMAIN d.hunks |-> d.hunks[i].body]
           Next0(f) == [i \in 1..Len(s) |-> IF i = 1 THEN s[i] ELSE f[i-1] \o s[i]]
           to == CHOOSE f : f = Next0(f)
<1>1. DOMAIN d.hunks = {1} /\ d.hunks[1] = g /\ {1} = 1..1
  OBVIOUS
<1>2. s = <<g.body>>
  BY <1>1
<1>3. Len(s) = 1 /\ s[1] = g.body
  BY <1>2
<1>4. Body(d) = to[Len(s)]
  BY <1>3 DEF Body, FlattenSeq
<1> HIDE DEF s
<1> DEFINE g0 == [i \in 1..1 |-> g.body]
<1>5. g0 = Next0(g0)
  <2>1. \A i \in 1..1 : g0[i] = IF i = 1 THEN s[i] ELSE g0[i-1] \o s[i]
    <3> TAKE i \in 1..1
    <3> i = 1
      OBVIOUS
    <3> QED BY <1>3
  <2>2. g0 = [i \in 1..1 |-> g0[i]]
    OBVIOUS
  <2> HIDE DEF g0
  <2> QED BY <1>3, <2>1, <2>2
<1>6. to = Next0(to)
  BY <1>5
<1> HIDE DEF to
<1>7. to[1] = s[1]
  <2> 1 \in 1..Len(s)
    BY <1>3
  <2> QED BY <1>6
<1> QED BY <1>3, <1>4, <1>7

LEMMA FlatTwo ==
  ASSUME NEW d, NEW g, NEW e, d.hunks = <<g, e>>
  PROVE  Body(d) = g.body \o e.body
<1> DEFINE s == [i \in DOMAIN d.hunks |-> d.hunks[i].body]
           Next0(f) == [i \in 1..Len(s) |-> IF i = 1 THEN s[i] ELSE f[i-1] \o s[i]]
           to == CHOOSE f : f = Next0(f)
<1>1. DOMAIN d.hunks = {1, 2} /\ d.hunks[1] = g /\ d.hunks[2] = e /\ {1, 2} = 1..2
  OBVIOUS
<1>2. s = <<g.body, e.body>>
  BY <1>1
<1>3. Len(s) = 2 /\ s[1] = g.body /\ s[2] = e.body
  BY <1>2
<1>4. Body(d) = to[Len(s)]
  BY <1>3 DEF Body, FlattenSeq
<1> HIDE DEF s
<1> DEFINE Joined(x, y) == x \o y
           both == Joined(s[1], s[2])
           g0 == [i \in 1..2 |-> IF i = 1 THEN s[1] ELSE both]
<1>5. g0 = Next0(g0)
  <2>0. g0[1] = s[1] /\ g0[2] = both
    <3> HIDE DEF Joined, both
    <3> QED OBVIOUS
  <2>1. g0 = [i \in 1..2 |-> g0[i]]
    OBVIOUS
  <2> HIDE DEF g0
  <2>2. \A i \in 1..2 : g0[i] = IF i = 1 THEN s[i] ELSE Joined(g0[i-1], s[i])
    <3> TAKE i \in 1..2
    <3>1. CASE i = 1
      BY <2>0, <3>1
    <3>2. CASE i = 2
      <4>1. i - 1 = 1 /\ i # 1
        BY <3>2
      <4> HIDE DEF Joined
      <4>2. g0[i] = Joined(g0[i-1], s[i])
        BY <2>0, <3>2, <4>1
      <4> QED BY <4>1, <4>2
    <3> QED BY <3>1, <3>2
  <2>3. Next0(g0) = [i \in 1..2 |-> IF i = 1 THEN s[i] ELSE Joined(g0[i-1], s[i])]
    BY <1>3
  <2> HIDE DEF Joined, Next0
  <2> QED BY <2>1, <2>2, <2>3
<1>6. to = Next0(to)
  BY <1>5
<1> HIDE DEF to
<1>7. to = [i \in 1..2 |-> IF i = 1 THEN s[i] ELSE Joined(to[i-1], s[i])]
  BY <1>3, <1>6
<1> HIDE DEF Joined
<1>8. to[1] = s[1]
  <2> 1 \in 1..2
    OBVIOUS
  <2> QED BY <1>7
<1>9. to[2] = Joined(to[1], s[2])
  <2> 2 \in 1..2 /\ 2 # 1 /\ 2 - 1 = 1
    OBVIOUS
  <2> QED BY <1>7
<1>10. Body(d) = Joined(g.body, e.body)
  BY <1>3, <1>4, <1>8, <1>9
<1> QED BY <1>10 DEF Joined

LEMMA PartLines ==
  ASSUME NEW S, NEW s \in Seq(S), NEW a \in Nat, NEW b \in Int, 1 <= a, a - 1 <= b, b <= Len(s)
  PROVE  Lines(SubSeq(s, a, b)) = {s[i] : i \in a..b}
<1> DEFINE r == SubSeq(s, a, b)
<1>1. r \in Seq(S) /\ Len(r) = b - a + 1 /\ \A i \in 1..b-a+1 : r[i] = s[a + i - 1]
  BY PartIs
<1> HIDE DEF r
<1>2. DOMAIN r = 1..b-a+1
  BY <1>1, LenProperties
<1>3. ASSUME NEW i \in DOMAIN r PROVE r[i] \in {s[k] : k \in a..b}
  <2> a + i - 1 \in a..b
    BY <1>2
  <2> QED BY <1>1, <1>2
<1>4. ASSUME NEW i \in a..b PROVE s[i] \in Lines(r)
  <2>1. i - a + 1 \in DOMAIN r /\ i - a + 1 \in 1..b-a+1 /\ a + (i - a + 1) - 1 = i
    BY <1>2
  <2>2. r[i - a + 1] = s[i]
    BY <1>1, <2>1
  <2> QED BY <2>1, <2>2 DEF Lines
<1>5. Lines(r) \subseteq {s[k] : k \in a..b}
  BY <1>3 DEF Lines
<1> QED BY <1>4, <1>5 DEF r

-----------------------------------------------------------------------------
(* The lines a text and a change of it are made of; none of them stands    *)
(* for a diff that does not apply.                                         *)
Text(F) == Lines(F) \cup NewLines \cup {"", "unseen"}

LEMMA TextIs ==
  ASSUME NEW F \in Sources
  PROVE  /\ F \in Seq(Text(F)) /\ "" \in Text(F) /\ "a conflict" \notin Text(F) /\ "unseen" \notin Lines(F)
         /\ NewLines \subseteq Text(F) /\ Lines(F) \subseteq Text(F)
<1>1. F \in Seq(STRING \ {"unseen", "a conflict"})
  BY DraftAssumption
<1> DEFINE words == STRING \ {"unseen", "a conflict"}
<1>2. \A l \in words : l # "unseen" /\ l # "a conflict"
  OBVIOUS
<1>3. F \in Seq(words)
  BY <1>1
<1> HIDE DEF words
<1>4. \A i \in DOMAIN F : F[i] \in words
  BY <1>3, LenProperties, ElementOfSeq
<1>5. \A l \in Lines(F) : l # "unseen" /\ l # "a conflict"
  BY <1>2, <1>4 DEF Lines
<1>6. \A l \in NewLines : l # "a conflict"
  BY DraftAssumption
<1>7. F \in Seq(Text(F))
  <2>1. Len(F) \in Nat /\ F \in [1..Len(F) -> words]
    BY <1>3, LenProperties
  <2>2. \A i \in 1..Len(F) : F[i] \in Text(F)
    BY <2>1 DEF Lines, Text
  <2>3. F \in [1..Len(F) -> Text(F)]
    BY <2>1, <2>2
  <2> QED BY <2>1, <2>3, SeqDef
<1>8. "a conflict" # "" /\ "a conflict" # "unseen"
  OBVIOUS
<1>9. "a conflict" \notin Text(F)
  BY <1>5, <1>6, <1>8 DEF Text
<1> QED BY <1>5, <1>7, <1>9 DEF Text

LEMMA Alone ==
  ASSUME NEW S, NEW w \in S
  PROVE  <<w>> \in Seq(S) /\ Len(<<w>>) = 1 /\ <<w>>[1] = w
OBVIOUS

LEMMA Applied ==
  ASSUME NEW F \in Sources, NEW r \in Seq(Text(F))
  PROVE  r # Conflict
<1>1. SUFFICES ASSUME r = Conflict PROVE FALSE
  OBVIOUS
<1>2. PICK w : w = "a conflict"
  OBVIOUS
<1>3. r = <<w>>
  BY <1>1, <1>2 DEF Conflict
<1>4. Len(r) = 1 /\ r[1] = w
  BY <1>3, Alone
<1>5. 1 \in 1..Len(r)
  BY <1>4
<1>6. r[1] \in Text(F)
  BY <1>5, ElementOfSeq
<1> QED BY <1>2, <1>4, <1>6, TextIs

(* A text with a newline at its end, as a last line that is empty.         *)
Blank(w) == w = ""
Newline(e) == e \in {<<>>, <<"">>}
Ended(oe, o, k) ==
  /\ k \in {0, 1} /\ Len(oe) = Len(o) + k /\ (k = 1 => oe[Len(o) + 1] = "")
  /\ \A i \in 1..Len(o) : oe[i] = o[i]

LEMMA EndedIs ==
  ASSUME NEW S, NEW w \in S, Blank(w), NEW o \in Seq(S), NEW e, Newline(e)
  PROVE  o \o e \in Seq(S) /\ \E k \in {0, 1} : Ended(o \o e, o, k) /\ (e = <<>> <=> k = 0)
<1> DEFINE k == Len(e)
           n == Len(o)
           oe == o \o e
<1>2. e \in Seq(S) /\ k \in {0, 1} /\ (k = 1 => e[1] = w) /\ (e = <<>> <=> k = 0)
  BY Alone, EmptySeq DEF Blank, Newline
<1>3. n \in Nat
  BY LenProperties
<1>4. /\ oe \in Seq(S) /\ Len(oe) = n + k
      /\ \A i \in 1..n + k : oe[i] = IF i <= n THEN o[i] ELSE e[i - n]
  BY <1>2, ConcatProperties
<1> HIDE DEF oe, k, n
<1>5. \A i \in 1..n : oe[i] = o[i]
  <2> TAKE i \in 1..n
  <2> n + k \in Nat /\ n <= n + k
    BY <1>2, <1>3
  <2> i \in 1..n + k /\ i <= n
    BY <1>3
  <2> QED BY <1>4
<1>6. k = 1 => oe[n + 1] = w
  <2> SUFFICES ASSUME k = 1 PROVE oe[n + 1] = w
    OBVIOUS
  <2>1. \A j : j = n + 1 => j \in 1..n+k /\ ~(j <= n) /\ j - n = 1
    BY <1>3
  <2>2. \A j : j = n + 1 => oe[j] = e[1]
    BY <1>4, <2>1
  <2> QED BY <1>2, <2>2
<1>7. Ended(oe, o, k)
  BY <1>2, <1>4, <1>5, <1>6 DEF Ended, n, Blank
<1> QED BY <1>2, <1>4, <1>7 DEF oe

-----------------------------------------------------------------------------
(* What a diff does to a file it is applied to.                            *)
Strays(F, h, shift) ==
  /\ shift # 0 \/ ~StandsAt(F, h.old, h.start)
  /\ Stands(F, h.old) # {h.start + shift}
Changes(F, d, meant, shift) ==
  LET R == ApplyUnifiedDiff(F, d) IN
  R # Conflict =>
    /\ R = meant \/ \E h \in Lines(ParseUnifiedHunks(d)) : Strays(F, h, shift)
    /\ Lines(R) \ Lines(F) \subseteq AddedLines(d) \cap NewLines
    /\ AddedLines(d) \subseteq Lines(R)
    /\ \A l \in AddedLines(d) : \E i \in DOMAIN Body(d) : l = Body(d)[i].line

(* The part of a quoted text that a diff shows stands where the text does. *)
LEMMA PartStands ==
  ASSUME NEW S, NEW F \in Seq(S), NEW oe \in Seq(S), NEW at \in Nat, StandsAt(F, oe, at),
         NEW f \in Nat, NEW u \in Nat, f <= u, u <= Len(oe)
  PROVE  StandsAt(F, SubSeq(oe, f + 1, u), at + f) /\ at + f \in Stands(F, SubSeq(oe, f + 1, u))
<1> DEFINE old == SubSeq(oe, f + 1, u)
           n == Len(oe)
           t == Len(F)
<1>1. n \in Nat /\ t \in Nat /\ u <= n
  BY LenProperties
<1>2. old \in Seq(S) /\ Len(old) = u - f /\ \A i \in 1..u-f : old[i] = oe[f + i]
  <2> DEFINE c == f + 1
  <2>1. c \in Nat /\ 1 <= c /\ c - 1 <= u /\ u - c + 1 = u - f /\ \A i \in Int : c + i - 1 = f + i
    OBVIOUS
  <2> HIDE DEF c
  <2>2. SubSeq(oe, c, u) \in Seq(S) /\ Len(SubSeq(oe, c, u)) = u - c + 1 /\ \A i \in 1..u-c+1 : SubSeq(oe, c, u)[i] = oe[c + i - 1]
    BY <2>1, PartIs
  <2>3. SubSeq(oe, c, u) = old
    BY DEF c
  <2> HIDE DEF old
  <2>4. old \in Seq(S) /\ Len(old) = u - f
    BY <2>1, <2>2, <2>3
  <2>5. \A i \in 1..u-f : old[i] = oe[f + i]
    <3> TAKE i \in 1..u-f
    <3>1. c + i - 1 = f + i /\ i \in 1..u-c+1
      BY <2>1
    <3>2. old[i] = oe[c + i - 1]
      BY <2>2, <2>3, <3>1
    <3> QED BY <3>1, <3>2
  <2> QED BY <2>4, <2>5
<1>3. at >= 1 /\ at + n - 1 <= t /\ \A i \in 1..n : F[at + i - 1] = oe[i]
  <2> QuotedAt(F, oe, at)
    BY StandingIs
  <2> QED BY DEF QuotedAt
<1> HIDE DEF old, n, t
<1>4. \A i \in 1..u-f : F[at + f + i - 1] = old[i]
  <2> TAKE i \in 1..u-f
  <2> DEFINE j == f + i
  <2>1. j \in 1..n /\ at + f + i - 1 = at + j - 1
    BY <1>1
  <2>2. old[i] = oe[j]
    BY <1>2
  <2> HIDE DEF j
  <2> QED BY <1>3, <2>1, <2>2
<1>5. StandsAt(F, old, at + f)
  <2> DEFINE b == at + f
  <2>1. b \in Int /\ b >= 1 /\ b + Len(old) - 1 <= Len(F)
    BY <1>1, <1>2, <1>3 DEF t
  <2>2. \A i \in 1..Len(old) : F[b + i - 1] = old[i]
    BY <1>2, <1>4
  <2> HIDE DEF b
  <2>3. QuotedAt(F, old, b)
    BY <2>1, <2>2 DEF QuotedAt
  <2>4. StandsAt(F, old, b)
    BY <1>2, <2>1, <2>3, StandingIs
  <2> QED BY <2>4 DEF b
<1>6. at + f \in 1..t+1
  BY <1>1, <1>2, <1>3
<1>7. at + f \in Stands(F, old)
  BY <1>5, <1>6 DEF Stands, t
<1> QED BY <1>5, <1>7 DEF old

(* The lines of a part of a text.                                          *)
PartHas(r, s, a, b) == (\A i \in a..b : s[i] \in Lines(r)) /\ \A l \in Lines(r) : \E i \in a..b : l = s[i]
LEMMA PartHasIts ==
  ASSUME NEW S, NEW s \in Seq(S), NEW a \in Nat, NEW b \in Int, 1 <= a, a - 1 <= b, b <= Len(s)
  PROVE  PartHas(SubSeq(s, a, b), s, a, b)
BY PartLines DEF PartHas

(* The lines a diff shows are those of the quoted text, which the file has, *)
(* and those it adds, which the answer has.                                *)
LEMMA ShownLines ==
  ASSUME NEW S, NEW F \in Seq(S), NEW oe \in Seq(S), NEW pe \in Seq(S), NEW n \in Nat, NEW m \in Nat,
         Len(oe) = n, Len(pe) = m, NEW f, NEW u, NEW x, NEW y, Window2(oe, pe, f, u, x, y),
         NEW at \in Int, StandsAt(F, SubSeq(oe, f + 1, u), at)
  PROVE  /\ Lines(SubSeq(pe, f + 1, m - n + u)) \subseteq Lines(F) \cup Lines(SubSeq(pe, x + 1, m - y))
         /\ Lines(SubSeq(pe, x + 1, m - y)) \subseteq Lines(SubSeq(pe, f + 1, m - n + u))
<1>1. /\ f \in Nat /\ u \in Nat /\ x \in Nat /\ y \in Nat
      /\ x + y <= n /\ x + y <= m /\ f <= x /\ u <= n /\ n - y <= u
      /\ \A i \in 1..x : oe[i] = pe[i]
      /\ \A i \in 1..y : oe[n - y + i] = pe[m - y + i]
  BY DEF Window2
<1> DEFINE c == f + 1
           b == m - n + u
           z == x + 1
           w == m - y
<1>2. c \in Nat /\ b \in Int /\ 1 <= c /\ c - 1 <= b /\ b <= m /\ z \in Nat /\ w \in Int /\ 1 <= z /\ z - 1 <= w /\ w <= m
  BY <1>1
<1>3. c <= z /\ w <= b /\ c - 1 <= u
  BY <1>1
<1> HIDE DEF c, b, z, w
<1>4. PartHas(SubSeq(pe, c, b), pe, c, b) /\ PartHas(SubSeq(pe, z, w), pe, z, w)
  BY <1>2, PartHasIts
<1>5. ASSUME NEW i \in c..u PROVE oe[i] \in Lines(F)
  <2> DEFINE old == SubSeq(oe, c, u)
             j == i - f
             q == at + j - 1
  <2>1. old \in Seq(S) /\ Len(old) = u - c + 1 /\ \A k \in 1..u-c+1 : old[k] = oe[c + k - 1]
    BY <1>1, <1>2, <1>3, PartIs
  <2>2. StandsAt(F, old, at)
    BY DEF c
  <2> HIDE DEF old
  <2>0. QuotedAt(F, old, at)
    BY <2>1, <2>2, StandingIs
  <2>3. at >= 1 /\ at + Len(old) - 1 <= Len(F) /\ \A k \in 1..Len(old) : F[at + k - 1] = old[k]
    BY <2>0 DEF QuotedAt
  <2>4. j \in 1..u-c+1 /\ c + j - 1 = i
    BY <1>1 DEF c
  <2>5. Len(F) \in Nat /\ DOMAIN F = 1..Len(F)
    BY LenProperties
  <2>6. q \in DOMAIN F
    <3> j \in Nat /\ j >= 1 /\ j <= Len(old) /\ Len(old) \in Int
      BY <1>1, <2>1, <2>4 DEF c
    <3> HIDE DEF j
    <3> q >= 1 /\ q <= Len(F) /\ q \in Int
      BY <2>3, <2>5
    <3> QED BY <2>5
  <2> HIDE DEF j
  <2>7. F[q] = old[j]
    BY <2>1, <2>3, <2>4
  <2>8. F[q] = oe[i]
    BY <2>1, <2>4, <2>7
  <2> HIDE DEF q
  <2> QED BY <2>6, <2>8 DEF Lines
<1>6. ASSUME NEW i \in c..b, i \notin z..w PROVE pe[i] \in Lines(F)
  <2>1. i \in Int /\ (i <= x \/ i > w)
    BY <1>1, <1>2, <1>6 DEF z
  <2>2. CASE i <= x
    <3>1. i \in 1..x /\ i \in c..u
      BY <1>1, <1>2, <2>1, <2>2 DEF c
    <3> QED BY <1>1, <1>5, <3>1
  <2>3. CASE i > w
    <3> DEFINE j == i - w
               q == n - y + j
    <3>1. j \in 1..y /\ m - y + j = i
      BY <1>1, <1>2, <2>1, <2>3 DEF w, b
    <3>2. q \in c..u
      BY <1>1, <1>2, <1>3, <2>1, <2>3 DEF w, b, c
    <3> HIDE DEF j
    <3>3. oe[q] = pe[i]
      BY <1>1, <3>1
    <3> HIDE DEF q
    <3> QED BY <1>5, <3>2, <3>3
  <2> QED BY <2>1, <2>2, <2>3
<1>7. z..w \subseteq c..b
  BY <1>1, <1>2, <1>3
<1>8. Lines(SubSeq(pe, c, b)) \subseteq Lines(F) \cup Lines(SubSeq(pe, z, w))
  BY <1>4, <1>6 DEF PartHas
<1>9. Lines(SubSeq(pe, z, w)) \subseteq Lines(SubSeq(pe, c, b))
  BY <1>4, <1>7 DEF PartHas
<1> QED BY <1>8, <1>9 DEF c, b, z, w

(* What a hunk shows of the two texts it was built from.                   *)
ShownBy(old, new, oe, pe, f, u) == old = SubSeq(oe, f + 1, u) /\ new = SubSeq(pe, f + 1, Len(pe) - Len(oe) + u)
AddedBy(added, pe, x, y) == added = SubSeq(pe, x + 1, Len(pe) - y)
LEMMA ShownOf ==
  ASSUME NEW S, NEW F \in Seq(S), NEW oe \in Seq(S), NEW pe \in Seq(S), NEW f, NEW u, NEW x, NEW y,
         Window2(oe, pe, f, u, x, y), NEW at \in Int, NEW old, NEW new, NEW added, ShownBy(old, new, oe, pe, f, u),
         AddedBy(added, pe, x, y), StandsAt(F, old, at)
  PROVE  Lines(new) \subseteq Lines(F) \cup Lines(added) /\ Lines(added) \subseteq Lines(new)
<1> DEFINE n == Len(oe)
           m == Len(pe)
<1>1. n \in Nat /\ m \in Nat /\ Len(oe) = n /\ Len(pe) = m
  BY LenProperties
<1>2. old = SubSeq(oe, f + 1, u) /\ new = SubSeq(pe, f + 1, m - n + u) /\ added = SubSeq(pe, x + 1, m - y)
  BY DEF ShownBy, AddedBy
<1> HIDE DEF n, m
<1>3. StandsAt(F, SubSeq(oe, f + 1, u), at)
  BY <1>2
<1> QED BY <1>1, <1>2, <1>3, ShownLines

LEMMA AddedByAnswer ==
  ASSUME NEW S, NEW o \in Seq(S), NEW p \in Seq(S), NEW oe \in Seq(S), NEW pe \in Seq(S), NEW k,
         Ended(oe, o, k), Ended(pe, p, k), NEW f, NEW u, NEW x, NEW y, Window2(oe, pe, f, u, x, y)
  PROVE  Lines(SubSeq(pe, x + 1, Len(pe) - y)) \subseteq Lines(p)
<1> DEFINE n == Len(o)
           m == Len(p)
<1>0. n \in Nat /\ m \in Nat /\ DOMAIN p = 1..m
  BY LenProperties
<1>1. /\ k \in {0, 1} /\ Len(oe) = n + k /\ Len(pe) = m + k
      /\ (k = 1 => oe[n + 1] = pe[m + 1]) /\ (\A i \in 1..n : oe[i] = o[i]) /\ (\A i \in 1..m : pe[i] = p[i])
  BY DEF Ended
<1> HIDE DEF n, m
<1>2. /\ x \in Nat /\ y \in Nat /\ x + y <= n + k /\ x + y <= m + k
      /\ \A i \in 1..x : oe[i] = pe[i]
      /\ x < n + k /\ x < m + k /\ oe[n + k] = pe[m + k] => 1 <= y
  BY <1>1 DEF Window2
<1> DEFINE z == x + 1
           w == m + k - y
<1>3. z \in Nat /\ w \in Int /\ 1 <= z /\ z - 1 <= w /\ w <= m + k /\ w = Len(pe) - y
  <2>1. k \in Nat /\ x \in Nat /\ y \in Nat /\ m \in Nat /\ x + y <= m + k /\ Len(pe) = m + k
    BY <1>0, <1>1, <1>2
  <2> QED BY <2>1
<1>4. ASSUME NEW i \in z..w PROVE pe[i] \in Lines(p)
  <2>1. CASE i <= m
    <3> i \in 1..m
      BY <1>0, <1>3, <2>1
    <3> QED BY <1>0, <1>1 DEF Lines
  <2>2. CASE i > m
    <3>1. k = 1 /\ i = m + 1 /\ y = 0 /\ x < m + k
      BY <1>0, <1>1, <1>2, <1>3, <2>2
    <3>2. x = n + 1
      <4>1. oe[n + k] = pe[m + k]
        BY <1>1, <3>1
      <4>2. ~(x < n + k)
        BY <1>2, <3>1, <4>1
      <4> QED BY <1>0, <1>2, <3>1, <4>2
    <3>3. x \in 1..x /\ x \in 1..m
      BY <1>0, <1>2, <3>1, <3>2
    <3>4. oe[x] = pe[x] /\ pe[x] = p[x] /\ oe[x] = pe[i]
      BY <1>1, <1>2, <3>1, <3>2, <3>3
    <3> QED BY <1>0, <3>3, <3>4 DEF Lines
  <2> QED BY <1>0, <1>3, <2>1, <2>2
<1>5. PartHas(SubSeq(pe, z, w), pe, z, w)
  <2>1. w <= Len(pe)
    BY <1>1, <1>3
  <2> HIDE DEF z, w
  <2> QED BY <1>3, <2>1, PartHasIts
<1>7. Lines(SubSeq(pe, z, w)) \subseteq Lines(p)
  <2> HIDE DEF z, w
  <2> QED BY <1>4, <1>5 DEF PartHas
<1> QED BY <1>3, <1>7

Cut(r, s, f, l) == Len(r) = l /\ \A i \in 1..l : r[i] = s[f + i]
LEMMA CutIs ==
  ASSUME NEW S, NEW s \in Seq(S), NEW f \in Nat, NEW b \in Int, f <= b, b <= Len(s)
  PROVE  SubSeq(s, f + 1, b) \in Seq(S) /\ Cut(SubSeq(s, f + 1, b), s, f, b - f)
<1> DEFINE c == f + 1
           r == SubSeq(s, c, b)
<1>1. c \in Nat /\ 1 <= c /\ c - 1 <= b
  OBVIOUS
<1> HIDE DEF c
<1>2. r \in Seq(S) /\ Len(r) = b - c + 1 /\ \A i \in 1..b-c+1 : r[i] = s[c + i - 1]
  BY <1>1, PartIs
<1> HIDE DEF r
<1>3. b - c + 1 = b - f
  BY DEF c
<1>4. \A i \in 1..b-f : r[i] = s[f + i]
  <2> TAKE i \in 1..b-f
  <2>1. i \in 1..b-c+1 /\ c + i - 1 = f + i
    BY <1>3 DEF c
  <2>2. r[i] = s[c + i - 1]
    BY <1>2, <2>1
  <2> QED BY <2>1, <2>2
<1>5. Cut(r, s, f, b - f)
  BY <1>2, <1>3, <1>4 DEF Cut
<1> QED BY <1>2, <1>5 DEF r, c

LEMMA ShownIs ==
  ASSUME NEW S, NEW oe \in Seq(S), NEW pe \in Seq(S), NEW n \in Nat, NEW m \in Nat, Len(oe) = n, Len(pe) = m,
         NEW f, NEW u, NEW x, NEW y, Window2(oe, pe, f, u, x, y), NEW old, NEW new, ShownBy(old, new, oe, pe, f, u)
  PROVE  /\ old \in Seq(S) /\ Cut(old, oe, f, u - f)
         /\ new \in Seq(S) /\ Cut(new, pe, f, m - n + u - f)
<1>1. /\ f \in Nat /\ u \in Nat /\ x \in Nat /\ y \in Nat
      /\ x + y <= n /\ x + y <= m /\ f <= x /\ u <= n /\ n - y <= u
  BY DEF Window2
<1> DEFINE b == m - n + u
<1>2. u \in Int /\ f <= u /\ u <= Len(oe)
  BY <1>1
<1>3. b \in Int /\ f <= b /\ b <= Len(pe)
  BY <1>1
<1>4. old = SubSeq(oe, f + 1, u) /\ new = SubSeq(pe, f + 1, b)
  BY DEF ShownBy
<1> HIDE DEF b
<1>5. SubSeq(oe, f + 1, u) \in Seq(S) /\ Cut(SubSeq(oe, f + 1, u), oe, f, u - f)
  BY <1>1, <1>2, CutIs
<1>6. SubSeq(pe, f + 1, b) \in Seq(S) /\ Cut(SubSeq(pe, f + 1, b), pe, f, b - f)
  BY <1>1, <1>3, CutIs
<1>7. m - n + u - f = b - f
  BY <1>1 DEF b
<1> QED BY <1>4, <1>5, <1>6, <1>7

(* Code quoted from a file, and what an answer puts in its place.          *)
SameEnds(o, p, oe, pe, n, m, k) ==
  /\ Len(o) = n /\ Len(p) = m /\ Len(oe) = n + k /\ Len(pe) = m + k /\ (oe[n + k] = pe[m + k] \/ k = 0)
  /\ (\A i \in 1..n : oe[i] = o[i]) /\ (\A i \in 1..m : pe[i] = p[i])
LEMMA EndedAlike ==
  ASSUME NEW S, NEW o \in Seq(S), NEW p \in Seq(S), NEW oe, NEW pe, NEW k, Ended(oe, o, k), Ended(pe, p, k)
  PROVE  k \in {0, 1} /\ SameEnds(o, p, oe, pe, Len(o), Len(p), k)
<1>1. k \in {0, 1} /\ Len(o) \in Nat /\ Len(p) \in Nat
  BY LenProperties DEF Ended
<1>2. oe[Len(o) + k] = pe[Len(p) + k] \/ k = 0
  BY <1>1 DEF Ended
<1> QED BY <1>1, <1>2 DEF Ended, SameEnds

(* A hunk that is applied where the code that is quoted is makes the change *)
(* that is meant.                                                          *)
LEMMA QuoteMeant ==
  ASSUME NEW S, NEW F \in Seq(S), NEW o \in Seq(S), NEW p \in Seq(S), NEW oe \in Seq(S), NEW pe \in Seq(S), NEW A \in Nat,
         NEW k \in {0, 1}, NEW n \in Nat, NEW m \in Nat, NEW t \in Nat, Len(F) = t,
         QuotedAt(F, o, A), SameEnds(o, p, oe, pe, n, m, k), NEW f, NEW u, NEW x, NEW y, Window2(oe, pe, f, u, x, y),
         NEW old, NEW new, ShownBy(old, new, oe, pe, f, u), StandsAt(F, old, A + f)
  PROVE  u \in Nat /\ f \in Nat /\ Len(old) = u - f
         /\ OneChange(F, A, f, u, new, n, p)
<1>1. Len(o) = n /\ Len(p) = m /\ Len(oe) = n + k /\ Len(pe) = m + k /\ k \in Nat
  BY DEF SameEnds
<1>2. /\ f \in Nat /\ u \in Nat /\ x \in Nat /\ y \in Nat /\ x + y <= n + k /\ x + y <= m + k
      /\ f <= x /\ (f = 0 \/ f < x) /\ u <= n + k /\ n + k - y <= u
  BY <1>1 DEF Window2
<1> DEFINE N == n + k
           M == m + k
<1>4. N \in Nat /\ M \in Nat /\ Len(oe) = N /\ Len(pe) = M
  BY <1>1
<1> HIDE DEF N, M
<1>3. /\ \A i \in 1..x : oe[i] = pe[i]
      /\ \A i \in 1..y : oe[N - y + i] = pe[M - y + i]
  BY <1>4 DEF Window2
<1>5. /\ old \in Seq(S) /\ Cut(old, oe, f, u - f)
      /\ new \in Seq(S) /\ Cut(new, pe, f, M - N + u - f)
  BY <1>4, ShownIs
<1>6. M - N + u - f = m - n + u - f
  BY <1>1, <1>2 DEF M, N
<1>7. /\ Len(old) = u - f /\ \A i \in 1..u-f : old[i] = oe[f + i]
      /\ Len(new) = M - N + u - f /\ \A i \in 1..M-N+u-f : new[i] = pe[f + i]
  BY <1>5 DEF Cut
<1> DEFINE q == A + f
<1>9. QuotedAt(F, old, q)
  <2>1. StandsAt(F, old, q) /\ q \in Int /\ old \in Seq(S)
    BY <1>2, <1>5
  <2> HIDE DEF q
  <2> QED BY <2>1, StandingIs
<1>10. A >= 1 /\ A + n - 1 <= t /\ A + u - 1 <= t
  BY <1>1, <1>2, <1>7, <1>9 DEF QuotedAt
<1>11. \A i \in 1..n : F[A + i - 1] = o[i]
  BY <1>1 DEF QuotedAt
<1>12. Fits(t, A, n, m, k, f, u, x, y)
  BY <1>2, <1>10 DEF Fits
<1>13. \A i \in f+1..u : F[A + i - 1] = oe[i]
  <2> TAKE i \in f+1..u
  <2> DEFINE j == i - f
  <2>1. j \in 1..u-f /\ f + j = i /\ q + j - 1 = A + i - 1
    BY <1>2
  <2> HIDE DEF j, q
  <2> QED BY <1>7, <1>9, <2>1 DEF QuotedAt
<1>15. \A i \in f+1..m-n+u : new[i - f] = pe[i]
  <2> TAKE i \in f+1..m-n+u
  <2> DEFINE j == i - f
  <2>1. j \in 1..M-N+u-f /\ f + j = i
    BY <1>2, <1>6
  <2> HIDE DEF j
  <2>2. new[j] = pe[i]
    BY <1>7, <2>1
  <2> QED BY <2>2 DEF j
<1>16. \A i \in 1..y : oe[n + k - y + i] = pe[m + k - y + i]
  <2> TAKE i \in 1..y
  <2> DEFINE j == n + k - y + i
             l == m + k - y + i
  <2>1. j = N - y + i /\ l = M - y + i
    BY <1>2 DEF N, M
  <2>2. oe[j] = pe[l]
    BY <1>3, <2>1
  <2> QED BY <2>2
<1>17. Agree(F, o, p, oe, pe, new, A, n, m, k, f, u, x, y)
  BY <1>1, <1>3, <1>16, <1>7, <1>6, <1>11, <1>13, <1>15 DEF Agree, SameEnds
<1>18. ChangeOf(S, F, o, p, oe, pe, new, A, n, m, k, f, u, x, y)
  BY <1>2, <1>5, <1>12, <1>17 DEF ChangeOf
<1>19. OneChange(F, A, f, u, new, n, p)
  BY <1>18, SameChange
<1> QED BY <1>2, <1>7, <1>19

(* A diff of one hunk.                                                     *)
RunsAs(F, d, g, h) ==
  /\ Lines(ParseUnifiedHunks(d)) = {h} /\ Body(d) = g.body
  /\ AddedLines(d) = Lines(Unmarked(g.body, {"+"}))
  /\ Stands(F, h.old) = {} => ApplyUnifiedDiff(F, d) = Conflict
  /\ Stands(F, h.old) # {} =>
       \E at \in Stands(F, h.old) :
         /\ ApplyUnifiedDiff(F, d) = Spliced(F, at, at + Len(h.old) - 1, h.new)
         /\ StandsAt(F, h.old, h.start) => at = h.start
LEMMA OneHunk ==
  ASSUME NEW F \in Sources, NEW S, S = Text(F), NEW d, NEW g, NEW h, d.hunks = <<g>>, h = ParsedHunk(g),
         h.old \in Seq(S), h.new \in Seq(S), h.start \in Nat
  PROVE  RunsAs(F, d, g, h)
<1>1. ApplyUnifiedDiff(F, d) = ApplyHunk(F, h) /\ ParseUnifiedHunks(d) = <<h>>
  BY OneInTurn
<1>2. Body(d) = g.body
  BY FlatOne
<1>3. AddedLines(d) = Lines(Unmarked(g.body, {"+"}))
  BY <1>2 DEF AddedLines, Lines
<1>4. Lines(<<h>>) = {h}
  BY DEF Lines
<1>5. F \in Seq(S) /\ F # Conflict
  <2> F \in Seq(Text(F))
    BY TextIs
  <2> QED BY Applied
<1>6. /\ Stands(F, h.old) = {} => ApplyHunk(F, h) = Conflict
      /\ Stands(F, h.old) # {} =>
           \E at \in Stands(F, h.old) :
             /\ ApplyHunk(F, h) = Spliced(F, at, at + Len(h.old) - 1, h.new)
             /\ StandsAt(F, h.old, h.start) => at = h.start
  BY <1>5, ApplyIs
<1> QED BY <1>1, <1>2, <1>3, <1>4, <1>6 DEF RunsAs

LEMMA PlaceIs ==
  ASSUME NEW F, NEW old, NEW at \in Stands(F, old), Len(F) \in Nat
  PROVE  StandsAt(F, old, at) /\ at \in Nat /\ at >= 1
BY DEF Stands

(* What is built from code that is quoted applies if the code is there, and *)
(* changes the file as is meant or where the quoted code is not.           *)
LEMMA QuoteLands ==
  ASSUME NEW F \in Sources, NEW S, S = Text(F), NEW o \in Seq(S), NEW p \in Seq(S), NEW e, Newline(e), NEW A \in Nat,
         QuotedAt(F, o, A), Lines(p) \subseteq Lines(F) \cup NewLines, NEW oe, oe = o \o e, NEW pe, pe = p \o e,
         NEW file, NEW d, d = BuildUnifiedDiff(file, oe, pe)
  PROVE  /\ Parsable(d) /\ Changes(F, d, Spliced(F, A, A + Len(o) - 1, p), A - 1)
         /\ Stands(F, oe) # {} => ApplyUnifiedDiff(F, d) # Conflict
<1>1. F \in Seq(S)
  BY TextIs
<1>2. oe \in Seq(S) /\ pe \in Seq(S) /\ \E k \in {0, 1} : Ended(oe, o, k) /\ Ended(pe, p, k)
  <2>1. PICK w \in S : Blank(w)
    BY TextIs DEF Blank
  <2>2. oe \in Seq(S) /\ \E k \in {0, 1} : Ended(oe, o, k) /\ (e = <<>> <=> k = 0)
    BY <2>1, EndedIs
  <2>3. pe \in Seq(S) /\ \E k \in {0, 1} : Ended(pe, p, k) /\ (e = <<>> <=> k = 0)
    BY <2>1, EndedIs
  <2>4. PICK k \in {0, 1} : Ended(oe, o, k) /\ (e = <<>> <=> k = 0)
    BY <2>2
  <2>5. PICK j \in {0, 1} : Ended(pe, p, j) /\ (e = <<>> <=> j = 0)
    BY <2>3
  <2>6. j = k
    BY <2>4, <2>5
  <2> QED BY <2>2, <2>3, <2>4, <2>5, <2>6
<1>3. PICK k \in {0, 1} : Ended(oe, o, k) /\ Ended(pe, p, k)
  BY <1>2
<1>4. PICK f, u, x, y \in Nat : \E h :
           /\ d = [headers |-> TRUE, prefixed |-> TRUE, files |-> {file}, hunks |-> <<h>>]
           /\ h.body \in Seq(BodyLines(S)) /\ Window2(oe, pe, f, u, x, y) /\ Shows(h, oe, pe, f, u, x, y)
  BY <1>2, DiffIs
<1>5. PICK g : /\ d = [headers |-> TRUE, prefixed |-> TRUE, files |-> {file}, hunks |-> <<g>>]
               /\ g.body \in Seq(BodyLines(S)) /\ Window2(oe, pe, f, u, x, y) /\ Shows(g, oe, pe, f, u, x, y)
  BY <1>4
<1> DEFINE h == ParsedHunk(g)
           old == SubSeq(oe, f + 1, u)
           new == SubSeq(pe, f + 1, Len(pe) - Len(oe) + u)
           added == SubSeq(pe, x + 1, Len(pe) - y)
<1>6. d.hunks = <<g>>
  BY <1>5
<1>7. h.start = f + 1 /\ h.old = old /\ h.new = new /\ Unmarked(g.body, {"+"}) = added
  BY <1>5 DEF Shows, ParsedHunk
<1>8. Parsable(d)
  <2>1. DOMAIN d.hunks = {1} /\ d.hunks[1] = g
    BY <1>6
  <2>2. Len(h.old) = g.olds /\ Len(h.new) = g.news /\ h.olds = g.olds /\ h.news = g.news
    BY <1>5, <1>7 DEF Shows, ParsedHunk
  <2> QED BY <2>1, <2>2 DEF Parsable
<1> HIDE DEF h, old, new, added
<1>9. Len(oe) \in Nat /\ Len(pe) \in Nat /\ Len(F) \in Nat /\ Len(o) \in Nat /\ Len(p) \in Nat
  BY <1>1, <1>2, LenProperties
<1>10. old \in Seq(S) /\ new \in Seq(S)
  <2> ShownBy(old, new, oe, pe, f, u)
    BY DEF ShownBy, old, new
  <2> QED BY <1>2, <1>5, <1>9, ShownIs
<1>11. /\ Lines(ParseUnifiedHunks(d)) = {h} /\ Body(d) = g.body /\ AddedLines(d) = Lines(added)
       /\ Stands(F, old) = {} => ApplyUnifiedDiff(F, d) = Conflict
       /\ Stands(F, old) # {} =>
              \E at \in Stands(F, old) :
                /\ ApplyUnifiedDiff(F, d) = Spliced(F, at, at + Len(old) - 1, new)
                /\ StandsAt(F, old, f + 1) => at = f + 1
  <2>1. h.old \in Seq(S) /\ h.new \in Seq(S) /\ h.start \in Nat
    BY <1>7, <1>10
  <2>2. RunsAs(F, d, g, h)
    BY <1>6, <2>1, OneHunk DEF h
  <2> QED BY <1>7, <2>2 DEF RunsAs
<1>12. Stands(F, oe) # {} => Stands(F, old) # {}
  <2> SUFFICES ASSUME NEW at \in Stands(F, oe) PROVE Stands(F, old) # {}
    OBVIOUS
  <2>1. StandsAt(F, oe, at) /\ at \in Nat
    BY <1>9, PlaceIs
  <2>2. f <= u /\ u <= Len(oe)
    BY <1>5, <1>9 DEF Window2
  <2>3. at + f \in Stands(F, SubSeq(oe, f + 1, u))
    BY <1>1, <1>2, <2>1, <2>2, PartStands
  <2> QED BY <2>3 DEF old
<1> DEFINE R == ApplyUnifiedDiff(F, d)
<1>13. CASE Stands(F, old) = {}
  <2>1. R = Conflict
    BY <1>11, <1>13
  <2> HIDE DEF R
  <2>2. Changes(F, d, Spliced(F, A, A + Len(o) - 1, p), A - 1)
    BY <2>1 DEF Changes, R
  <2> QED BY <1>8, <1>12, <1>13, <2>2
<1>14. CASE Stands(F, old) # {}
  <2>1. PICK at \in Stands(F, old) : /\ R = Spliced(F, at, at + Len(old) - 1, new)
                                     /\ StandsAt(F, old, f + 1) => at = f + 1
    BY <1>11, <1>14
  <2> HIDE DEF R
  <2>2. StandsAt(F, old, at) /\ at \in Nat /\ at >= 1
    BY <1>9, PlaceIs
  <2>3. QuotedAt(F, old, at) /\ Len(old) \in Nat
    BY <1>1, <1>10, <2>2, StandingIs, LenProperties
  <2> DEFINE b == at + Len(old) - 1
  <2>4. b \in Int /\ 1 <= at /\ at - 1 <= b /\ b <= Len(F)
    BY <2>2, <2>3 DEF QuotedAt
  <2> HIDE DEF b
  <2>5. R = Spliced(F, at, b, new)
    BY <2>1 DEF b
  <2>6. R \in Seq(S) /\ Lines(R) \subseteq Lines(F) \cup Lines(new) /\ Lines(new) \subseteq Lines(R)
    BY <1>1, <1>10, <2>2, <2>4, <2>5, SplicedIs, SplicedLines
  <2>7. R # Conflict
    BY <2>6, Applied
  <2>8. Lines(new) \subseteq Lines(F) \cup Lines(added) /\ Lines(added) \subseteq Lines(new)
    <3>1. ShownBy(old, new, oe, pe, f, u) /\ AddedBy(added, pe, x, y)
      BY DEF ShownBy, AddedBy, old, new, added
    <3>2. Window2(oe, pe, f, u, x, y) /\ StandsAt(F, old, at) /\ at \in Int
      BY <1>5, <2>2
    <3> QED BY <1>1, <1>2, <3>1, <3>2, ShownOf
  <2>9. Lines(added) \subseteq Lines(p)
    BY <1>2, <1>3, <1>5, AddedByAnswer DEF added
  <2>10. Lines(R) \ Lines(F) \subseteq AddedLines(d) \cap NewLines /\ AddedLines(d) \subseteq Lines(R)
    BY <1>11, <2>6, <2>8, <2>9
  <2>11. \A l \in AddedLines(d) : \E i \in DOMAIN Body(d) : l = Body(d)[i].line
    <3> DEFINE marks == {"+"}
               body == g.body
    <3>0. body \in Seq(BodyLines(S))
      BY <1>5
    <3> HIDE DEF marks, body
    <3>1. \A l \in Lines(Unmarked(body, marks)) : \E i \in DOMAIN body : l = body[i].line
      BY <3>0, UnmarkedIs
    <3> USE DEF marks, body
    <3> QED BY <1>7, <1>11, <3>1
  <2>12. at = A + f => R = Spliced(F, A, A + Len(o) - 1, p)
    <3> SUFFICES ASSUME at = A + f PROVE R = Spliced(F, A, A + Len(o) - 1, p)
      OBVIOUS
    <3>1. ShownBy(old, new, oe, pe, f, u)
      BY DEF ShownBy, old, new
    <3> DEFINE n == Len(o)
               m == Len(p)
               t == Len(F)
    <3>2. SameEnds(o, p, oe, pe, n, m, k) /\ n \in Nat /\ m \in Nat /\ t \in Nat /\ Len(F) = t
      BY <1>3, <1>9, EndedAlike
    <3> HIDE DEF n, m, t
    <3>3. StandsAt(F, old, A + f)
      BY <2>2
    <3>4. u \in Nat /\ f \in Nat /\ Len(old) = u - f /\ OneChange(F, A, f, u, new, n, p)
      BY <1>1, <1>2, <1>5, <3>1, <3>2, <3>3, QuoteMeant
    <3>5. b = A + u - 1
      BY <3>4 DEF b
    <3>6. Spliced(F, A + f, A + u - 1, new) = Spliced(F, A, A + Len(o) - 1, p)
      BY <3>4 DEF OneChange, n
    <3> QED BY <2>5, <3>5, <3>6
  <2>13. at # A + f => Strays(F, h, A - 1)
    <3> SUFFICES ASSUME at # A + f PROVE Strays(F, h, A - 1)
      OBVIOUS
    <3>1. h.start + (A - 1) = A + f
      BY <1>7
    <3>2. Stands(F, h.old) # {h.start + (A - 1)}
      BY <1>7, <3>1
    <3>3. A - 1 # 0 \/ ~StandsAt(F, h.old, h.start)
      <4> SUFFICES ASSUME A = 1, StandsAt(F, old, f + 1) PROVE FALSE
        BY <1>7
      <4> QED BY <2>1
    <3> QED BY <3>2, <3>3 DEF Strays
  <2>14. R = Spliced(F, A, A + Len(o) - 1, p) \/ \E q \in Lines(ParseUnifiedHunks(d)) : Strays(F, q, A - 1)
    BY <1>11, <2>12, <2>13
  <2>15. Changes(F, d, Spliced(F, A, A + Len(o) - 1, p), A - 1)
    BY <2>10, <2>11, <2>14 DEF Changes, R
  <2> QED BY <1>8, <2>7, <2>15 DEF R
<1> QED BY <1>13, <1>14

-----------------------------------------------------------------------------
(* A diff of the model's own, of one hunk.                                 *)
Settles(F, h, meant, shift) ==
  \A at \in Stands(F, h.old) : (StandsAt(F, h.old, h.start) => at = h.start) =>
    Spliced(F, at, at + Len(h.old) - 1, h.new) = meant \/ Strays(F, h, shift)
Brings(F, h, added) ==
  /\ Lines(h.new) \subseteq Lines(F) \cup Lines(added) /\ Lines(added) \subseteq Lines(h.new)
  /\ Lines(added) \subseteq NewLines
LEMMA OneLands ==
  ASSUME NEW F \in Sources, NEW S, S = Text(F), NEW d, NEW g, NEW h, d.hunks = <<g>>, h = ParsedHunk(g),
         h.old \in Seq(S), h.new \in Seq(S), h.start \in Nat, g.body \in Seq(BodyLines(S)),
         NEW added, added = Unmarked(g.body, {"+"}), Brings(F, h, added), NEW meant, NEW shift, Settles(F, h, meant, shift)
  PROVE  Changes(F, d, meant, shift)
<1> DEFINE R == ApplyUnifiedDiff(F, d)
           old == h.old
           new == h.new
<1>0. F \in Seq(S) /\ old \in Seq(S) /\ new \in Seq(S)
  BY TextIs
<1>1. RunsAs(F, d, g, h)
  BY OneHunk
<1>2. /\ Lines(ParseUnifiedHunks(d)) = {h} /\ Body(d) = g.body /\ AddedLines(d) = Lines(added)
      /\ Stands(F, old) = {} => R = Conflict
      /\ Stands(F, old) # {} =>
           \E at \in Stands(F, old) : /\ R = Spliced(F, at, at + Len(old) - 1, new)
                                      /\ StandsAt(F, old, h.start) => at = h.start
  BY <1>1 DEF RunsAs
<1>3. Lines(new) \subseteq Lines(F) \cup Lines(added) /\ Lines(added) \subseteq Lines(new) /\ Lines(added) \subseteq NewLines
  BY DEF Brings
<1> HIDE DEF R
<1>4. CASE Stands(F, old) = {}
  BY <1>2, <1>4 DEF Changes, R
<1>5. CASE Stands(F, old) # {}
  <2>1. PICK at \in Stands(F, old) : /\ R = Spliced(F, at, at + Len(old) - 1, new)
                                     /\ StandsAt(F, old, h.start) => at = h.start
    BY <1>2, <1>5
  <2>2. R = meant \/ Strays(F, h, shift)
    BY <2>1 DEF Settles
  <2> HIDE DEF old, new
  <2>3. StandsAt(F, old, at) /\ at \in Nat /\ at >= 1 /\ Len(F) \in Nat /\ Len(old) \in Nat
    BY <1>0, LenProperties, PlaceIs
  <2>4. QuotedAt(F, old, at)
    BY <1>0, <2>3, StandingIs
  <2> DEFINE b == at + Len(old) - 1
  <2>5. b \in Int /\ 1 <= at /\ at - 1 <= b /\ b <= Len(F)
    BY <2>3, <2>4 DEF QuotedAt
  <2> HIDE DEF b
  <2>6. R = Spliced(F, at, b, new)
    BY <2>1 DEF b
  <2>7. Lines(R) \subseteq Lines(F) \cup Lines(new) /\ Lines(new) \subseteq Lines(R)
    BY <1>0, <2>3, <2>5, <2>6, SplicedLines
  <2>8. Lines(R) \ Lines(F) \subseteq AddedLines(d) \cap NewLines /\ AddedLines(d) \subseteq Lines(R)
    BY <1>2, <1>3, <2>7
  <2>9. \A l \in AddedLines(d) : \E i \in DOMAIN Body(d) : l = Body(d)[i].line
    <3> DEFINE marks == {"+"}
               body == g.body
    <3>0. body \in Seq(BodyLines(S))
      OBVIOUS
    <3> HIDE DEF marks, body
    <3>1. \A l \in Lines(Unmarked(body, marks)) : \E i \in DOMAIN body : l = body[i].line
      BY <3>0, UnmarkedIs
    <3> USE DEF marks, body
    <3> QED BY <1>2, <3>1
  <2> QED BY <1>2, <2>2, <2>8, <2>9 DEF Changes, R
<1> QED BY <1>4, <1>5

(* A line after another, and that line with the other before it.           *)
Follows(F, A, l) == Spliced(F, A, A, <<F[A], l>>) = Spliced(F, A + 1, A, <<l>>)
LEMMA FollowsIs ==
  ASSUME NEW S, NEW F \in Seq(S), NEW A \in 1..Len(F), NEW l \in S
  PROVE  Follows(F, A, l)
<1> DEFINE n == Len(F)
           c == A + 1
           two == <<F[A], l>>
           one == <<l>>
           r == Spliced(F, A, A, two)
           s == Spliced(F, c, A, one)
<1>0. n \in Nat /\ A \in Nat /\ 1 <= A /\ A <= n /\ c \in Nat /\ F[A] \in S /\ Len(F) = n
  BY LenProperties, ElementOfSeq
<1>1. two \in Seq(S) /\ Len(two) = 2 /\ two[1] = F[A] /\ two[2] = l
  BY <1>0
<1>2. one \in Seq(S) /\ Len(one) = 1 /\ one[1] = l
  BY Alone
<1>3. c = A + 1
  OBVIOUS
<1> HIDE DEF n, two, one, c
<1>4. r \in Seq(S) /\ Splices(r, F, A, A, two)
  BY <1>0, <1>1, SplicedIs
<1>5. s \in Seq(S) /\ Splices(s, F, c, A, one)
  <2>1. 1 <= c /\ c - 1 <= A /\ c \in Nat /\ A \in Int /\ A <= Len(F)
    BY <1>0, <1>3
  <2>2. F \in Seq(S) /\ one \in Seq(S)
    BY <1>2
  <2> QED BY <2>1, <2>2, SplicedIs
<1> HIDE DEF r, s
<1>6. /\ Len(r) = n + 1 /\ (\A i \in 1..A-1 : r[i] = F[i]) /\ (\A i \in 1..2 : r[A - 1 + i] = two[i])
      /\ \A i \in A+1..n : r[A - 1 + 2 + i - A] = F[i]
  BY <1>0, <1>1, <1>4 DEF Splices
<1>7. /\ Len(s) = n + 1 /\ (\A i \in 1..A : s[i] = F[i]) /\ (\A i \in 1..1 : s[A + i] = one[i])
      /\ \A i \in A+1..n : s[A + 1 + i - A] = F[i]
  <2>1. c - 1 = A /\ Len(one) = 1 /\ Len(F) = n
    BY <1>0, <1>2, <1>3
  <2>2. /\ Len(s) = c - 1 + 1 + (n - A) /\ (\A i \in 1..c-1 : s[i] = F[i]) /\ (\A i \in 1..1 : s[c - 1 + i] = one[i])
        /\ \A i \in A+1..n : s[c - 1 + 1 + i - A] = F[i]
    BY <1>5, <2>1 DEF Splices
  <2>3. (\A i \in 1..A : s[i] = F[i]) /\ (\A i \in 1..1 : s[A + i] = one[i]) /\ \A i \in A+1..n : s[A + 1 + i - A] = F[i]
    BY <2>1, <2>2
  <2>4. Len(s) = n + 1
    BY <1>0, <2>1, <2>2
  <2> QED BY <2>3, <2>4
<1>8. ASSUME NEW i \in 1..n+1 PROVE r[i] = s[i]
  <2>1. CASE i < A
    <3> i \in 1..A-1 /\ i \in 1..A
      BY <1>0, <2>1
    <3> QED BY <1>6, <1>7
  <2>2. CASE i = A
    <3>1. 1 \in 1..2 /\ \A j : j = A - 1 + 1 => j = A
      BY <1>0
    <3>2. r[A] = two[1]
      BY <1>6, <3>1
    <3>3. A \in 1..A
      BY <1>0
    <3> QED BY <1>1, <1>7, <2>2, <3>2, <3>3
  <2>3. CASE i = A + 1
    <3>1. 2 \in 1..2 /\ 1 \in 1..1 /\ A - 1 + 2 = i
      BY <1>0, <2>3
    <3>2. r[i] = two[2]
      BY <1>6, <3>1
    <3>3. s[i] = one[1]
      BY <1>7, <2>3, <3>1
    <3> QED BY <1>1, <1>2, <3>2, <3>3
  <2>4. CASE i > A + 1
    <3> DEFINE j == i - 1
    <3>1. j \in A+1..n /\ A - 1 + 2 + j - A = i /\ A + 1 + j - A = i
      BY <1>0, <2>4
    <3> HIDE DEF j
    <3> QED BY <1>6, <1>7, <3>1
  <2> QED BY <1>0, <2>1, <2>2, <2>3, <2>4
<1>9. r = s
  BY <1>0, <1>4, <1>5, <1>6, <1>7, <1>8, SeqEqual
<1> QED BY <1>9 DEF Follows, r, s, two, one, c

(* What the hunks of a model's own diff take away and put in.              *)
IsHunk(g) == \E start, olds, news, body : g = [start |-> start, olds |-> olds, news |-> news, body |-> body]
Adds(F, g, A, l) ==
  /\ IsHunk(g) /\ g.body \in Seq(BodyLines(Text(F))) /\ g.start \in Nat /\ A \in 1..Len(F) /\ l \in NewLines
  /\ Unmarked(g.body, {" ", "-"}) = <<F[A]>> /\ Unmarked(g.body, {" ", "+"}) = <<F[A], l>>
  /\ Unmarked(g.body, {"+"}) = <<l>>
Bares(F, g, l) ==
  /\ IsHunk(g) /\ g.body \in Seq(BodyLines(Text(F))) /\ g.start \in Nat /\ l \in NewLines /\ Len(F) >= 1
  /\ Unmarked(g.body, {" ", "-"}) = <<>> /\ Unmarked(g.body, {" ", "+"}) = <<l>> /\ Unmarked(g.body, {"+"}) = <<l>>
Misses(F, g) ==
  /\ IsHunk(g) /\ g.body \in Seq(BodyLines(Text(F))) /\ g.start \in Nat /\ "unseen" \in Lines(Unmarked(g.body, {" ", "-"}))

LEMMA LinesOne ==
  ASSUME NEW w PROVE Lines(<<w>>) = {w} /\ Len(<<w>>) = 1
BY DEF Lines
LEMMA LinesTwo ==
  ASSUME NEW v, NEW w PROVE Lines(<<v, w>>) = {v, w} /\ Len(<<v, w>>) = 2
BY DEF Lines

(* One line after another, numbered as in the file or one too high.        *)
LEMMA AddsLands ==
  ASSUME NEW F \in Sources, NEW d, NEW g, NEW A, NEW l, d.hunks = <<g>>, Adds(F, g, A, l), NEW shift \in Int,
         g.start + shift = A, NEW meant, meant = Spliced(F, A + 1, A, <<l>>)
  PROVE  Changes(F, d, meant, shift)
<1> DEFINE S == Text(F)
           h == ParsedHunk(g)
           added == Unmarked(g.body, {"+"})
<1>1. /\ g.body \in Seq(BodyLines(S)) /\ g.start \in Nat /\ A \in 1..Len(F) /\ l \in NewLines
      /\ h.old = <<F[A]>> /\ h.new = <<F[A], l>> /\ added = <<l>> /\ h.start = g.start
  BY DEF Adds, ParsedHunk
<1>2. F \in Seq(S) /\ l \in S
  BY <1>1, TextIs
<1> HIDE DEF S, h, added
<1>3. F[A] \in S /\ F[A] \in Lines(F) /\ A \in Nat
  <2> Len(F) \in Nat /\ DOMAIN F = 1..Len(F)
    BY <1>2, LenProperties
  <2> QED BY <1>1, <1>2, ElementOfSeq DEF Lines
<1>4. h.old \in Seq(S) /\ h.new \in Seq(S)
  BY <1>1, <1>2, <1>3
<1>5. Brings(F, h, added)
  BY <1>1, <1>3, LinesOne, LinesTwo DEF Brings
<1>6. Settles(F, h, meant, shift)
  <2> SUFFICES ASSUME NEW at \in Stands(F, h.old), StandsAt(F, h.old, h.start) => at = h.start
               PROVE  Spliced(F, at, at + Len(h.old) - 1, h.new) = meant \/ Strays(F, h, shift)
    BY DEF Settles
  <2>1. CASE at = A
    <3>1. at + Len(h.old) - 1 = A
      BY <1>1, <1>3, <2>1, LinesOne
    <3>2. Follows(F, A, l)
      BY <1>1, <1>2, FollowsIs
    <3> QED BY <1>1, <2>1, <3>1, <3>2 DEF Follows
  <2>2. CASE at # A
    <3>1. Stands(F, h.old) # {h.start + shift}
      BY <1>1, <2>2
    <3>2. shift # 0 \/ ~StandsAt(F, h.old, h.start)
      BY <1>1, <1>3, <2>2
    <3> QED BY <3>1, <3>2 DEF Strays
  <2> QED BY <2>1, <2>2
<1> QED BY <1>1, <1>4, <1>5, <1>6, OneLands DEF h, added, S

(* A line with nothing before it fits wherever there is a file.            *)
LEMMA BaresLands ==
  ASSUME NEW F \in Sources, NEW d, NEW g, NEW l, d.hunks = <<g>>, Bares(F, g, l), NEW meant
  PROVE  Changes(F, d, meant, 1)
<1> DEFINE S == Text(F)
           h == ParsedHunk(g)
           added == Unmarked(g.body, {"+"})
           none == h.old
<1>1. /\ g.body \in Seq(BodyLines(S)) /\ g.start \in Nat /\ l \in NewLines /\ Len(F) >= 1
      /\ h.old = <<>> /\ h.new = <<l>> /\ added = <<l>> /\ h.start = g.start
  BY DEF Bares, ParsedHunk
<1>2. F \in Seq(S) /\ l \in S /\ Len(F) \in Nat
  <2> F \in Seq(S) /\ l \in S
    BY <1>1, TextIs
  <2> QED BY LenProperties
<1> HIDE DEF S, h, added, none
<1>4. h.old \in Seq(S) /\ h.new \in Seq(S) /\ Len(h.old) = 0
  BY <1>1, <1>2, EmptySeq
<1>5. Brings(F, h, added)
  BY <1>1, LinesOne DEF Brings
<1>6. \A at \in 1..Len(F)+1 : at \in Stands(F, none)
  <2> TAKE at \in 1..Len(F)+1
  <2>1. none \in Seq(S) /\ Len(none) = 0
    BY <1>4 DEF none
  <2>2. QuotedAt(F, none, at)
    <3>1. at >= 1 /\ at + Len(none) - 1 <= Len(F)
      BY <1>2, <2>1
    <3>2. \A i \in 1..Len(none) : F[at + i - 1] = none[i]
      <4> TAKE i \in 1..Len(none)
      <4> FALSE
        BY <2>1
      <4> QED OBVIOUS
    <3> QED BY <1>2, <3>1, <3>2 DEF QuotedAt
  <2>3. StandsAt(F, none, at)
    <3> at \in Int /\ F \in Seq(S) /\ none \in Seq(S)
      BY <1>2, <2>1
    <3> QED BY <2>2, StandingIs
  <2> QED BY <2>3 DEF Stands
<1>7. Strays(F, h, 1)
  <2>1. 1 \in 1..Len(F)+1 /\ Len(F) + 1 \in 1..Len(F)+1 /\ Len(F) + 1 # 1
    BY <1>1, <1>2
  <2>2. 1 \in Stands(F, none) /\ Len(F) + 1 \in Stands(F, none)
    BY <1>6, <2>1
  <2>3. Stands(F, none) # {h.start + 1}
    BY <2>1, <2>2
  <2> QED BY <2>3 DEF Strays, none
<1>8. Settles(F, h, meant, 1)
  BY <1>7 DEF Settles
<1> QED BY <1>1, <1>4, <1>5, <1>8, OneLands DEF h, added, S

(* A line the file does not have.                                          *)
LEMMA MissesLands ==
  ASSUME NEW F \in Sources, NEW d, NEW g, d.hunks = <<g>>, Misses(F, g)
  PROVE  ApplyUnifiedDiff(F, d) = Conflict
<1> DEFINE S == Text(F)
           h == ParsedHunk(g)
           body == g.body
           marks == {" ", "-"}
           news == {" ", "+"}
<1>1. /\ body \in Seq(BodyLines(S)) /\ g.start \in Nat /\ h.start = g.start
      /\ h.old = Unmarked(body, marks) /\ h.new = Unmarked(body, news) /\ "unseen" \in Lines(h.old)
  BY DEF Misses, ParsedHunk
<1>2. F \in Seq(S) /\ "unseen" \notin Lines(F)
  BY TextIs
<1> HIDE DEF S, h, body, marks, news
<1>3. h.old \in Seq(S) /\ h.new \in Seq(S)
  BY <1>1, UnmarkedIs
<1>4. Stands(F, h.old) = {}
  <2> SUFFICES ASSUME NEW at \in Stands(F, h.old) PROVE FALSE
    OBVIOUS
  <2> DEFINE old == h.old
  <2>1. PICK i \in DOMAIN old : old[i] = "unseen"
    BY <1>1 DEF Lines
  <2>2. Len(F) \in Nat /\ Len(old) \in Nat /\ DOMAIN old = 1..Len(old) /\ DOMAIN F = 1..Len(F) /\ old \in Seq(S)
    BY <1>2, <1>3, LenProperties
  <2>3. StandsAt(F, old, at) /\ at \in Nat /\ at >= 1
    BY <2>2, PlaceIs
  <2> HIDE DEF old
  <2>4. QuotedAt(F, old, at)
    BY <1>2, <2>2, <2>3, StandingIs
  <2> DEFINE q == at + i - 1
  <2>5. i \in 1..Len(old) /\ q \in DOMAIN F
    BY <2>2, <2>3, <2>4 DEF QuotedAt
  <2>6. F[q] = old[i]
    BY <2>4, <2>5 DEF QuotedAt
  <2> HIDE DEF q
  <2> QED BY <1>2, <2>1, <2>5, <2>6 DEF Lines
<1>5. RunsAs(F, d, g, h)
  <2> h = ParsedHunk(g) /\ S = Text(F)
    BY DEF h, S
  <2> QED BY <1>1, <1>3, OneHunk
<1> QED BY <1>4, <1>5 DEF RunsAs

(* Two lines, one after the other: the last comes first, and leaves what   *)
(* is before it where it is.                                               *)
Grows(F, r, A, l) ==
  /\ r = Spliced(F, A + 1, A, <<l>>) /\ Len(r) = Len(F) + 1 /\ \A i \in 1..A : r[i] = F[i]
  /\ Lines(r) \subseteq Lines(F) \cup {l} /\ l \in Lines(r)
LEMMA GrowsIs ==
  ASSUME NEW S, NEW F \in Seq(S), F # Conflict, NEW h, NEW A \in 1..Len(F), NEW l \in S,
         h.old = <<F[A]>>, h.new = <<F[A], l>>, h.start = A
  PROVE  ApplyHunk(F, h) \in Seq(S) /\ Grows(F, ApplyHunk(F, h), A, l)
<1> DEFINE n == Len(F)
           r == ApplyHunk(F, h)
           old == h.old
           one == <<l>>
           c == A + 1
<1>1. n \in Nat /\ A \in Nat /\ 1 <= A /\ A <= n /\ Len(F) = n /\ F[A] \in S /\ c \in Nat
  BY LenProperties, ElementOfSeq
<1>2. old \in Seq(S) /\ h.new \in Seq(S) /\ Len(old) = 1 /\ old[1] = F[A] /\ h.start \in Nat
  BY <1>1
<1>3. one \in Seq(S) /\ Len(one) = 1 /\ one[1] = l /\ Lines(one) = {l}
  BY Alone, LinesOne
<1>4. Follows(F, A, l)
  BY FollowsIs
<1>5. c = A + 1
  OBVIOUS
<1> HIDE DEF n, r, old, one, c
<1>6. StandsAt(F, old, A) /\ A \in Stands(F, old)
  <2>1. QuotedAt(F, old, A)
    <3>1. A >= 1 /\ A + Len(old) - 1 <= Len(F)
      BY <1>1, <1>2
    <3>2. \A i \in 1..Len(old) : F[A + i - 1] = old[i]
      <4> TAKE i \in 1..Len(old)
      <4> i = 1 /\ A + i - 1 = A
        BY <1>1, <1>2
      <4> QED BY <1>2
    <3> QED BY <3>1, <3>2 DEF QuotedAt
  <2>2. StandsAt(F, old, A)
    BY <1>1, <1>2, <2>1, StandingIs
  <2>3. A \in 1..Len(F)+1
    BY <1>1
  <2> QED BY <2>2, <2>3 DEF Stands
<1>7. PICK at \in Stands(F, old) : r = Spliced(F, at, at + Len(old) - 1, h.new) /\ at = A
  <2>1. h.old \in Seq(S) /\ h.new \in Seq(S) /\ h.start \in Nat /\ Stands(F, h.old) # {} /\ StandsAt(F, h.old, h.start)
    BY <1>2, <1>6 DEF old
  <2>2. \E at \in Stands(F, h.old) :
                /\ ApplyHunk(F, h) = Spliced(F, at, at + Len(h.old) - 1, h.new)
                /\ StandsAt(F, h.old, h.start) => at = h.start
    BY <2>1, ApplyIs
  <2> QED BY <2>1, <2>2 DEF r, old
<1>8. r = Spliced(F, c, A, one)
  <2> at + Len(old) - 1 = A
    BY <1>1, <1>2, <1>7
  <2> QED BY <1>4, <1>7 DEF Follows, one, c
<1>9. 1 <= c /\ c - 1 <= A
  BY <1>1, <1>5
<1>10. r \in Seq(S) /\ Splices(r, F, c, A, one)
  BY <1>1, <1>3, <1>8, <1>9, SplicedIs
<1>11. Lines(r) \subseteq Lines(F) \cup {l} /\ l \in Lines(r)
  BY <1>1, <1>3, <1>8, <1>9, SplicedLines
<1>12. Len(r) = n + 1 /\ \A i \in 1..A : r[i] = F[i]
  <2>1. c - 1 = A
    BY <1>1, <1>5
  <2>2. Len(r) = c - 1 + Len(one) + (Len(F) - A) /\ \A i \in 1..c-1 : r[i] = F[i]
    BY <1>10 DEF Splices
  <2>3. \A i \in 1..A : r[i] = F[i]
    BY <2>1, <2>2
  <2>4. Len(r) = n + 1
    BY <1>1, <1>3, <2>1, <2>2
  <2> QED BY <2>3, <2>4
<1>13. Grows(F, r, A, l)
  BY <1>8, <1>11, <1>12 DEF Grows, c, one, n
<1> QED BY <1>10, <1>13 DEF r

LEMMA LinesTwice ==
  ASSUME NEW w PROVE Lines(<<w>> \o <<w>>) = {w}
<1> DEFINE one == <<w>>
           r == one \o one
<1>1. one \in Seq({w}) /\ Len(one) = 1
  BY Alone
<1> HIDE DEF one
<1>2. r \in Seq({w}) /\ Len(r) = 2
  <2>1. r \in Seq({w}) /\ Len(r) = Len(one) + Len(one)
    BY <1>1, ConcatProperties
  <2> HIDE DEF r
  <2> QED BY <1>1, <2>1
<1> HIDE DEF r
<1>3. DOMAIN r = 1..2
  BY <1>2, LenProperties
<1>4. \A i \in 1..2 : r[i] = w
  <2> TAKE i \in 1..2
  <2>1. i \in 1..Len(r)
    BY <1>2
  <2>2. r[i] \in {w}
    BY <1>2, <2>1, ElementOfSeq
  <2> QED BY <2>2
<1>5. 1 \in 1..2
  OBVIOUS
<1>6. Lines(r) = {w}
  BY <1>3, <1>4, <1>5 DEF Lines
<1> QED BY <1>6 DEF r, one

LEMMA TwoLands ==
  ASSUME NEW F \in Sources, NEW d, NEW g, NEW e, NEW A, NEW B, NEW l, d.hunks = <<g, e>>, Adds(F, g, A, l), Adds(F, e, B, l),
         g.start = A, e.start = B, A < B, NEW meant, meant = Spliced(Spliced(F, B + 1, B, <<l>>), A + 1, A, <<l>>)
  PROVE  Changes(F, d, meant, 0)
<1> DEFINE S == Text(F)
           h == ParsedHunk(g)
           k == ParsedHunk(e)
           G == ApplyHunk(F, k)
           R == ApplyHunk(G, h)
<1>1. /\ g.body \in Seq(BodyLines(S)) /\ A \in 1..Len(F) /\ l \in NewLines
      /\ h.old = <<F[A]>> /\ h.new = <<F[A], l>> /\ h.start = A /\ Unmarked(g.body, {"+"}) = <<l>>
  BY DEF Adds, ParsedHunk
<1>2. /\ e.body \in Seq(BodyLines(S)) /\ B \in 1..Len(F)
      /\ k.old = <<F[B]>> /\ k.new = <<F[B], l>> /\ k.start = B /\ Unmarked(e.body, {"+"}) = <<l>>
  BY DEF Adds, ParsedHunk
<1>3. F \in Seq(S) /\ l \in S /\ F # Conflict /\ Len(F) \in Nat /\ A \in Nat /\ B \in Nat
  <2> F \in Seq(S) /\ l \in S
    BY <1>1, TextIs
  <2> QED BY <1>1, <1>2, Applied, LenProperties
<1>4. ApplyUnifiedDiff(F, d) = R
  <2> g.start \in Nat /\ e.start \in Nat /\ g.start < e.start
    BY <1>3
  <2> QED BY TwoInTurn
<1>5. AddedLines(d) = {l} /\ \A w \in AddedLines(d) : \E i \in DOMAIN Body(d) : w = Body(d)[i].line
  <2> DEFINE marks == {"+"}
             b == g.body
             c == e.body
             body == b \o c
  <2>1. Body(d) = body
    BY FlatTwo
  <2>2. b \in Seq(BodyLines(S)) /\ c \in Seq(BodyLines(S)) /\ Unmarked(b, marks) = <<l>> /\ Unmarked(c, marks) = <<l>>
    BY <1>1, <1>2
  <2> HIDE DEF b, c, marks
  <2>3. body \in Seq(BodyLines(S))
    BY <2>2, ConcatProperties
  <2>4. Unmarked(body, marks) = <<l>> \o <<l>>
    <3> JoinsMarks(b, c, marks)
      BY <2>2, UnmarkedJoins
    <3> QED BY <2>2 DEF JoinsMarks, body
  <2> HIDE DEF body
  <2>5. \A w \in Lines(Unmarked(body, marks)) : \E i \in DOMAIN body : w = body[i].line
    BY <2>3, UnmarkedIs
  <2>6. Lines(<<l>> \o <<l>>) = {l}
    BY LinesTwice
  <2>7. AddedLines(d) = Lines(Unmarked(body, marks))
    BY <2>1 DEF AddedLines, Lines, marks
  <2> QED BY <2>1, <2>4, <2>5, <2>6, <2>7
<1> HIDE DEF S, h, k
<1>6. G \in Seq(S) /\ Grows(F, G, B, l)
  BY <1>2, <1>3, GrowsIs
<1> HIDE DEF G
<1>7. G # Conflict /\ Len(G) = Len(F) + 1 /\ G[A] = F[A] /\ A \in 1..Len(G)
  <2>1. G # Conflict
    BY <1>6, Applied DEF S
  <2>2. A \in 1..B
    BY <1>1, <1>3
  <2> QED BY <1>1, <1>3, <1>6, <2>1, <2>2 DEF Grows
<1>8. R \in Seq(S) /\ Grows(G, R, A, l)
  <2> h.old = <<G[A]>> /\ h.new = <<G[A], l>>
    BY <1>1, <1>7
  <2> QED BY <1>1, <1>3, <1>6, <1>7, GrowsIs
<1> HIDE DEF R
<1>9. R = meant
  BY <1>6, <1>8 DEF Grows
<1>10. Lines(R) \ Lines(F) \subseteq {l} /\ l \in Lines(R)
  BY <1>6, <1>8 DEF Grows
<1> QED BY <1>1, <1>4, <1>5, <1>9, <1>10 DEF Changes

-----------------------------------------------------------------------------
(* What the model is shown is a part of the file.                          *)
PartOf(s, f, F) ==
  /\ f \in Nat /\ f >= 1 /\ s \in Seq(Text(F))
  /\ \A i \in 1..Len(s) : f + i - 1 \in 1..Len(F) /\ s[i] = F[f + i - 1]
Excerpt(e, F) == PartOf(e.lines, e.from, F)

LEMMA SliceIs ==
  ASSUME NEW F \in Sources, NEW line \in Nat
  PROVE  Excerpt(Slice(F, ResolveWindow(line)), F) /\ Len(Slice(F, ResolveWindow(line)).lines) <= MaxLines
<1> DEFINE w == ResolveWindow(line)
           a == w.from
           to == Least(Len(F), w.to)
           kept == SubSeq(F, a, to)
           most == Least(Len(kept), MaxLines)
           part == SubSeq(kept, 1, most)
           S == Text(F)
           n == Len(F)
<1>0. Window \in Nat /\ MaxLines \in Nat
  BY DraftAssumption
<1>1. F \in Seq(S) /\ n \in Nat
  <2> F \in Seq(S)
    BY TextIs
  <2> QED BY LenProperties
<1>2. a \in Nat /\ a >= 1 /\ w.to \in Int
  BY <1>0 DEF ResolveWindow, Least
<1>3. Slice(F, w) = [from |-> a, lines |-> part]
  BY DEF Slice
<1> HIDE DEF w, a, S, n
<1>4. to \in Int /\ to <= n
  BY <1>1, <1>2 DEF Least, n
<1> HIDE DEF to
<1>5. \A i \in a..to : F[i] \in S
  <2> TAKE i \in a..to
  <2> i \in 1..Len(F)
    BY <1>1, <1>2, <1>4 DEF n
  <2> QED BY <1>1, ElementOfSeq
<1>6. /\ kept \in Seq(S) /\ Len(kept) = IF a <= to THEN to - a + 1 ELSE 0
      /\ \A i \in 1..to-a+1 : kept[i] = F[a + i - 1]
  BY <1>2, <1>4, <1>5, SubSeqProperties
<1> HIDE DEF kept
<1>7. Len(kept) \in Nat /\ (Len(kept) > 0 => a <= to /\ Len(kept) = to - a + 1)
  BY <1>2, <1>4, <1>6
<1>8. most \in Nat /\ most <= Len(kept) /\ most <= MaxLines
  BY <1>0, <1>7 DEF Least
<1> HIDE DEF most
<1>9. part \in Seq(S) /\ Len(part) = most /\ \A i \in 1..most : part[i] = kept[i]
  <2>1. 1 \in Nat /\ 1 <= 1 /\ 1 - 1 <= most /\ most \in Int /\ most - 1 + 1 = most
    BY <1>8
  <2>2. part \in Seq(S) /\ Len(part) = most - 1 + 1 /\ \A i \in 1..most-1+1 : part[i] = kept[1 + i - 1]
    BY <1>6, <1>8, <2>1, PartIs
  <2> HIDE DEF part
  <2>3. \A i \in 1..most : part[i] = kept[i]
    <3> TAKE i \in 1..most
    <3>1. i \in 1..most-1+1 /\ 1 + i - 1 = i
      BY <1>8
    <3> QED BY <2>2, <3>1
  <2> QED BY <2>1, <2>2, <2>3
<1> HIDE DEF part
<1>10. ASSUME NEW i \in 1..Len(part) PROVE a + i - 1 \in 1..n /\ part[i] = F[a + i - 1]
  <2>1. i \in 1..most /\ i \in 1..to-a+1
    BY <1>7, <1>8, <1>9
  <2>2. a + i - 1 \in 1..n
    BY <1>1, <1>2, <1>4, <2>1
  <2> QED BY <1>6, <1>9, <2>1, <2>2
<1>11. PartOf(part, a, F)
  BY <1>2, <1>9, <1>10 DEF PartOf, S, n
<1> QED BY <1>3, <1>8, <1>9, <1>11 DEF w, Excerpt

(* A line put in before another is a splice, as is one taken away.         *)
LEMMA InsertIs ==
  ASSUME NEW text, NEW A \in Nat, NEW l
  PROVE  InsertAt(text, A + 1, l) = Spliced(text, A + 1, A, <<l>>)
BY DEF InsertAt, Spliced

LEMMA RemoveIs ==
  ASSUME NEW S, NEW o \in Seq(S), NEW i \in 1..Len(o)
  PROVE  RemoveAt(o, i) = Spliced(o, i, i, <<>>)
<1> DEFINE x == SubSeq(o, 1, i - 1)
           z == SubSeq(o, i + 1, Len(o))
           j == i - 1
<1>1. Len(o) \in Nat /\ i \in Nat /\ j \in Int
  BY LenProperties
<1>2. x \in Seq(S)
  <2> 1 \in Nat /\ 1 <= 1 /\ 1 - 1 <= j /\ j <= Len(o)
    BY <1>1
  <2> HIDE DEF j
  <2> SubSeq(o, 1, j) \in Seq(S)
    BY <1>1, PartIs
  <2> QED BY DEF j
<1> HIDE DEF x, z
<1>3. x \o <<>> = x
  BY <1>2, ConcatEmptySeq
<1>4. RemoveAt(o, i) = x \o z
  BY DEF RemoveAt, x, z
<1>5. Spliced(o, i, i, <<>>) = (x \o <<>>) \o z
  BY DEF Spliced, x, z
<1> QED BY <1>3, <1>4, <1>5

LEMMA EditIs ==
  ASSUME NEW S, NEW o \in Seq(S), NewLines \subseteq S, NEW p \in Edits(o)
  PROVE  p \in Seq(S) /\ Lines(p) \subseteq Lines(o) \cup NewLines
<1> DEFINE n == Len(o)
<1>1. n \in Nat /\ DOMAIN o = 1..n /\ Len(o) = n
  BY LenProperties
<1> HIDE DEF n
<1>2. CASE \E i \in DOMAIN o, l \in NewLines : p = [o EXCEPT ![i] = l]
  <2>1. PICK i \in DOMAIN o, l \in NewLines : p = [o EXCEPT ![i] = l]
    BY <1>2
  <2>2. p \in Seq(S) /\ DOMAIN p = DOMAIN o
    BY <1>1, <2>1, ExceptSeq
  <2>3. \A j \in DOMAIN o : p[j] = IF j = i THEN l ELSE o[j]
    BY <2>1
  <2> QED BY <2>2, <2>3 DEF Lines
<1>3. CASE \E i \in DOMAIN o : p = RemoveAt(o, i)
  <2>1. PICK i \in DOMAIN o : p = RemoveAt(o, i)
    BY <1>3
  <2>2. p = Spliced(o, i, i, <<>>) /\ i \in Nat /\ 1 <= i /\ i - 1 <= i /\ i <= Len(o) /\ i \in Int
    BY <1>1, <2>1, RemoveIs
  <2>3. <<>> \in Seq(S) /\ Lines(<<>>) = {}
    BY DEF Lines
  <2> QED BY <2>2, <2>3, SplicedIs, SplicedLines
<1>4. CASE \E i \in 1..(Len(o) + 1), l \in NewLines : p = InsertAt(o, i, l)
  <2>1. PICK i \in 1..n+1, l \in NewLines : p = InsertAt(o, i, l)
    BY <1>1, <1>4
  <2> DEFINE b == i - 1
             one == <<l>>
  <2>2. b \in Nat /\ i = b + 1 /\ b <= n /\ i \in Nat /\ 1 <= i /\ i - 1 <= b
    BY <1>1
  <2>3. one \in Seq(S) /\ Lines(one) = {l}
    BY Alone, LinesOne
  <2> HIDE DEF b
  <2>4. p = Spliced(o, i, b, one)
    BY <2>1, <2>2, InsertIs
  <2> HIDE DEF one
  <2> QED BY <1>1, <2>2, <2>3, <2>4, SplicedIs, SplicedLines
<1> QED BY <1>2, <1>3, <1>4 DEF Edits

-----------------------------------------------------------------------------
(* The answers.  Code that is quoted is a part of the file, and what the   *)
(* answer puts in its place is made of it and of new lines.                *)
Quoting(F, S, a) ==
  \E o, p \in Seq(S), A \in Nat, e \in LineEnds : /\ Newline(e) /\ a.original = o \o e /\ a.patched = p \o e /\ QuotedAt(F, o, A)
    /\ Lines(p) \subseteq Lines(F) \cup NewLines /\ a.shift = A - 1
    /\ a.meant = Spliced(F, A, A + Len(o) - 1, p)

LEMMA PartQuoted ==
  ASSUME NEW F \in Sources, NEW f, NEW s, PartOf(s, f, F),
         NEW i \in DOMAIN s, NEW j \in i..Len(s), NEW A, A = f + i - 1
  PROVE  /\ SubSeq(s, i, j) \in Seq(Text(F)) /\ A \in Nat /\ QuotedAt(F, SubSeq(s, i, j), A)
         /\ Lines(SubSeq(s, i, j)) \subseteq Lines(F)
<1> DEFINE S == Text(F)
           m == Len(s)
           o == SubSeq(s, i, j)
<1>1. /\ f \in Nat /\ f >= 1 /\ s \in Seq(S) /\ F \in Seq(S)
      /\ \A k \in 1..m : f + k - 1 \in 1..Len(F) /\ s[k] = F[f + k - 1]
  BY TextIs DEF PartOf
<1>2. m \in Nat /\ DOMAIN s = 1..m /\ Len(F) \in Nat /\ DOMAIN F = 1..Len(F) /\ Len(s) = m
  BY <1>1, LenProperties
<1> HIDE DEF S, m
<1>3. i \in Nat /\ j \in Int /\ 1 <= i /\ i <= j /\ j <= m
  BY <1>2
<1>4. o \in Seq(S) /\ Len(o) = j - i + 1 /\ \A k \in 1..j-i+1 : o[k] = s[i + k - 1]
  <2>1. i - 1 <= j /\ j <= Len(s) /\ s \in Seq(S)
    BY <1>1, <1>2, <1>3
  <2> QED BY <1>3, <2>1, PartIs
<1> HIDE DEF o
<1>5. A \in Nat /\ A >= 1
  BY <1>1, <1>3
<1>6. ASSUME NEW k \in 1..Len(o) PROVE A + k - 1 \in 1..Len(F) /\ F[A + k - 1] = o[k]
  <2> DEFINE q == i + k - 1
  <2>1. q \in 1..m /\ k \in 1..j-i+1 /\ A + k - 1 = f + q - 1
    <3>1. k \in 1..j-i+1 /\ k \in Nat
      BY <1>3, <1>4
    <3>2. q \in 1..m
      BY <1>2, <1>3, <3>1
    <3>3. A + k - 1 = f + q - 1
      <4> f \in Nat /\ i \in Nat /\ k \in Nat
        BY <1>1, <1>3, <3>1
      <4> QED OBVIOUS
    <3> HIDE DEF q
    <3> QED BY <3>1, <3>2, <3>3
  <2>2. o[k] = s[q]
    BY <1>4, <2>1
  <2> HIDE DEF q
  <2> QED BY <1>1, <2>1, <2>2
<1>7. A + Len(o) - 1 <= Len(F)
  <2>1. Len(o) \in 1..Len(o)
    BY <1>3, <1>4
  <2>2. A + Len(o) - 1 \in 1..Len(F)
    BY <1>6, <2>1
  <2> QED BY <1>2, <2>2
<1>8. QuotedAt(F, o, A)
  BY <1>5, <1>6, <1>7 DEF QuotedAt
<1>9. DOMAIN o = 1..Len(o)
  BY <1>4, LenProperties
<1>10. \A k \in DOMAIN o : o[k] \in Lines(F)
  <2> TAKE k \in DOMAIN o
  <2> DEFINE q == A + k - 1
  <2>1. q \in DOMAIN F /\ F[q] = o[k]
    BY <1>2, <1>6, <1>9
  <2> HIDE DEF q
  <2> QED BY <2>1 DEF Lines
<1>11. Lines(o) \subseteq Lines(F)
  BY <1>10 DEF Lines
<1> QED BY <1>4, <1>5, <1>8, <1>11 DEF S, o

LEMMA QuotesIs ==
  ASSUME codeFile \in Sources, Excerpt(excerpt, codeFile), NEW a \in Quotes
  PROVE  /\ Quoting(codeFile, Text(codeFile), a) /\ a.quoted /\ a.own = NoDiff
         /\ \E o, p, m, n : a = Proposal(o, p, NoDiff, m, n)
<1> DEFINE F == codeFile
           S == Text(F)
<1>0. PICK i \in DOMAIN excerpt.lines : \E j \in i..Len(excerpt.lines) : a \in QuotesOf(i, SubSeq(excerpt.lines, i, j))
  <2> DEFINE StartingAt(i) == UNION {QuotesOf(i, SubSeq(excerpt.lines, i, j)) : j \in i..Len(excerpt.lines)}
  <2>1. Quotes = UNION {StartingAt(i) : i \in DOMAIN excerpt.lines}
    BY DEF Quotes
  <2> HIDE DEF StartingAt
  <2>2. PICK i \in DOMAIN excerpt.lines : a \in StartingAt(i)
    BY <2>1
  <2>3. PICK j \in i..Len(excerpt.lines) : a \in QuotesOf(i, SubSeq(excerpt.lines, i, j))
    BY <2>2 DEF StartingAt
  <2> QED BY <2>3
<1>1. PICK j \in i..Len(excerpt.lines) : a \in QuotesOf(i, SubSeq(excerpt.lines, i, j))
  BY <1>0
<1> DEFINE o == SubSeq(excerpt.lines, i, j)
           A == LineAt(i)
<1>2. PICK p \in Edits(o), e \in LineEnds : Newline(e) /\ a = Quote(i, o, p, e)
  <2> HIDE DEF o
  <2> a \in QuotesOf(i, o)
    BY <1>1 DEF o
  <2>1. PICK p \in Edits(o), e \in LineEnds : a = Quote(i, o, p, e)
    BY DEF QuotesOf
  <2> QED BY <2>1 DEF LineEnds, Newline
<1>3. A = excerpt.from + i - 1
  BY DEF LineAt
<1>4. o \in Seq(S) /\ A \in Nat /\ QuotedAt(F, o, A) /\ Lines(o) \subseteq Lines(F)
  <2> DEFINE f == excerpt.from
             s == excerpt.lines
  <2>1. i \in DOMAIN s /\ j \in i..Len(s) /\ A = f + i - 1 /\ PartOf(s, f, codeFile)
    BY <1>3 DEF Excerpt
  <2> HIDE DEF A, f, s
  <2>2. SubSeq(s, i, j) \in Seq(Text(codeFile)) /\ A \in Nat /\ QuotedAt(codeFile, SubSeq(s, i, j), A)
         /\ Lines(SubSeq(s, i, j)) \subseteq Lines(codeFile)
    BY <2>1, PartQuoted
  <2> QED BY <2>2 DEF s
<1>5. p \in Seq(S) /\ Lines(p) \subseteq Lines(F) \cup NewLines
  <2> NewLines \subseteq S
    BY TextIs
  <2> HIDE DEF o, S, F
  <2> QED BY <1>4, EditIs
<1> DEFINE meant == SubSeq(F, 1, A - 1) \o p \o SubSeq(F, A + Len(o), Len(F))
<1>6. a = Proposal(o \o e, p \o e, NoDiff, meant, A - 1)
  BY <1>2 DEF Quote
<1>7. a.quoted /\ a.own = NoDiff /\ a.original = o \o e /\ a.patched = p \o e /\ a.meant = meant /\ a.shift = A - 1
  BY <1>6 DEF Proposal
<1>8. Newline(e)
  BY <1>2
<1>9. meant = Spliced(F, A, A + Len(o) - 1, p)
  <2> DEFINE l == Len(o)
             b == A + l - 1
  <2>0. A \in Nat /\ l \in Nat
    BY <1>4, LenProperties
  <2> HIDE DEF l, A, F
  <2>1. b + 1 = A + l
    BY <2>0
  <2>2. Spliced(F, A, b, p) = SubSeq(F, 1, A - 1) \o p \o SubSeq(F, b + 1, Len(F))
    BY DEF Spliced
  <2> QED BY <2>1, <2>2 DEF l
<1> HIDE DEF o, A, meant, S, F
<1>10. Quoting(F, S, a)
  BY <1>4, <1>5, <1>7, <1>8, <1>9 DEF Quoting
<1> QED BY <1>6, <1>7, <1>10 DEF S, F

(* A diff of the model's own: what its hunks do.                           *)
Owning(F, a) ==
  \/ \E g, l, A : a.own.hunks = <<g>> /\ Adds(F, g, A, l) /\ a.shift \in Int /\ g.start + a.shift = A
                  /\ a.meant = Spliced(F, A + 1, A, <<l>>)
  \/ \E g, l : a.own.hunks = <<g>> /\ Bares(F, g, l) /\ a.shift = 1
  \/ \E g : a.own.hunks = <<g>> /\ Misses(F, g)
  \/ \E g, e, l, A, B : a.own.hunks = <<g, e>> /\ Adds(F, g, A, l) /\ Adds(F, e, B, l) /\ g.start = A /\ e.start = B /\ A < B
                  /\ a.shift = 0 /\ a.meant = Spliced(Spliced(F, B + 1, B, <<l>>), A + 1, A, <<l>>)

LEMMA AfterIs ==
  ASSUME NEW F \in Sources, NEW A \in 1..Len(F), NEW l \in NewLines, NEW start \in Nat, NEW w, w = F[A], NEW g,
         g = Hunk(start, <<w>>, <<>>, <<l>>, <<>>)
  PROVE  Adds(F, g, A, l) /\ g.start = start
<1> DEFINE S == Text(F)
           none == <<>>
           b == <<w>>
           a == <<l>>
<1>1. F \in Seq(S) /\ l \in S
  BY TextIs
<1>2. w \in S
  BY <1>1, ElementOfSeq
<1>3. b \in Seq(S) /\ a \in Seq(S) /\ none \in Seq(S)
  BY <1>1, <1>2, Alone, EmptySeq
<1>4. b \o none = b /\ b \o none \o none = b
  BY <1>3, ConcatEmptySeq
<1>5. b \o a = <<w, l>> /\ b \o a \in Seq(S)
  <2>1. <<w, l>> \in Seq(S) /\ Len(<<w, l>>) = 2 /\ <<w, l>>[1] = w /\ <<w, l>>[2] = l
    BY <1>1, <1>2
  <2>2. Len(b) = 1 /\ Len(a) = 1 /\ b[1] = w /\ a[1] = l
    OBVIOUS
  <2> DEFINE r == b \o a
             two == <<w, l>>
  <2> HIDE DEF b, a, two
  <2>3. r \in Seq(S) /\ Len(r) = 2 /\ \A i \in 1..2 : r[i] = IF i <= 1 THEN b[i] ELSE a[i - 1]
    <3>1. /\ r \in Seq(S) /\ Len(r) = Len(b) + Len(a)
          /\ \A i \in 1..Len(b)+Len(a) : r[i] = IF i <= Len(b) THEN b[i] ELSE a[i - Len(b)]
      BY <1>3, ConcatProperties
    <3> HIDE DEF r
    <3>2. Len(b) = 1 /\ Len(a) = 1 /\ Len(b) + Len(a) = 2
      BY <2>2
    <3> QED BY <3>1, <3>2
  <2> HIDE DEF r
  <2>4. r[1] = w /\ r[2] = l
    BY <2>2, <2>3
  <2>5. \A i \in 1..2 : r[i] = two[i]
    BY <2>1, <2>4 DEF two
  <2>6. r = two
    BY <2>1, <2>3, <2>5, SeqEqual DEF two
  <2> QED BY <2>3, <2>6 DEF r, two
<1>6. b \o a \o none = <<w, l>>
  BY <1>5, ConcatEmptySeq
<1> HIDE DEF b, a, none
<1>7. g.body \in Seq(BodyLines(S)) /\ Reads(g, start, b, none, a, none)
  <2> g = Hunk(start, b, none, a, none)
    BY DEF b, a, none
  <2> QED BY <1>3, HunkIs
<1>8. IsHunk(g)
  BY DEF IsHunk, Hunk
<1>9. Unmarked(g.body, {" ", "-"}) = b /\ Unmarked(g.body, {" ", "+"}) = <<w, l>> /\ Unmarked(g.body, {"+"}) = a /\ g.start = start
  BY <1>4, <1>6, <1>7 DEF Reads
<1> QED BY <1>7, <1>8, <1>9 DEF Adds, S, b, a

LEMMA BareIs ==
  ASSUME NEW F \in Sources, Len(F) >= 1, NEW l \in NewLines, NEW start \in Nat, NEW g,
         g = Hunk(start, <<>>, <<>>, <<l>>, <<>>)
  PROVE  Bares(F, g, l)
<1> DEFINE S == Text(F)
           none == <<>>
           a == <<l>>
<1>1. F \in Seq(S) /\ l \in S
  BY TextIs
<1>3. a \in Seq(S) /\ none \in Seq(S)
  BY <1>1, Alone, EmptySeq
<1>4. none \o none = none /\ none \o none \o none = none /\ none \o a = a /\ none \o a \o none = a
  BY <1>3, ConcatEmptySeq
<1> HIDE DEF a, none
<1>7. g.body \in Seq(BodyLines(S)) /\ Reads(g, start, none, none, a, none)
  <2> g = Hunk(start, none, none, a, none)
    BY DEF a, none
  <2> QED BY <1>3, HunkIs
<1>8. Unmarked(g.body, {" ", "-"}) = none /\ Unmarked(g.body, {" ", "+"}) = a /\ Unmarked(g.body, {"+"}) = a /\ g.start = start
  BY <1>4, <1>7 DEF Reads
<1>9. IsHunk(g)
  BY DEF IsHunk, Hunk
<1> QED BY <1>7, <1>8, <1>9 DEF Bares, S, a, none

LEMMA ShownLine ==
  ASSUME codeFile \in Sources, Excerpt(excerpt, codeFile), NEW i \in DOMAIN excerpt.lines
  PROVE  /\ LineAt(i) \in 1..Len(codeFile) /\ LineAt(i) \in Nat /\ excerpt.lines[i] = codeFile[LineAt(i)] /\ Len(codeFile) \in Nat
         /\ LineAt(i) = excerpt.from + i - 1 /\ excerpt.from \in Nat /\ i \in Nat
<1> DEFINE s == excerpt.lines
           f == excerpt.from
<1>1. PartOf(s, f, codeFile)
  BY DEF Excerpt
<1>2. s \in Seq(Text(codeFile)) /\ codeFile \in Seq(Text(codeFile))
  BY <1>1, TextIs DEF PartOf
<1>3. DOMAIN s = 1..Len(s) /\ Len(s) \in Nat /\ Len(codeFile) \in Nat
  BY <1>2, LenProperties
<1>4. LineAt(i) = f + i - 1
  BY DEF LineAt
<1>5. i \in 1..Len(s)
  BY <1>3
<1> HIDE DEF s, f
<1>6. f + i - 1 \in 1..Len(codeFile) /\ s[i] = codeFile[f + i - 1] /\ f \in Nat
  BY <1>1, <1>5 DEF PartOf
<1>7. f + i - 1 \in Nat
  BY <1>3, <1>6
<1> QED BY <1>3, <1>4, <1>5, <1>6, <1>7 DEF s, f

(* An answer with a diff of its own has all fields of an answer.           *)
OwnAnswer(a) == \E own, m, n : own # NoDiff /\ a = Proposal(<<>>, <<>>, own, m, n)
                               /\ \E h, f : own = [headers |-> TRUE, prefixed |-> TRUE, files |-> f, hunks |-> h]
LEMMA OwnIs ==
  ASSUME NEW h, NEW m, NEW n, NEW a, a = Own(h, m, n)
  PROVE  OwnAnswer(a) /\ a.own.hunks = h /\ a.meant = m /\ a.shift = n /\ ~a.quoted
<1> DEFINE own == [headers |-> TRUE, prefixed |-> TRUE, files |-> {target.file}, hunks |-> h]
<1>1. own # NoDiff
  <2> own.headers = TRUE /\ NoDiff.headers = FALSE
    BY DEF NoDiff
  <2> QED OBVIOUS
<1>2. own.hunks = h /\ \E k, f : own = [headers |-> TRUE, prefixed |-> TRUE, files |-> f, hunks |-> k]
  OBVIOUS
<1>3. a = Proposal(<<>>, <<>>, own, m, n)
  BY DEF Own
<1> HIDE DEF own
<1>4. a.own = own /\ a.meant = m /\ a.shift = n /\ a.quoted = (own = NoDiff)
  BY <1>3 DEF Proposal
<1> QED BY <1>1, <1>2, <1>3, <1>4 DEF OwnAnswer

(* The kinds of diffs of the model's own.                                  *)
OwnKind(a, D, F) ==
  \/ \E i \in D, l \in NewLines, off \in {0, 1} : a = Own(<<LineAfter(i, l, off)>>, With(F, i, l), -off)
  \/ \E i \in D, l \in NewLines : a = Own(<<BareLineAfter(i, l)>>, With(F, i, l), 1)
  \/ \E q \in D \X D, l \in NewLines : q[1] < q[2] /\
       a = Own(<<LineAfter(q[1], l, 0), LineAfter(q[2], l, 0)>>, With(With(F, q[2], l), q[1], l), 0)
LEMMA OwnKinds ==
  ASSUME NEW a \in Owns
  PROVE  OwnKind(a, DOMAIN excerpt.lines, codeFile)
<1> DEFINE F == codeFile
           D == DOMAIN excerpt.lines
<1>1. OwnKind(a, D, F)
  BY DEF Owns, OwnKind
<1> QED BY <1>1

LEMMA OwnsIs ==
  ASSUME codeFile \in Sources, Excerpt(excerpt, codeFile), NEW a \in Owns
  PROVE  OwnAnswer(a) /\ Owning(codeFile, a) /\ ~a.quoted
<1> DEFINE F == codeFile
           D == DOMAIN excerpt.lines
<1>1. CASE \E i \in D, l \in NewLines, off \in {0, 1} : a = Own(<<LineAfter(i, l, off)>>, With(F, i, l), -off)
  <2>1. PICK i \in D, l \in NewLines, off \in {0, 1} : a = Own(<<LineAfter(i, l, off)>>, With(F, i, l), -off)
    BY <1>1
  <2> DEFINE A == LineAt(i)
             g == LineAfter(i, l, off)
             w == excerpt.lines[i]
             start == A + off
  <2>2. A \in 1..Len(F) /\ A \in Nat /\ w = F[A]
    BY ShownLine
  <2>3. g = Hunk(start, <<w>>, <<>>, <<l>>, <<>>) /\ start \in Nat
    BY <2>2 DEF LineAfter
  <2>4. OwnAnswer(a) /\ a.own.hunks = <<g>> /\ a.meant = With(F, i, l) /\ a.shift = -off /\ ~a.quoted
    BY <2>1, OwnIs
  <2>5. With(F, i, l) = Spliced(F, A + 1, A, <<l>>)
    BY <2>2, InsertIs DEF With
  <2>6. start + (-off) = A /\ -off \in Int
    BY <2>2
  <2> HIDE DEF A, g, w, start, F
  <2>7. Adds(F, g, A, l) /\ g.start = start
    BY <2>2, <2>3, AfterIs DEF F
  <2>8. Owning(F, a)
    BY <2>4, <2>5, <2>6, <2>7 DEF Owning
  <2> QED BY <2>4, <2>8 DEF F
<1>2. CASE \E i \in D, l \in NewLines : a = Own(<<BareLineAfter(i, l)>>, With(F, i, l), 1)
  <2>1. PICK i \in D, l \in NewLines : a = Own(<<BareLineAfter(i, l)>>, With(F, i, l), 1)
    BY <1>2
  <2> DEFINE A == LineAt(i)
             g == BareLineAfter(i, l)
  <2>2. A \in Nat /\ Len(F) >= 1
    BY ShownLine
  <2>3. g = Hunk(A, <<>>, <<>>, <<l>>, <<>>)
    BY DEF BareLineAfter
  <2>4. OwnAnswer(a) /\ a.own.hunks = <<g>> /\ a.shift = 1 /\ ~a.quoted
    BY <2>1, OwnIs
  <2> HIDE DEF A, g
  <2>5. Bares(F, g, l)
    BY <2>2, <2>3, BareIs
  <2>6. Owning(F, a)
    BY <2>4, <2>5 DEF Owning
  <2> QED BY <2>4, <2>6
<1>3. CASE \E q \in D \X D, l \in NewLines : q[1] < q[2] /\
             a = Own(<<LineAfter(q[1], l, 0), LineAfter(q[2], l, 0)>>, With(With(F, q[2], l), q[1], l), 0)
  <2>1. PICK q \in D \X D, l \in NewLines : q[1] < q[2] /\
             a = Own(<<LineAfter(q[1], l, 0), LineAfter(q[2], l, 0)>>, With(With(F, q[2], l), q[1], l), 0)
    BY <1>3
  <2>2. PICK i \in D, j \in D : i = q[1] /\ j = q[2]
    OBVIOUS
  <2> DEFINE A == LineAt(i)
             B == LineAt(j)
             g == LineAfter(i, l, 0)
             e == LineAfter(j, l, 0)
             meant == With(With(F, j, l), i, l)
  <2>3. A \in 1..Len(F) /\ A \in Nat /\ excerpt.lines[i] = F[A]
    BY ShownLine
  <2>4. B \in 1..Len(F) /\ B \in Nat /\ excerpt.lines[j] = F[B]
    BY ShownLine
  <2>5. A < B
    <3>1. A = excerpt.from + i - 1 /\ B = excerpt.from + j - 1 /\ excerpt.from \in Nat /\ i \in Nat /\ j \in Nat
      BY ShownLine
    <3>2. i < j
      BY <2>1, <2>2
    <3> DEFINE f == excerpt.from
    <3> HIDE DEF A, B, f
    <3> QED BY <3>1, <3>2 DEF f
  <2>6. g = Hunk(A, <<excerpt.lines[i]>>, <<>>, <<l>>, <<>>) /\ e = Hunk(B, <<excerpt.lines[j]>>, <<>>, <<l>>, <<>>)
    BY <2>3, <2>4 DEF LineAfter
  <2>7. OwnAnswer(a) /\ a.own.hunks = <<g, e>> /\ a.meant = meant /\ a.shift = 0 /\ ~a.quoted
    BY <2>1, <2>2, OwnIs
  <2>8. meant = Spliced(Spliced(F, B + 1, B, <<l>>), A + 1, A, <<l>>)
    BY <2>3, <2>4, InsertIs DEF With
  <2> HIDE DEF A, B, g, e, meant
  <2>9. Adds(F, g, A, l) /\ g.start = A
    BY <2>3, <2>6, AfterIs
  <2>10. Adds(F, e, B, l) /\ e.start = B
    BY <2>4, <2>6, AfterIs
  <2>11. Owning(F, a)
    BY <2>5, <2>7, <2>8, <2>9, <2>10 DEF Owning
  <2> QED BY <2>7, <2>11
<1>4. \/ \E i \in D, l \in NewLines, off \in {0, 1} : a = Own(<<LineAfter(i, l, off)>>, With(F, i, l), -off)
      \/ \E i \in D, l \in NewLines : a = Own(<<BareLineAfter(i, l)>>, With(F, i, l), 1)
      \/ \E q \in D \X D, l \in NewLines : q[1] < q[2] /\
             a = Own(<<LineAfter(q[1], l, 0), LineAfter(q[2], l, 0)>>, With(With(F, q[2], l), q[1], l), 0)
  BY OwnKinds DEF OwnKind
<1> QED BY <1>1, <1>2, <1>3, <1>4

(* An answer with something wrong: the same code, or no code.              *)
SameQuote(b, a) ==
  /\ b.original = a.original /\ b.meant = a.meant /\ b.shift = a.shift /\ b.own = NoDiff
  /\ b.patched = a.patched \/ b.patched = b.original
LEMMA FlawedIs ==
  ASSUME NEW o, NEW p, NEW m, NEW n, NEW a, a = Proposal(o, p, NoDiff, m, n), NEW b \in Flawed(a)
  PROVE  SameQuote(b, a)
<1> USE DEF Proposal
<1>1. CASE \E w : b = [a EXCEPT !.wrapped = w]
  BY <1>1 DEF SameQuote
<1>2. CASE \E w : b = [a EXCEPT !.status = w]
  BY <1>2 DEF SameQuote
<1>3. CASE \E w : b = [a EXCEPT !.vulnerability = w]
  BY <1>3 DEF SameQuote
<1>4. CASE \E w : b = [a EXCEPT !.file = w]
  BY <1>4 DEF SameQuote
<1>5. CASE b = [a EXCEPT !.patched = a.original]
  BY <1>5 DEF SameQuote
<1>6. CASE \E w : b = [a EXCEPT !.explanation = w]
  BY <1>6 DEF SameQuote
<1>7. CASE b = [a EXCEPT !.remediation = FALSE]
  BY <1>7 DEF SameQuote
<1>8. CASE b = [a EXCEPT !.assumptions = MaxAssumptions + 1]
  BY <1>8 DEF SameQuote
<1>9. CASE b = [a EXCEPT !.quoted = FALSE]
  BY <1>9 DEF SameQuote
<1>10. CASE \E r : b = [a EXCEPT !.status = "REJECTED", !.file = Missing, !.quoted = FALSE, !.reason = r]
  BY <1>10 DEF SameQuote
<1>11. \/ \E w : b = [a EXCEPT !.wrapped = w]
       \/ \E w : b = [a EXCEPT !.status = w]
       \/ \E w : b = [a EXCEPT !.vulnerability = w]
       \/ \E w : b = [a EXCEPT !.file = w]
       \/ b = [a EXCEPT !.patched = a.original]
       \/ \E w : b = [a EXCEPT !.explanation = w]
       \/ b = [a EXCEPT !.remediation = FALSE]
       \/ b = [a EXCEPT !.assumptions = MaxAssumptions + 1]
       \/ b = [a EXCEPT !.quoted = FALSE]
       \/ \E r : b = [a EXCEPT !.status = "REJECTED", !.file = Missing, !.quoted = FALSE, !.reason = r]
  <2> HIDE DEF Proposal
  <2> QED BY DEF Flawed
<1> HIDE DEF Proposal
<1> QED BY <1>1, <1>2, <1>3, <1>4, <1>5, <1>6, <1>7, <1>8, <1>9, <1>10, <1>11

(* A line before the first of a hunk, unmarked or one the file has not.    *)
After1(S, r, w, mark, body, marks) ==
  r \in Seq(BodyLines(S)) /\ Unmarked(r, marks) = (IF mark \in marks THEN <<w>> ELSE <<>>) \o Unmarked(body, marks)
Before1(w, mark, body) == <<[mark |-> mark, line |-> w]>> \o body
LEMMA Before1Is ==
  ASSUME NEW S, NEW w \in S, NEW mark \in Marks, NEW body \in Seq(BodyLines(S)), NEW marks
  PROVE  After1(S, Before1(w, mark, body), w, mark, body, marks)
<1> DEFINE one == <<w>>
           first == <<[mark |-> mark, line |-> w]>>
           r == first \o body
<1>1. one \in Seq(S) /\ Len(one) = 1 /\ one[1] = w
  BY Alone
<1>2. [mark |-> mark, line |-> w] \in BodyLines(S)
  BY DEF BodyLines
<1>3. first \in Seq(BodyLines(S)) /\ Len(first) = 1 /\ first[1] = [mark |-> mark, line |-> w]
  BY <1>2, Alone
<1> HIDE DEF one, first
<1>4. /\ Marked(mark, one) \in Seq(BodyLines(S)) /\ Len(Marked(mark, one)) = 1
      /\ \A i \in 1..1 : Marked(mark, one)[i] = [mark |-> mark, line |-> one[i]]
  BY <1>1, MarkedIs
<1>5. Marked(mark, one) = first
  <2> DEFINE v == Marked(mark, one)
  <2>1. v \in Seq(BodyLines(S)) /\ Len(v) = 1 /\ v[1] = first[1]
    BY <1>1, <1>3, <1>4
  <2> HIDE DEF v
  <2>2. \A i \in 1..Len(v) : v[i] = first[i]
    BY <2>1
  <2>3. v = first
    BY <1>3, <2>1, <2>2, SeqEqual
  <2> QED BY <2>3 DEF v
<1>6. Unmarked(first, marks) = IF mark \in marks THEN one ELSE <<>>
  BY <1>1, <1>5, UnmarkedMarked
<1>7. r \in Seq(BodyLines(S))
  BY <1>3, ConcatProperties
<1>8. JoinsMarks(first, body, marks)
  BY <1>3, UnmarkedJoins
<1>9. Unmarked(r, marks) = (IF mark \in marks THEN one ELSE <<>>) \o Unmarked(body, marks)
  BY <1>6, <1>8 DEF JoinsMarks
<1> QED BY <1>7, <1>9 DEF one, first, After1, Before1

(* A hunk that reads as another does what the other does.                  *)
ReadsAs(k, g, S) ==
  /\ IsHunk(k) /\ k.body \in Seq(BodyLines(S)) /\ k.start = g.start
  /\ Unmarked(k.body, {" ", "-"}) = Unmarked(g.body, {" ", "-"})
  /\ Unmarked(k.body, {" ", "+"}) = Unmarked(g.body, {" ", "+"})
  /\ Unmarked(k.body, {"+"}) = Unmarked(g.body, {"+"})
LEMMA OwningToo ==
  ASSUME NEW F, NEW a, NEW b, NEW g, NEW k, Owning(F, a), a.own.hunks = <<g>>, b.own.hunks = <<k>>, b.meant = a.meant,
         b.shift = a.shift, ReadsAs(k, g, Text(F))
  PROVE  Owning(F, b)
<1>1. \A A, l : Adds(F, g, A, l) => Adds(F, k, A, l) /\ k.start = g.start
  BY DEF Adds, ReadsAs
<1>2. \A l : Bares(F, g, l) => Bares(F, k, l)
  BY DEF Bares, ReadsAs
<1>3. Misses(F, g) => Misses(F, k)
  BY DEF Misses, ReadsAs
<1>4. \A x, y : <<g>> # <<x, y>>
  <2> TAKE x, y
  <2> DOMAIN <<g>> = {1} /\ 2 \in DOMAIN <<x, y>>
    OBVIOUS
  <2> QED OBVIOUS
<1>5. \A x : <<g>> = <<x>> => g = x
  OBVIOUS
<1>6. CASE \E A, l : Adds(F, g, A, l) /\ a.shift \in Int /\ g.start + a.shift = A /\ a.meant = Spliced(F, A + 1, A, <<l>>)
  <2>1. PICK A, l : Adds(F, g, A, l) /\ a.shift \in Int /\ g.start + a.shift = A /\ a.meant = Spliced(F, A + 1, A, <<l>>)
    BY <1>6
  <2>2. Adds(F, k, A, l) /\ k.start + b.shift = A /\ b.shift \in Int
    BY <1>1, <2>1
  <2>3. b.meant = Spliced(F, A + 1, A, <<l>>)
    BY <2>1
  <2> QED BY <2>2, <2>3 DEF Owning
<1>7. CASE \E l : Bares(F, g, l) /\ a.shift = 1
  BY <1>2, <1>7 DEF Owning
<1>8. CASE Misses(F, g)
  BY <1>3, <1>8 DEF Owning
<1>9. \/ \E A, l : Adds(F, g, A, l) /\ a.shift \in Int /\ g.start + a.shift = A /\ a.meant = Spliced(F, A + 1, A, <<l>>)
      \/ \E l : Bares(F, g, l) /\ a.shift = 1
      \/ Misses(F, g)
  BY <1>4, <1>5 DEF Owning
<1> QED BY <1>6, <1>7, <1>8, <1>9

LEMMA FlawedHunksAre ==
  ASSUME NEW F \in Sources, NEW g, IsHunk(g), g.body \in Seq(BodyLines(Text(F))), g.start \in Nat, NEW k \in FlawedHunks(g)
  PROVE  ReadsAs(k, g, Text(F)) \/ Misses(F, k)
<1> DEFINE S == Text(F)
           unmarked == <<[mark |-> "", line |-> ""]>>
           unseen == <<[mark |-> " ", line |-> "unseen"]>>
           more == [g EXCEPT !.olds = @ + 1]
           loose == [g EXCEPT !.body = unmarked \o @]
           missed == [more EXCEPT !.body = unseen \o @, !.news = @ + 1]
           body == g.body
<1>1. PICK start, olds, news : g = [start |-> start, olds |-> olds, news |-> news, body |-> body]
  BY DEF IsHunk
<1>2. k = more \/ k = loose \/ k = missed
  BY DEF FlawedHunks
<1> DEFINE one == olds + 1
           two == news + 1
           left == unmarked \o body
           miss == unseen \o body
<1>3. more = [start |-> start, olds |-> one, news |-> news, body |-> body]
  <2> g.olds = olds
    BY <1>1
  <2> more = [g EXCEPT !.olds = one]
    OBVIOUS
  <2> HIDE DEF one, body, more
  <2> QED BY <1>1
<1>4. loose = [start |-> start, olds |-> olds, news |-> news, body |-> left]
  <2> g.body = body
    OBVIOUS
  <2> loose = [g EXCEPT !.body = left]
    OBVIOUS
  <2> HIDE DEF left, body, loose
  <2> QED BY <1>1
<1>5. missed = [start |-> start, olds |-> one, news |-> two, body |-> miss]
  <2> HIDE DEF more
  <2> more.body = body /\ more.news = news
    BY <1>3
  <2> missed = [more EXCEPT !.body = miss, !.news = two]
    OBVIOUS
  <2> HIDE DEF miss, body, two, one, missed
  <2> DEFINE half == [more EXCEPT !.body = miss]
  <2>1. half = [start |-> start, olds |-> one, news |-> news, body |-> miss]
    BY <1>3
  <2>2. missed = [half EXCEPT !.news = two]
    BY DEF missed
  <2> HIDE DEF half
  <2> QED BY <2>1, <2>2
<1> HIDE DEF more, loose, missed, one, two
<1>6. body \in Seq(BodyLines(S))
  OBVIOUS
<1> HIDE DEF body
<1>7. CASE k = more
  BY <1>1, <1>3, <1>6, <1>7 DEF ReadsAs, IsHunk
<1>8. CASE k = loose
  <2>1. PICK w \in S : w = ""
    BY TextIs
  <2>2. PICK mark \in Marks : mark = ""
    BY DEF Marks
  <2>3. left = Before1(w, mark, body)
    BY <2>1, <2>2 DEF Before1
  <2> HIDE DEF left
  <2>4. \A marks : left \in Seq(BodyLines(S)) /\ Unmarked(left, marks) = (IF mark \in marks THEN <<w>> ELSE <<>>) \o Unmarked(body, marks)
    <3> TAKE marks
    <3>1. After1(S, Before1(w, mark, body), w, mark, body, marks)
      <4> HIDE DEF S
      <4> QED BY <1>6, Before1Is
    <3> QED BY <2>3, <3>1 DEF After1
  <2>5. \A marks : mark \notin marks => Unmarked(left, marks) = Unmarked(body, marks)
    <3> TAKE marks
    <3> Unmarked(body, marks) \in Seq(S)
      BY <1>6, UnmarkedIs
    <3> QED BY <2>4, ConcatEmptySeq
  <2>6. mark \notin {" ", "-"} /\ mark \notin {" ", "+"} /\ mark \notin {"+"}
    BY <2>2
  <2>7. k.body = left /\ k.start = g.start /\ IsHunk(k)
    BY <1>1, <1>4, <1>8 DEF IsHunk
  <2> QED BY <2>4, <2>5, <2>6, <2>7 DEF ReadsAs, body
<1>9. CASE k = missed
  <2>1. PICK w \in S : w = "unseen"
    BY DEF Text
  <2>2. PICK mark \in Marks : mark = " "
    BY DEF Marks
  <2>3. miss = Before1(w, mark, body)
    BY <2>1, <2>2 DEF Before1
  <2> HIDE DEF miss
  <2>4. \A marks : miss \in Seq(BodyLines(S)) /\ Unmarked(miss, marks) = (IF mark \in marks THEN <<w>> ELSE <<>>) \o Unmarked(body, marks)
    <3> TAKE marks
    <3>1. After1(S, Before1(w, mark, body), w, mark, body, marks)
      <4> HIDE DEF S
      <4> QED BY <1>6, Before1Is
    <3> QED BY <2>3, <3>1 DEF After1
  <2>5. Unmarked(miss, {" ", "-"}) = <<w>> \o Unmarked(body, {" ", "-"})
    BY <2>2, <2>4
  <2>6. w \in Lines(Unmarked(miss, {" ", "-"}))
    <3> DEFINE marks == {" ", "-"}
               rest == Unmarked(body, marks)
               head == <<w>>
               r == head \o rest
    <3>1. Unmarked(miss, marks) = r
      BY <2>5
    <3> HIDE DEF marks
    <3>2. rest \in Seq(S) /\ head \in Seq(S) /\ Len(head) = 1 /\ head[1] = w /\ Len(rest) \in Nat
      BY <1>6, UnmarkedIs, Alone, LenProperties
    <3> HIDE DEF rest, head
    <3>3. /\ r \in Seq(S) /\ Len(r) = Len(head) + Len(rest)
          /\ \A i \in 1..Len(head) + Len(rest) : r[i] = IF i <= Len(head) THEN head[i] ELSE rest[i - Len(head)]
      <4> HIDE DEF S
      <4> QED BY <3>2, ConcatProperties
    <3> HIDE DEF r
    <3>4. 1 \in 1..Len(r) /\ 1 \in 1..Len(head) + Len(rest) /\ DOMAIN r = 1..Len(r) /\ 1 <= Len(head)
      BY <3>2, <3>3, LenProperties
    <3>5. r[1] = w
      BY <3>2, <3>3, <3>4
    <3> QED BY <3>1, <3>4, <3>5 DEF Lines, marks
  <2>7. k.body = miss /\ k.start = g.start /\ IsHunk(k)
    BY <1>1, <1>5, <1>9 DEF IsHunk
  <2> QED BY <2>1, <2>4, <2>6, <2>7 DEF Misses
<1> QED BY <1>2, <1>7, <1>8, <1>9

LEMMA FlawedDiffsIs ==
  ASSUME NEW F \in Sources, NEW a, OwnAnswer(a), Owning(F, a), NEW g, a.own.hunks = <<g>>, NEW b \in FlawedDiffs(a)
  PROVE  Owning(F, b) /\ ~b.quoted
<1> DEFINE d == a.own
<1>1. PICK own, m, n : own # NoDiff /\ a = Proposal(<<>>, <<>>, own, m, n)
                       /\ \E h, f : own = [headers |-> TRUE, prefixed |-> TRUE, files |-> f, hunks |-> h]
  BY DEF OwnAnswer
<1>2. a.own = own /\ a.quoted = FALSE
  BY <1>1 DEF Proposal
<1>3. PICK f : d = [headers |-> TRUE, prefixed |-> TRUE, files |-> f, hunks |-> <<g>>]
  <2>1. PICK h, f : own = [headers |-> TRUE, prefixed |-> TRUE, files |-> f, hunks |-> h]
    BY <1>1
  <2>2. h = <<g>>
    BY <1>2, <2>1
  <2> QED BY <1>2, <2>1, <2>2
<1>4. PICK w : b = [a EXCEPT !.own = w] /\
           \/ w = [d EXCEPT !.headers = FALSE] \/ w = [d EXCEPT !.prefixed = FALSE] \/ w = [d EXCEPT !.files = {}]
           \/ w = [d EXCEPT !.files = @ \cup {"other.py"}]
           \/ \E k \in FlawedHunks(d.hunks[1]) : w = [d EXCEPT !.hunks = <<k>>]
  BY DEF FlawedDiffs
<1>5. b.own = w /\ b.meant = a.meant /\ b.shift = a.shift /\ b.quoted = FALSE
  BY <1>1, <1>2, <1>4 DEF Proposal
<1> HIDE DEF d
<1>6. d.hunks = <<g>> /\ d.hunks[1] = g
  BY <1>3
<1>7. IsHunk(g) /\ g.body \in Seq(BodyLines(Text(F))) /\ g.start \in Nat
  <2>1. \A x, y : <<g>> # <<x, y>>
    <3> TAKE x, y
    <3> DOMAIN <<g>> = {1} /\ 2 \in DOMAIN <<x, y>>
      OBVIOUS
    <3> QED OBVIOUS
  <2>2. \A x : <<g>> = <<x>> => g = x
    OBVIOUS
  <2>3. (\E A, l : Adds(F, g, A, l)) \/ (\E l : Bares(F, g, l)) \/ Misses(F, g)
    BY <2>1, <2>2 DEF Owning
  <2> QED BY <2>3 DEF Adds, Bares, Misses
<1>8. \/ w.hunks = <<g>> \/ \E k \in FlawedHunks(g) : w.hunks = <<k>>
  <2>1. CASE w = [d EXCEPT !.headers = FALSE]
    BY <1>3, <2>1
  <2>2. CASE w = [d EXCEPT !.prefixed = FALSE]
    BY <1>3, <2>2
  <2>3. CASE w = [d EXCEPT !.files = {}]
    BY <1>3, <2>3
  <2>4. CASE w = [d EXCEPT !.files = @ \cup {"other.py"}]
    BY <1>3, <2>4
  <2>5. CASE \E k \in FlawedHunks(d.hunks[1]) : w = [d EXCEPT !.hunks = <<k>>]
    <3>1. PICK k \in FlawedHunks(g) : w = [d EXCEPT !.hunks = <<k>>]
      BY <1>6, <2>5
    <3>2. w.hunks = <<k>>
      BY <1>3, <3>1
    <3> QED BY <3>1, <3>2
  <2> QED BY <1>4, <2>1, <2>2, <2>3, <2>4, <2>5
<1>9. CASE w.hunks = <<g>>
  <2> ReadsAs(g, g, Text(F))
    BY <1>7 DEF ReadsAs
  <2> QED BY <1>5, <1>9, OwningToo
<1>10. CASE \E k \in FlawedHunks(g) : w.hunks = <<k>>
  <2>1. PICK k \in FlawedHunks(g) : w.hunks = <<k>>
    BY <1>10
  <2>2. ReadsAs(k, g, Text(F)) \/ Misses(F, k)
    BY <1>7, FlawedHunksAre
  <2>3. CASE ReadsAs(k, g, Text(F))
    BY <1>5, <2>1, <2>3, OwningToo
  <2>4. CASE Misses(F, k)
    BY <1>5, <2>1, <2>4 DEF Owning
  <2> QED BY <2>2, <2>3, <2>4, <1>5
<1> QED BY <1>8, <1>9, <1>10

(* What the diff of an answer does to the file, if the answer changes it.  *)
Lands(a, F) ==
  /\ a.quoted /\ a.original # a.patched =>
       /\ Parsable(DiffOf(a)) /\ Changes(F, DiffOf(a), a.meant, a.shift)
       /\ Stands(F, a.original) # {} => ApplyUnifiedDiff(F, DiffOf(a)) # Conflict
  /\ ~a.quoted /\ a.own.hunks # <<>> => Changes(F, a.own, a.meant, a.shift)

LEMMA QuotingLands ==
  ASSUME NEW F \in Sources, NEW a, NEW b, Quoting(F, Text(F), a), SameQuote(b, a)
  PROVE  Lands(b, F)
<1> DEFINE S == Text(F)
           d == DiffOf(b)
<1>1. PICK o \in Seq(S), p \in Seq(S), A \in Nat, e \in LineEnds :
         /\ Newline(e) /\ a.original = o \o e /\ a.patched = p \o e /\ QuotedAt(F, o, A)
         /\ Lines(p) \subseteq Lines(F) \cup NewLines /\ a.shift = A - 1
         /\ a.meant = Spliced(F, A, A + Len(o) - 1, p)
  BY DEF Quoting
<1> DEFINE oe == o \o e
           pe == p \o e
<1>2. ASSUME b.quoted, b.original # b.patched
      PROVE  Parsable(d) /\ Changes(F, d, b.meant, b.shift) /\ (Stands(F, b.original) # {} => ApplyUnifiedDiff(F, d) # Conflict)
  <2>1. b.original = oe /\ b.patched = pe /\ b.meant = a.meant /\ b.shift = a.shift
    BY <1>1, <1>2 DEF SameQuote
  <2>2. d = BuildUnifiedDiff(b.file, oe, pe)
    BY <1>2, <2>1 DEF DiffOf
  <2> DEFINE file == b.file
             meant == Spliced(F, A, A + Len(o) - 1, p)
  <2> HIDE DEF d, S, file, oe, pe
  <2>3. /\ Parsable(d) /\ Changes(F, d, meant, A - 1)
        /\ Stands(F, oe) # {} => ApplyUnifiedDiff(F, d) # Conflict
    BY <1>1, <2>2, QuoteLands DEF S, file, oe, pe
  <2> HIDE DEF meant
  <2>4. b.meant = meant /\ b.shift = A - 1
    BY <1>1, <2>1 DEF meant
  <2> QED BY <2>1, <2>3, <2>4
<1>3. b.own.hunks = <<>>
  BY DEF SameQuote, NoDiff
<1> QED BY <1>2, <1>3 DEF Lands

LEMMA OwningLands ==
  ASSUME NEW F \in Sources, NEW a, Owning(F, a), ~a.quoted
  PROVE  Lands(a, F)
<1> DEFINE d == a.own
<1>1. CASE \E g, l, A : d.hunks = <<g>> /\ Adds(F, g, A, l) /\ a.shift \in Int /\ g.start + a.shift = A
                  /\ a.meant = Spliced(F, A + 1, A, <<l>>)
  <2>1. PICK g, l, A : d.hunks = <<g>> /\ Adds(F, g, A, l) /\ a.shift \in Int /\ g.start + a.shift = A
                  /\ a.meant = Spliced(F, A + 1, A, <<l>>)
    BY <1>1
  <2> DEFINE meant == a.meant
             shift == a.shift
  <2>2. d.hunks = <<g>> /\ shift \in Int /\ g.start + shift = A /\ meant = Spliced(F, A + 1, A, <<l>>)
    BY <2>1
  <2> HIDE DEF d, meant, shift
  <2>3. Changes(F, d, meant, shift)
    BY <2>1, <2>2, AddsLands
  <2> QED BY <2>3 DEF Lands, d, meant, shift
<1>2. CASE \E g, l : d.hunks = <<g>> /\ Bares(F, g, l) /\ a.shift = 1
  <2>1. PICK g, l : d.hunks = <<g>> /\ Bares(F, g, l) /\ a.shift = 1
    BY <1>2
  <2> DEFINE meant == a.meant
  <2> HIDE DEF d, meant
  <2>2. Changes(F, d, meant, 1)
    BY <2>1, BaresLands
  <2> QED BY <2>1, <2>2 DEF Lands, d, meant
<1>3. CASE \E g : d.hunks = <<g>> /\ Misses(F, g)
  <2>1. PICK g : d.hunks = <<g>> /\ Misses(F, g)
    BY <1>3
  <2> HIDE DEF d
  <2>2. ApplyUnifiedDiff(F, d) = Conflict
    BY <2>1, MissesLands
  <2>3. Changes(F, d, a.meant, a.shift)
    BY <2>2 DEF Changes
  <2> QED BY <2>3 DEF Lands, d
<1>4. CASE \E g, e, l, A, B : d.hunks = <<g, e>> /\ Adds(F, g, A, l) /\ Adds(F, e, B, l) /\ g.start = A /\ e.start = B /\ A < B
                  /\ a.shift = 0 /\ a.meant = Spliced(Spliced(F, B + 1, B, <<l>>), A + 1, A, <<l>>)
  <2>1. PICK g, e, l, A, B : d.hunks = <<g, e>> /\ Adds(F, g, A, l) /\ Adds(F, e, B, l) /\ g.start = A /\ e.start = B /\ A < B
                  /\ a.shift = 0 /\ a.meant = Spliced(Spliced(F, B + 1, B, <<l>>), A + 1, A, <<l>>)
    BY <1>4
  <2> DEFINE meant == a.meant
  <2>2. meant = Spliced(Spliced(F, B + 1, B, <<l>>), A + 1, A, <<l>>)
    BY <2>1
  <2> HIDE DEF d, meant
  <2>3. Changes(F, d, meant, 0)
    BY <2>1, <2>2, TwoLands
  <2> QED BY <2>1, <2>3 DEF Lands, d, meant
<1> QED BY <1>1, <1>2, <1>3, <1>4 DEF Owning

(* Where the model adds a line of its own, one of its answers has one hunk. *)
LEMMA OneHunkAnswer ==
  ASSUME Owns # {}
  PROVE  \E a \in Owns : Len(a.own.hunks) = 1
<1> DEFINE D == DOMAIN excerpt.lines
<1>1. (\E i \in D, l \in NewLines : TRUE)
  <2>1. SUFFICES ASSUME NEW a \in Owns PROVE \E i \in D, l \in NewLines : TRUE
    OBVIOUS
  <2>2. OwnKind(a, D, codeFile)
    BY OwnKinds
  <2>3. ASSUME NEW q \in D \X D, NEW l \in NewLines PROVE \E i \in D, m \in NewLines : TRUE
    <3> q[1] \in D
      OBVIOUS
    <3> QED OBVIOUS
  <2> QED BY <2>2, <2>3 DEF OwnKind
<1>2. PICK i \in D, l \in NewLines : TRUE
  BY <1>1
<1> DEFINE g == BareLineAfter(i, l)
           h == <<g>>
           a == Own(h, With(codeFile, i, l), 1)
<1>3. a \in Owns
  BY <1>2 DEF Owns
<1>4. a.own.hunks = h
  BY OwnIs
<1>5. Len(h) = 1
  <2> HIDE DEF g
  <2> QED OBVIOUS
<1> QED BY <1>3, <1>4, <1>5

LEMMA AnswersLand ==
  ASSUME codeFile \in Sources, Excerpt(excerpt, codeFile), NEW b \in Answers
  PROVE  Lands(b, codeFile)
<1>1. CASE b \in Quotes
  <2>1. Quoting(codeFile, Text(codeFile), b) /\ b.own = NoDiff
    BY <1>1, QuotesIs
  <2>2. SameQuote(b, b)
    BY <2>1 DEF SameQuote
  <2> QED BY <2>1, <2>2, QuotingLands
<1>2. CASE b \in Owns
  BY <1>2, OwnsIs, OwningLands
<1>3. CASE Quotes # {} /\ b \in Flawed(CHOOSE a \in Quotes : TRUE)
  <2> DEFINE a == CHOOSE a \in Quotes : TRUE
  <2>1. a \in Quotes
    BY <1>3
  <2>2. b \in Flawed(a)
    BY <1>3
  <2> HIDE DEF a
  <2>3. Quoting(codeFile, Text(codeFile), a) /\ \E o, p, m, n : a = Proposal(o, p, NoDiff, m, n)
    BY <2>1, QuotesIs
  <2>4. SameQuote(b, a)
    BY <2>2, <2>3, FlawedIs
  <2> QED BY <2>3, <2>4, QuotingLands
<1>4. CASE Owns # {} /\ b \in FlawedDiffs(CHOOSE a \in Owns : Len(a.own.hunks) = 1)
  <2> DEFINE a == CHOOSE a \in Owns : Len(a.own.hunks) = 1
  <2>1. a \in Owns /\ Len(a.own.hunks) = 1
    BY <1>4, OneHunkAnswer
  <2>2. b \in FlawedDiffs(a)
    BY <1>4
  <2> HIDE DEF a
  <2>3. OwnAnswer(a) /\ Owning(codeFile, a)
    BY <2>1, OwnsIs
  <2>4. PICK g : a.own.hunks = <<g>>
    <3>1. \A g, e : Len(<<g, e>>) = 2
      OBVIOUS
    <3>2. \A g, e : a.own.hunks # <<g, e>>
      BY <2>1, <3>1
    <3> QED BY <2>3, <3>2 DEF Owning
  <2>5. Owning(codeFile, b) /\ ~b.quoted
    BY <2>2, <2>3, <2>4, FlawedDiffsIs
  <2> QED BY <2>5, OwningLands
<1>5. b \in Quotes \/ b \in Owns \/ (Quotes # {} /\ b \in Flawed(CHOOSE a \in Quotes : TRUE))
      \/ (Owns # {} /\ b \in FlawedDiffs(CHOOSE a \in Owns : Len(a.own.hunks) = 1))
  BY DEF Answers
<1> QED BY <1>1, <1>2, <1>3, <1>4, <1>5

AnsweredOn == {"answered", "drafted", "applied", "conflict", "built", "unbuilt", "tested", "untested", "approved", "unsafe"}
DraftedOn == AnsweredOn \ {"answered"}
AppliedOn == DraftedOn \ {"drafted", "conflict"}
TestedOn == {"tested", "approved", "unsafe"}

(* The row carries the diff of the answer, which changes something and     *)
(* shows nothing that the gate stops.                                      *)
RowOf(held, a) ==
  /\ \E s, f : held = [status |-> s, file |-> f, diff |-> DiffOf(a)]
  /\ a.quoted => a.original # a.patched
  /\ ~a.quoted => a.own.hunks # <<>>
  /\ \A i \in DOMAIN Body(DiffOf(a)) : Body(DiffOf(a))[i].line \notin Secrets \cup Commands
Passed(t) ==
  /\ Cardinality(t.suites) > 1 => t.result = "PASSED"
  /\ Cardinality(t.suites \ {"test script"}) > 1 => t.ran = "pytest"
LetPass(d, x) == AddedLines(d) \cap (Leaks \cup Commands) = {} /\ AddedLines(d) \cap SignalsOf[x.type] # {}
Applicable(d, F) == Parsable(d) /\ ApplyUnifiedDiff(F, d) # Conflict

DraftInv ==
  /\ codeFile \in Sources
  /\ stage = "chosen" => target \in Exploits
  /\ stage = "read" => Excerpt(excerpt, codeFile)
  /\ stage \in AnsweredOn => Lands(answer, codeFile)
  /\ stage \in DraftedOn => RowOf(patchRow, answer)
  /\ stage \in AppliedOn => patchedFile = ApplyUnifiedDiff(codeFile, patchRow.diff) /\ patchedFile # Conflict
  /\ stage \notin AppliedOn => patchedFile = <<>>
  /\ stage = "conflict" => ~Applicable(patchRow.diff, codeFile)
  /\ stage \in TestedOn => Passed(tests)
  /\ stage = "approved" => LetPass(patchRow.diff, target)

Restated(q, held) == q = held \/ \E s : q = [held EXCEPT !.status = s]
LEMMA RowRestated ==
  ASSUME NEW held, NEW a, NEW q, Restated(q, held), RowOf(held, a)
  PROVE  RowOf(q, a) /\ q.diff = held.diff
<1>1. PICK t, f : held = [status |-> t, file |-> f, diff |-> DiffOf(a)]
  BY DEF RowOf
<1>2. CASE q = held
  BY <1>2
<1>3. CASE \E s : q = [held EXCEPT !.status = s]
  <2>1. PICK s : q = [held EXCEPT !.status = s]
    BY <1>3
  <2>2. q = [status |-> s, file |-> f, diff |-> DiffOf(a)]
    BY <1>1, <2>1
  <2> QED BY <1>1, <2>2 DEF RowOf
<1> QED BY <1>2, <1>3 DEF Restated

LEMMA AtMostOne ==
  ASSUME NEW k \in Nat, NEW m \in Nat, k <= m, m <= 1
  PROVE  ~(k > 1)
OBVIOUS

LEMMA RowIs ==
  ASSUME NEW held, NEW a, RowOf(held, a)
  PROVE  held.diff = DiffOf(a)
BY DEF RowOf

LEMMA SuitesPass ==
  ASSUME NEW suites, suites \subseteq SuiteSigns, NEW seen, seen \subseteq suites, Cardinality(suites \ seen) <= 1,
         NEW r, r \in IF SuiteRun(seen) = Missing THEN {"NOT_AVAILABLE"} ELSE {"PASSED", "FAILED"}, r # "FAILED"
  PROVE  Passed([suites |-> suites, seen |-> seen, ran |-> SuiteRun(seen), result |-> r])
<1>1. IsFiniteSet(SuiteSigns)
  <2>1. IsFiniteSet({}) /\ \A S, x : IsFiniteSet(S) => IsFiniteSet(S \cup {x})
    BY FS_EmptySet, FS_AddElement
  <2>2. SuiteSigns = ((({} \cup {"pytest.ini"}) \cup {"conftest.py"}) \cup {"pyproject section"}) \cup {"test script"}
    BY DEF SuiteSigns
  <2> QED BY <2>1, <2>2
<1>2. IsFiniteSet(suites \ seen) /\ IsFiniteSet(suites)
  BY <1>1, FS_Subset
<1>3. ASSUME Cardinality(suites) > 1 PROVE r = "PASSED"
  <2>1. seen # {}
    <3> SUFFICES ASSUME seen = {} PROVE FALSE
      OBVIOUS
    <3>1. suites \ seen = suites
      OBVIOUS
    <3>2. Cardinality(suites) \in Nat /\ Cardinality(suites) <= 1
      BY <1>2, <3>1, FS_CardinalityType
    <3> QED BY <1>3, <3>2
  <2>2. SuiteRun(seen) # Missing
    BY <2>1 DEF SuiteRun, Missing
  <2> QED BY <2>2
<1>4. ASSUME Cardinality(suites \ {"test script"}) > 1 PROVE SuiteRun(seen) = "pytest"
  <2>1. seen \ {"test script"} # {}
    <3> DEFINE kept == suites \ {"test script"}
               lost == suites \ seen
    <3> SUFFICES ASSUME seen \ {"test script"} = {} PROVE FALSE
      OBVIOUS
    <3>1. kept \subseteq lost
      OBVIOUS
    <3>2. Cardinality(kept) \in Nat /\ Cardinality(lost) \in Nat /\ Cardinality(kept) <= Cardinality(lost)
      BY <1>2, <3>1, FS_Subset, FS_CardinalityType
    <3>3. Cardinality(lost) <= 1 /\ Cardinality(kept) > 1
      BY <1>4
    <3> DEFINE k == Cardinality(kept)
               m == Cardinality(lost)
    <3>4. k \in Nat /\ m \in Nat /\ k <= m /\ m <= 1 /\ k > 1
      BY <3>2, <3>3
    <3> HIDE DEF k, m
    <3> QED BY <3>4, AtMostOne
  <2> QED BY <2>1 DEF SuiteRun
<1> QED BY <1>3, <1>4 DEF Passed

LEMMA DraftInitInv == DraftInit => DraftInv
BY DEF DraftInit, DraftInv, AnsweredOn, DraftedOn, AppliedOn, TestedOn

LEMMA DraftNextInv == DraftInv /\ [DraftNext]_draftVars => DraftInv'
<1> SUFFICES ASSUME DraftInv, [DraftNext]_draftVars PROVE DraftInv'
  OBVIOUS
<1> USE DEF AnsweredOn, DraftedOn, AppliedOn, TestedOn
<1>1. ASSUME NEW r, ChooseFinding(r) PROVE DraftInv'
  <2>1. \A x \in Chosen(r) : x \in Exploits
    BY DEF Chosen, ConfirmedRows
  <2> QED BY <1>1, <2>1 DEF ChooseFinding, DraftInv
<1>2. CASE ReadExcerpt
  <2>1. CASE excerpt' = Slice(codeFile, ResolveWindow(target.line)) /\ stage' = "read" /\ UNCHANGED patchRow
    <3>1. target.line \in Nat
      BY <1>2, DraftAssumption DEF ReadExcerpt, DraftInv
    <3>2. Excerpt(Slice(codeFile, ResolveWindow(target.line)), codeFile)
      BY <3>1, SliceIs DEF DraftInv
    <3>3. Excerpt(excerpt', codeFile')
      BY <1>2, <2>1, <3>2 DEF ReadExcerpt
    <3> QED BY <1>2, <2>1, <3>3 DEF ReadExcerpt, DraftInv
  <2>2. CASE RejectDraft
    BY <1>2, <2>2 DEF ReadExcerpt, RejectDraft, DraftInv
  <2> QED BY <1>2, <2>1, <2>2 DEF ReadExcerpt
<1>3. CASE Ask
  <2>1. CASE \E a \in Answers : answer' = a /\ stage' = "answered"
    <3>1. codeFile \in Sources /\ Excerpt(excerpt, codeFile)
      BY <1>3 DEF Ask, DraftInv
    <3>2. \A a \in Answers : Lands(a, codeFile)
      BY <3>1, AnswersLand
    <3>3. Lands(answer', codeFile') /\ stage' = "answered"
      BY <1>3, <2>1, <3>2 DEF Ask
    <3> QED BY <1>3, <3>3 DEF Ask, DraftInv
  <2>2. CASE stage' = "failed"
    BY <1>3, <2>2 DEF Ask, DraftInv
  <2> QED BY <1>3, <2>1, <2>2 DEF Ask
<1>4. CASE SettleDraft
  <2>1. CASE stage' \in {"failed", "rejected"}
    BY <1>4, <2>1 DEF SettleDraft, DraftInv
  <2>2. CASE /\ Valid(answer) /\ answer.status = "GENERATED" /\ GateLetsPass(answer)
             /\ patchRow' = [status |-> "GENERATED", file |-> answer.file, diff |-> DiffOf(answer)]
             /\ stage' = "drafted" /\ UNCHANGED answer
    <3>1. answer.quoted => answer.original # answer.patched
      BY <2>2 DEF Valid
    <3>2. ~answer.quoted => answer.own.hunks # <<>>
      BY <2>2 DEF Valid, ShapeHolds, DiffOf
    <3>3. \A i \in DOMAIN Body(DiffOf(answer)) : Body(DiffOf(answer))[i].line \notin Secrets \cup Commands
      BY <2>2 DEF GateLetsPass
    <3>4. RowOf(patchRow', answer')
      BY <2>2, <3>1, <3>2, <3>3 DEF RowOf
    <3> QED BY <1>4, <2>2, <3>4 DEF SettleDraft, DraftInv
  <2> QED BY <1>4, <2>1, <2>2 DEF SettleDraft, RejectDraft
<1>5. CASE ApplyPatch
  <2>1. stage = "drafted" /\ RowOf(patchRow, answer) /\ patchedFile = <<>>
    BY <1>5 DEF ApplyPatch, DraftInv
  <2>2. CASE /\ Applicable(patchRow.diff, codeFile)
             /\ patchedFile' = ApplyUnifiedDiff(codeFile, patchRow.diff) /\ stage' = "applied" /\ UNCHANGED patchRow
    BY <1>5, <2>1, <2>2 DEF ApplyPatch, DraftInv, Applicable
  <2>3. CASE ~Applicable(patchRow.diff, codeFile) /\ stage' = "conflict" /\ RejectPatch /\ UNCHANGED patchedFile
    <3>1. RowOf(patchRow', answer') /\ patchRow'.diff = patchRow.diff
      BY <1>5, <2>1, <2>3, RowRestated DEF ApplyPatch, RejectPatch, Restated
    <3> QED BY <1>5, <2>1, <2>3, <3>1 DEF ApplyPatch, DraftInv
  <2> QED BY <1>5, <2>2, <2>3 DEF ApplyPatch, Applicable
<1>6. CASE Build
  <2>1. RowOf(patchRow', answer') /\ patchRow'.diff = patchRow.diff
    <3>1. RowOf(patchRow, answer) /\ answer' = answer
      BY <1>6 DEF Build, DraftInv
    <3>2. Restated(patchRow', patchRow)
      BY <1>6 DEF Build, RejectPatch, Restated
    <3> QED BY <3>1, <3>2, RowRestated
  <2> QED BY <1>6, <2>1 DEF Build, DraftInv
<1>7. CASE RunTests
  <2>1. RowOf(patchRow', answer') /\ patchRow'.diff = patchRow.diff
    <3>1. RowOf(patchRow, answer) /\ answer' = answer
      BY <1>7 DEF RunTests, DraftInv
    <3>2. Restated(patchRow', patchRow)
      BY <1>7 DEF RunTests, RejectPatch, Restated
    <3> QED BY <3>1, <3>2, RowRestated
  <2>2. stage' = "tested" => Passed(tests')
    <3> SUFFICES ASSUME stage' = "tested" PROVE Passed(tests')
      OBVIOUS
    <3>1. PICK suites \in SUBSET SuiteSigns : \E seen \in SUBSET suites :
            \E r \in IF SuiteRun(seen) = Missing THEN {"NOT_AVAILABLE"} ELSE {"PASSED", "FAILED"} :
              /\ Cardinality(suites \ seen) <= 1 /\ r # "FAILED"
              /\ tests' = [suites |-> suites, seen |-> seen, ran |-> SuiteRun(seen), result |-> r]
      BY <1>7 DEF RunTests
    <3>2. PICK seen \in SUBSET suites :
            \E r \in IF SuiteRun(seen) = Missing THEN {"NOT_AVAILABLE"} ELSE {"PASSED", "FAILED"} :
              /\ Cardinality(suites \ seen) <= 1 /\ r # "FAILED"
              /\ tests' = [suites |-> suites, seen |-> seen, ran |-> SuiteRun(seen), result |-> r]
      BY <3>1
    <3> QED BY <3>2, SuitesPass
  <2>3. stage' \in {"tested", "untested"}
    BY <1>7 DEF RunTests
  <2> QED BY <1>7, <2>1, <2>2, <2>3 DEF RunTests, DraftInv
<1>8. CASE JudgePatch
  <2>1. RowOf(patchRow', answer') /\ patchRow'.diff = patchRow.diff
    <3>1. RowOf(patchRow, answer) /\ answer' = answer
      BY <1>8 DEF JudgePatch, DraftInv
    <3>2. Restated(patchRow', patchRow)
      BY <1>8 DEF JudgePatch, RejectPatch, Restated
    <3> QED BY <3>1, <3>2, RowRestated
  <2>2. stage' = "approved" => LetPass(patchRow.diff, target)
    BY <1>8 DEF JudgePatch, ReviewLetsPass, LetPass
  <2>3. stage' \in {"approved", "unsafe"}
    BY <1>8 DEF JudgePatch
  <2> QED BY <1>8, <2>1, <2>2, <2>3 DEF JudgePatch, DraftInv
<1>9. CASE UNCHANGED draftVars
  BY <1>9 DEF draftVars, DraftInv
<1> QED BY <1>1, <1>2, <1>3, <1>4, <1>5, <1>6, <1>7, <1>8, <1>9 DEF DraftNext

LEMMA DraftInvLands == DraftInv => PatchLands
<1> SUFFICES ASSUME DraftInv PROVE PatchLands
  OBVIOUS
<1> DEFINE d == patchRow.diff
           R == ApplyUnifiedDiff(codeFile, d)
<1> USE DEF AnsweredOn, DraftedOn, AppliedOn, TestedOn
<1>1. ASSUME stage \in AppliedOn PROVE Changes(codeFile, d, answer.meant, answer.shift) /\ patchedFile = R /\ R # Conflict
  <2>1. RowOf(patchRow, answer) /\ Lands(answer, codeFile)
    BY <1>1 DEF DraftInv
  <2>2. d = DiffOf(answer)
    BY <2>1, RowIs
  <2>3. CASE answer.quoted
    BY <1>1, <2>1, <2>2, <2>3 DEF DraftInv, RowOf, Lands
  <2>4. CASE ~answer.quoted
    <3> d = answer.own
      BY <2>2, <2>4 DEF DiffOf
    <3> QED BY <1>1, <2>1, <2>4 DEF DraftInv, RowOf, Lands
  <2> QED BY <2>3, <2>4
<1>2. patchedFile # <<>> => stage \in AppliedOn
  BY DEF DraftInv
<1>3. ASSUME patchedFile # <<>>
      PROVE  patchedFile = answer.meant \/ \E h \in Lines(ParseUnifiedHunks(d)) : Strays(codeFile, h, answer.shift)
  BY <1>1, <1>2, <1>3 DEF Changes
<1>4. ASSUME stage = "conflict", answer.quoted PROVE Stands(codeFile, answer.original) = {}
  <2>1. RowOf(patchRow, answer) /\ Lands(answer, codeFile) /\ ~Applicable(d, codeFile)
    BY <1>4 DEF DraftInv
  <2>2. d = DiffOf(answer)
    BY <2>1, RowIs
  <2> QED BY <1>4, <2>1, <2>2 DEF RowOf, Lands, Applicable
<1>5. ASSUME stage = "approved"
      PROVE  /\ Lines(patchedFile) \ Lines(codeFile) \subseteq NewLines \ (Secrets \cup Leaks \cup Commands)
             /\ Lines(patchedFile) \cap SignalsOf[target.type] # {}
             /\ Cardinality(tests.suites) > 1 => tests.result = "PASSED"
             /\ Cardinality(tests.suites \ {"test script"}) > 1 => tests.ran = "pytest"
  <2>1. RowOf(patchRow, answer) /\ LetPass(d, target) /\ Passed(tests)
    BY <1>5 DEF DraftInv
  <2>2. d = DiffOf(answer)
    BY <2>1, RowIs
  <2>3. \A i \in DOMAIN Body(d) : Body(d)[i].line \notin Secrets \cup Commands
    BY <2>1, <2>2 DEF RowOf
  <2>4. /\ Lines(patchedFile) \ Lines(codeFile) \subseteq AddedLines(d) \cap NewLines
        /\ AddedLines(d) \subseteq Lines(patchedFile)
        /\ \A l \in AddedLines(d) : \E i \in DOMAIN Body(d) : l = Body(d)[i].line
    BY <1>1, <1>5 DEF Changes
  <2> HIDE DEF d
  <2>5. \A l \in AddedLines(d) : l \notin Secrets \cup Commands
    BY <2>3, <2>4
  <2>6. Lines(patchedFile) \ Lines(codeFile) \subseteq NewLines \ (Secrets \cup Leaks \cup Commands)
    BY <2>1, <2>4, <2>5 DEF LetPass
  <2>7. Lines(patchedFile) \cap SignalsOf[target.type] # {}
    BY <2>1, <2>4 DEF LetPass
  <2> QED BY <2>1, <2>6, <2>7 DEF Passed
<1> QED BY <1>3, <1>4, <1>5 DEF PatchLands, Strays

THEOREM PatchHolds == DraftSpec => []PatchLands
<1>1. DraftInit => DraftInv
  BY DraftInitInv
<1>2. DraftInv /\ [DraftNext]_draftVars => DraftInv'
  BY DraftNextInv
<1>3. DraftInv => PatchLands
  BY DraftInvLands
<1> QED BY <1>1, <1>2, <1>3, PTL DEF DraftSpec

-----------------------------------------------------------------------------
USE ConstantsAssumption

(* A call that is under way has a patch.                                   *)
Busy == \A c \in Callers :
  pc[c] \notin {"idle", "list", "next", "over"} => on[c] \in Patches

(* A run that writes its outcome has one.                                  *)
Judged == \A c \in Callers :
  /\ pc[c] = "reject" => verdict[c] = "REJECTED"
  /\ pc[c] \in {"record", "insert"} => verdict[c] \in Decisions

Shape == TypeOK /\ Busy /\ Judged

LEMMA ShapeInit == Init => Shape
BY DEF Init, Shape, TypeOK, Busy, Judged, Callers, PC, Reviewing, Delivering, Stages, Open

(* Every step of a review keeps the shape.                                 *)
LEMMA ReviewShape ==
  ASSUME Shape, NEW c \in Callers, Review(c)
  PROVE  Shape'
<1> USE DEF Shape, TypeOK, Busy, Judged, Goto, From, Finds, FaultOf, rows
<1>1. CASE GetPatch(c)
  BY <1>1 DEF GetPatch, PC, Reviewing, Delivering, Stages
<1>2. CASE MarkUnderReview(c)
  BY <1>2 DEF MarkUnderReview, PC, Reviewing, Delivering, Stages, Open
<1>3. CASE Check(c)
  <2>1. ASSUME NEW l \in {"baseline", "apply", "health", "build", "tests", "retest", "advisory", "approve"},
               Goto(c, l), UNCHANGED <<rows, remote, token, inFlight, on, verdict, cause, todo, faults>>,
               box' = [box EXCEPT ![c] = TRUE]
        PROVE  Shape'
    BY <1>3, <2>1 DEF Check, PC, Reviewing, Stages
  <2>2. ASSUME NEW v \in {"REJECTED", "FAILED"}, NEW why \in {None, "patch", "infra"},
               Finds(c, v, why), Goto(c, IF v = "REJECTED" THEN "reject" ELSE "record"),
               UNCHANGED <<rows, remote, token, inFlight, on, box, todo, faults>>
        PROVE  Shape'
    BY <1>3, <2>2 DEF Check, PC, Reviewing, Stages, Decisions
  <2>3. pc[c] \in Stages /\ After[pc[c]] \in {"baseline", "apply", "health", "build", "tests", "retest", "advisory", "approve"}
    BY <1>3 DEF Check, Stages, After
  <2>4. \A f \in Failing[pc[c]] : f[1] \in {"REJECTED", "FAILED"} /\ f[2] \in {None, "patch", "infra"}
    BY <2>3 DEF Stages, Failing
  <2> QED BY <1>3, <2>1, <2>2, <2>3, <2>4 DEF Check
<1>4. CASE Approve(c)
  BY <1>4 DEF Approve, PC, Reviewing, Delivering, Seal, Open, Sealed, Decisions, None
<1>5. CASE Reject(c)
  BY <1>5 DEF Reject, LostVerdict, PC, Reviewing, Delivering, Seal, Open, Sealed, Decisions
<1>6. CASE Record(c)
  <2>1. CASE From(c, "record", "insert") /\ UNCHANGED <<verdict, faults>>
    BY <1>6, <2>1 DEF Record, PC, Reviewing, Delivering
  <2>2. CASE /\ From(c, "record", "ending") /\ row[on[c]] # None
             /\ verdict' = [verdict EXCEPT ![c] = row[on[c]]] /\ UNCHANGED faults
    BY <1>6, <2>2 DEF Record, PC, Reviewing, Delivering
  <2>3. CASE From(c, "record", "ending") /\ FaultOf("store") /\ verdict' = [verdict EXCEPT ![c] = "error"]
    BY <1>6, <2>3 DEF Record, PC, Reviewing, Delivering
  <2> QED BY <1>6, <2>1, <2>2, <2>3 DEF Record
<1>7. CASE Insert(c)
  BY <1>7 DEF Insert, PC, Reviewing, Delivering
<1>8. CASE Teardown(c)
  BY <1>8 DEF Teardown, TearsDown
<1>9. CASE Answer(c)
  BY <1>9 DEF Answer, PC
<1> QED BY <1>1, <1>2, <1>3, <1>4, <1>5, <1>6, <1>7, <1>8, <1>9 DEF Review

(* Every step of a delivery keeps the shape.                               *)
LEMMA DeliveryShape ==
  ASSUME Shape, NEW c \in Callers, Delivery(c)
  PROVE  Shape'
<1> USE DEF Shape, TypeOK, Busy, Judged, Goto, From, FaultOf, rows
<1>1. ASSUME NEW ok, Resolve(c, ok) PROVE
        /\ pc' \in [Callers -> PC] /\ on' \in [Callers -> Patches \cup {None}]
        /\ verdict' \in [Callers -> Decisions \cup {None, "error"}]
        /\ inFlight' \in [Patches -> Callers \cup {None}]
        /\ \A d \in Callers : \/ pc'[d] \in {"next", "idle"}
                              \/ pc'[d] = pc[d] /\ on'[d] = on[d] /\ verdict'[d] = verdict[d]
  BY <1>1 DEF Resolve, Released, Free, PC
<1>2. CASE Load(c)
  <2>1. CASE Goto(c, "push") /\ UNCHANGED <<inFlight, on, verdict>>
    BY <1>2, <2>1 DEF Load, PC, Delivering
  <2>2. ASSUME NEW ok, Resolve(c, ok) PROVE Shape'
    BY <1>1, <1>2, <2>2 DEF Load
  <2> QED BY <1>2, <2>1, <2>2 DEF Load
<1>3. CASE Push(c)
  BY <1>3 DEF Push, PC, Delivering
<1>4. CASE Lookup(c)
  BY <1>4 DEF Lookup, PC, Delivering
<1>5. CASE Create(c)
  BY <1>5 DEF Create, Refused, PC, Delivering
<1>6. CASE Store(c)
  <2>1. CASE Resolve(c, TRUE)
    BY <1>1, <1>6, <2>1 DEF Store
  <2>2. CASE Goto(c, "flag") /\ UNCHANGED <<metadata, prError, inFlight, on, verdict>>
    <3>1. on[c] \in Patches
      BY <1>6 DEF Store
    <3>4. faults' \in 0..MaxFaults
      <4>1. faults' = faults \/ (faults < MaxFaults /\ faults' = faults + 1)
        BY <1>6 DEF Store
      <4> QED BY <4>1
    <3>2. pc' = [pc EXCEPT ![c] = "flag"] /\ "flag" \in PC
      BY <2>2 DEF PC, Delivering
    <3>3. UNCHANGED <<status, row, metadata, prError, remote, token, inFlight, on, verdict, cause, box, todo>>
      BY <1>6, <2>2 DEF Store
    <3> QED BY <3>1, <3>2, <3>3, <3>4
  <2> QED BY <1>6, <2>1, <2>2 DEF Store
<1>7. CASE Flag(c)
  <2>1. on[c] \in Patches /\ faults' \in 0..MaxFaults
    BY <1>7 DEF Flag
  <2>2. prError' \subseteq Patches /\ Resolve(c, FALSE)
    BY <1>7, <2>1 DEF Flag
  <2>3. UNCHANGED <<status, row, metadata, remote, token, cause, box, todo>>
    BY <1>7 DEF Flag
  <2> QED BY <1>1, <2>1, <2>2, <2>3
<1> QED BY <1>2, <1>3, <1>4, <1>5, <1>6, <1>7 DEF Delivery

(* So does every step of those who call them.                              *)
LEMMA CallerShape ==
  ASSUME Shape,
         \/ \E c \in Callers : Follow(c)
         \/ \E s \in Pipelines : Stage(s)
         \/ \E c \in Clients : Begin(c)
         \/ Crash
         \/ UNCHANGED vars
  PROVE  Shape'
<1> USE DEF Shape, TypeOK, Busy, Judged, Goto, From, FaultOf, rows, Callers
<1>1. ASSUME NEW c \in Callers, Follow(c) PROVE Shape'
  BY <1>1 DEF Follow, Deliver, Joins, Free, PC, Delivering
<1>2. ASSUME NEW s \in Pipelines, List(s) PROVE Shape'
  BY <1>2 DEF List, PC
<1>3. ASSUME NEW s \in Pipelines, TakeNext(s) PROVE Shape'
  BY <1>3 DEF TakeNext, PC, Reviewing
<1>4. ASSUME NEW c \in Clients, NEW p \in Patches, BeginReview(c, p) PROVE Shape'
  BY <1>4 DEF BeginReview, PC, Reviewing
<1>5. ASSUME NEW c \in Clients, NEW p \in Patches, BeginDelivery(c, p) PROVE Shape'
  BY <1>5 DEF BeginDelivery, Deliver, Joins, PC, Delivering
<1>6. CASE Crash
  BY <1>6 DEF Crash, PC
<1>7. CASE UNCHANGED vars
  BY <1>7 DEF vars, call
<1> QED BY <1>1, <1>2, <1>3, <1>4, <1>5, <1>6, <1>7 DEF Stage, Begin

LEMMA ShapeStep == Shape /\ [Next]_vars => Shape'
BY ReviewShape, DeliveryShape, CallerShape DEF Next, Step

(* Every variable keeps its type, through overlapping calls, failing writes *)
(* and restarts.                                                            *)
THEOREM TypeCorrect == Spec => []TypeOK
<1>1. Shape => TypeOK
  BY DEF Shape
<1> QED BY ShapeInit, ShapeStep, <1>1, PTL DEF Spec

-----------------------------------------------------------------------------
(* What a review leaves alone: other callers, the deliveries, and every    *)
(* patch that is decided.                                                  *)
LEMMA ReviewFrame ==
  ASSUME Shape, NEW c \in Callers, Review(c)
  PROVE  /\ UNCHANGED <<metadata, prError, remote, token, inFlight, on, todo>>
         /\ pc[c] \in Reviewing /\ pc'[c] \in Reviewing \cup {"answered"}
         /\ \A d \in Callers \ {c} : pc'[d] = pc[d] /\ verdict'[d] = verdict[d]
         /\ \A p \in Patches : status[p] \in Sealed => status'[p] = status[p]
<1> USE DEF Shape, TypeOK, Goto, From, Finds, rows, Reviewing, Stages
<1>1. CASE GetPatch(c)
  BY <1>1 DEF GetPatch
<1>2. CASE MarkUnderReview(c)
  BY <1>2 DEF MarkUnderReview, Open, Sealed
<1>3. CASE Check(c)
  BY <1>3 DEF Check, After
<1>4. CASE Approve(c)
  BY <1>4 DEF Approve, Seal, Open, Sealed
<1>5. CASE Reject(c)
  BY <1>5 DEF Reject, LostVerdict, Seal, Open, Sealed
<1>6. CASE Record(c)
  BY <1>6 DEF Record
<1>7. CASE Insert(c)
  BY <1>7 DEF Insert
<1>8. CASE Teardown(c)
  BY <1>8 DEF Teardown, TearsDown
<1>9. CASE Answer(c)
  BY <1>9 DEF Answer
<1> QED BY <1>1, <1>2, <1>3, <1>4, <1>5, <1>6, <1>7, <1>8, <1>9 DEF Review

(* What everything else leaves alone: the verdicts and the runs.           *)
LEMMA OthersFrame ==
  ASSUME Shape,
         \/ \E c \in Callers : Delivery(c) \/ Follow(c)
         \/ \E s \in Pipelines : Stage(s)
         \/ \E c \in Clients : Begin(c)
         \/ Crash
         \/ UNCHANGED vars
  PROVE  /\ UNCHANGED <<status, row, token>>
         /\ \A d \in Callers :
              pc'[d] \in {"record", "insert"} =>
                pc'[d] = pc[d] /\ on'[d] = on[d] /\ verdict'[d] = verdict[d]
<1> USE DEF Shape, TypeOK, Goto, From, rows, Callers
<1>1. ASSUME NEW c \in Callers, NEW ok, Resolve(c, ok) PROVE
        \A d \in Callers :
          pc'[d] \in {"record", "insert"} =>
            pc'[d] = pc[d] /\ on'[d] = on[d] /\ verdict'[d] = verdict[d]
  BY <1>1 DEF Resolve, Free
<1>2. CASE \E c \in Callers : Delivery(c)
  <2> PICK c \in Callers : Delivery(c)
    BY <1>2
  <2>1. CASE Load(c)
    BY <1>1, <2>1 DEF Load
  <2>2. CASE Push(c) \/ Lookup(c) \/ Create(c)
    BY <2>2 DEF Push, Lookup, Create, Refused
  <2>3. CASE Store(c)
    BY <1>1, <2>3 DEF Store
  <2>4. CASE Flag(c)
    BY <1>1, <2>4 DEF Flag
  <2> QED BY <2>1, <2>2, <2>3, <2>4 DEF Delivery
<1>3. CASE \E c \in Callers : Follow(c)
  BY <1>3 DEF Follow, Deliver, Free
<1>4. CASE \E s \in Pipelines : Stage(s)
  BY <1>4 DEF Stage, List, TakeNext
<1>5. CASE \E c \in Clients : Begin(c)
  BY <1>5 DEF Begin, BeginReview, BeginDelivery, Deliver
<1>6. CASE Crash
  BY <1>6 DEF Crash
<1>7. CASE UNCHANGED vars
  BY <1>7 DEF vars, call
<1> QED BY <1>2, <1>3, <1>4, <1>5, <1>6, <1>7

(* A run about to record an approval or a rejection has decided the patch. *)
Written == \A c \in Callers :
  pc[c] \in {"record", "insert"} /\ verdict[c] \in Sealed => status[on[c]] \in Sealed

RowInv == Written /\ DecidedRowsAreSealed

LEMMA RowStep == Shape /\ RowInv /\ [Next]_vars => RowInv'
<1> SUFFICES ASSUME Shape, RowInv, [Next]_vars PROVE RowInv'
  OBVIOUS
<1>1. ASSUME NEW c \in Callers, Review(c) PROVE RowInv'
  <2>1. /\ UNCHANGED on
        /\ \A d \in Callers \ {c} : pc'[d] = pc[d] /\ verdict'[d] = verdict[d]
        /\ \A p \in Patches : status[p] \in Sealed => status'[p] = status[p]
    BY <1>1, ReviewFrame
  <2>2. \A d \in Callers : pc[d] \in {"record", "insert"} => on[d] \in Patches
    BY DEF Shape, Busy
  <2>3. ASSUME UNCHANGED row,
               pc'[c] \in {"record", "insert"} /\ verdict'[c] \in Sealed => status'[on[c]] \in Sealed
        PROVE  RowInv'
    BY <2>1, <2>2, <2>3 DEF RowInv, Written, DecidedRowsAreSealed, Shape, TypeOK
  <2> USE DEF Shape, TypeOK, Busy, Goto, From, Finds, rows
  <2>4. CASE GetPatch(c) \/ MarkUnderReview(c) \/ Answer(c)
    BY <2>3, <2>4 DEF GetPatch, MarkUnderReview, Answer
  <2>5. CASE Check(c)
    <3>1. pc'[c] \in {"record", "insert"} => verdict'[c] = "FAILED"
      BY <2>5 DEF Check, Stages, After, Failing
    <3> QED BY <2>3, <2>5, <3>1 DEF Check, Sealed
  <2>6. CASE Approve(c) \/ Reject(c)
    <3>1. pc'[c] \in {"record", "insert"} /\ verdict'[c] \in Sealed => status'[on[c]] \in Sealed
      BY <2>6 DEF Approve, Reject, LostVerdict, Seal, Open, Sealed
    <3> QED BY <2>3, <2>6, <3>1 DEF Approve, Reject
  <2>7. CASE Record(c) \/ Teardown(c)
    <3>1. pc'[c] \in {"record", "insert"} => pc[c] \in {"record", "insert"} /\ verdict'[c] = verdict[c]
      BY <2>7 DEF Record, Teardown
    <3> QED BY <2>1, <2>2, <2>3, <2>7, <3>1 DEF Record, Teardown, RowInv, Written
  <2>8. CASE Insert(c)
    <3>1. /\ UNCHANGED status /\ pc[c] = "insert" /\ pc'[c] = "ending"
          /\ UNCHANGED row \/ row' = [row EXCEPT ![on[c]] = verdict[c]]
      BY <2>8 DEF Insert
    <3> QED BY <2>1, <2>2, <3>1 DEF RowInv, Written, DecidedRowsAreSealed
  <2> QED BY <1>1, <2>4, <2>5, <2>6, <2>7, <2>8 DEF Review
<1>2. CASE ~\E c \in Callers : Review(c)
  <2>1. /\ UNCHANGED <<status, row>>
        /\ \A d \in Callers :
             pc'[d] \in {"record", "insert"} =>
               pc'[d] = pc[d] /\ on'[d] = on[d] /\ verdict'[d] = verdict[d]
    BY <1>2, OthersFrame DEF Next, Step
  <2> QED BY <2>1 DEF RowInv, Written, DecidedRowsAreSealed
<1> QED BY <1>1, <1>2

(* The record of the run and the status of the patch, written by separate  *)
(* statements of overlapping runs, never contradict each other on whether   *)
(* the patch is decided.                                                    *)
THEOREM DecidedRows == Spec => []DecidedRowsAreSealed
<1>1. Init => RowInv
  BY DEF Init, RowInv, Written, DecidedRowsAreSealed, None, Sealed
<1>2. RowInv => DecidedRowsAreSealed
  BY DEF RowInv
<1> QED BY ShapeInit, ShapeStep, RowStep, <1>1, <1>2, PTL DEF Spec

-----------------------------------------------------------------------------
(* A delivery past the gate is of an approved patch.                       *)
Approved == \A c \in Callers :
  pc[c] \in {"push", "lookup", "create", "store"} => status[on[c]] = "APPROVED"

(* With a token, what is about to be stored is on the host.                *)
Opened == \A c \in Callers : token /\ pc[c] = "store" => on[c] \in remote

DeliveryInv == Approved /\ Opened /\ InFlightIsLive /\ RecordedIsReal

(* The map has one entry per patch, so a patch has one delivery.           *)
LEMMA OneDelivery ==
  ASSUME Shape, InFlightIsLive, NEW c \in Callers, NEW d \in Callers,
         pc[c] \in Delivering, pc[d] \in Delivering, on[c] = on[d]
  PROVE  c = d
<1>1. on[c] \in Patches
  BY DEF Shape, Busy, Delivering
<1> QED BY <1>1 DEF InFlightIsLive

(* deliver() by a caller that has no delivery yet.                         *)
LEMMA DeliverLive ==
  ASSUME Shape, InFlightIsLive, NEW c \in Callers, NEW p \in Patches, Deliver(c, p),
         pc[c] \notin Delivering, on' = [on EXCEPT ![c] = p]
  PROVE  InFlightIsLive'
<1> USE DEF Shape, TypeOK, InFlightIsLive, Deliver, Joins, Goto, Delivering
<1>1. CASE Goto(c, "joined") /\ UNCHANGED inFlight
  BY <1>1
<1>2. CASE inFlight[p] = None /\ Goto(c, "load") /\ inFlight' = [inFlight EXCEPT ![p] = c]
  BY <1>2
<1> QED BY <1>1, <1>2

(* The end of a delivery takes its entry, and nobody else's, away.         *)
LEMMA ResolveLive ==
  ASSUME Shape, InFlightIsLive, NEW c \in Callers, pc[c] \in Delivering, NEW ok, Resolve(c, ok)
  PROVE  /\ InFlightIsLive'
         /\ \A d \in Callers : pc'[d] \in Delivering => pc'[d] = pc[d] /\ on'[d] = on[d]
<1>1. on[c] \in Patches
  BY DEF Shape, Busy, Delivering
<1>2. ASSUME NEW d \in Callers
      PROVE  pc'[d] \in {"next", "idle"} \/ (pc'[d] = pc[d] /\ on'[d] = on[d])
  BY DEF Resolve, Free
<1>3. \A d \in Callers : pc[d] \in Delivering /\ d # c => pc'[d] = pc[d] /\ on'[d] = on[d]
  BY DEF Resolve, Free, Shape, TypeOK, Delivering
<1>4. pc'[c] \in {"next", "idle"} /\ inFlight' = [inFlight EXCEPT ![on[c]] = None]
  BY DEF Resolve, Released, Free, Shape, TypeOK
<1>5. ASSUME NEW p \in Patches, NEW d \in Callers
      PROVE  inFlight'[p] = d <=> (pc'[d] \in Delivering /\ on'[d] = p)
  <2>1. CASE p = on[c]
    <3>1. inFlight'[p] # d
      BY <1>4, <2>1 DEF Shape, TypeOK
    <3>2. ~(pc'[d] \in Delivering /\ on'[d] = p)
      BY <1>2, <1>4, <2>1, OneDelivery DEF Delivering
    <3> QED BY <3>1, <3>2
  <2>2. CASE p # on[c]
    <3>1. inFlight'[p] = inFlight[p]
      BY <1>4, <2>2 DEF Shape, TypeOK
    <3>2. (pc'[d] \in Delivering /\ on'[d] = p) <=> (pc[d] \in Delivering /\ on[d] = p)
      BY <1>2, <1>3, <1>4, <2>2 DEF Delivering
    <3> QED BY <3>1, <3>2 DEF InFlightIsLive
  <2> QED BY <2>1, <2>2
<1> QED BY <1>2, <1>5 DEF InFlightIsLive, Delivering

LEMMA DeliveryStep == Shape /\ DeliveryInv /\ [Next]_vars => DeliveryInv'
<1> SUFFICES ASSUME Shape, DeliveryInv, [Next]_vars PROVE DeliveryInv'
  OBVIOUS
<1> USE DEF Delivering
<1>1. \A d \in Callers : pc[d] \in Delivering => on[d] \in Patches
  BY DEF Shape, Busy
<1>2. ASSUME NEW c \in Callers, Review(c) PROVE DeliveryInv'
  <2>1. /\ UNCHANGED <<metadata, remote, token, inFlight, on>>
        /\ pc[c] \notin Delivering /\ pc'[c] \notin Delivering
        /\ \A d \in Callers \ {c} : pc'[d] = pc[d]
        /\ \A p \in Patches : status[p] \in Sealed => status'[p] = status[p]
    BY <1>2, ReviewFrame DEF Reviewing, Stages
  <2>2. Approved'
    BY <1>1, <2>1 DEF DeliveryInv, Approved, Sealed
  <2>3. InFlightIsLive'
    BY <2>1 DEF DeliveryInv, InFlightIsLive
  <2>4. Opened' /\ RecordedIsReal'
    BY <2>1 DEF DeliveryInv, Opened, RecordedIsReal
  <2> QED BY <2>2, <2>3, <2>4 DEF DeliveryInv
<1>3. ASSUME NEW c \in Callers, Delivery(c) PROVE DeliveryInv'
  <2> USE DEF Goto, From, rows
  <2>1. UNCHANGED <<status, token>> /\ pc[c] \in Delivering /\ on[c] \in Patches
    BY <1>1, <1>3 DEF Delivery, Load, Push, Lookup, Create, Store, Flag
  <2>2. ASSUME NEW ok, Resolve(c, ok), metadata' = metadata \/ (pc[c] = "store" /\ metadata' = metadata \cup {on[c]}),
               UNCHANGED remote
        PROVE  DeliveryInv'
    <3>1. InFlightIsLive' /\ \A d \in Callers : pc'[d] \in Delivering => pc'[d] = pc[d] /\ on'[d] = on[d]
      BY <2>1, <2>2, ResolveLive DEF DeliveryInv
    <3>2. Approved' /\ Opened'
      BY <2>1, <2>2, <3>1 DEF DeliveryInv, Approved, Opened
    <3>3. RecordedIsReal'
      BY <2>1, <2>2 DEF DeliveryInv, Opened, RecordedIsReal
    <3> QED BY <3>1, <3>2, <3>3 DEF DeliveryInv
  <2>3. ASSUME NEW l \in Delivering, pc' = [pc EXCEPT ![c] = l], UNCHANGED <<inFlight, on, metadata>>,
               remote \subseteq remote',
               l \in {"push", "lookup", "create", "store"} => status[on[c]] = "APPROVED",
               token /\ l = "store" => on[c] \in remote'
        PROVE  DeliveryInv'
    <3>1. Approved' /\ Opened'
      BY <2>1, <2>3 DEF DeliveryInv, Approved, Opened, Shape, TypeOK
    <3>2. InFlightIsLive'
      BY <2>1, <2>3 DEF DeliveryInv, InFlightIsLive, Shape, TypeOK
    <3>3. RecordedIsReal'
      BY <2>1, <2>3 DEF DeliveryInv, RecordedIsReal
    <3> QED BY <3>1, <3>2, <3>3 DEF DeliveryInv
  <2>4. CASE Load(c)
    <3>1. CASE Goto(c, "push") /\ status[on[c]] = "APPROVED" /\ UNCHANGED <<inFlight, on, verdict>>
      BY <2>3, <2>4, <3>1 DEF Load
    <3> QED BY <2>2, <2>4, <3>1 DEF Load
  <2>5. CASE Push(c)
    BY <2>3, <2>5 DEF Push, DeliveryInv, Approved
  <2>6. CASE Lookup(c)
    BY <2>3, <2>6 DEF Lookup, DeliveryInv, Approved
  <2>7. CASE Create(c)
    BY <2>3, <2>7 DEF Create, Refused, DeliveryInv, Approved
  <2>8. CASE Store(c)
    <3>1. CASE Goto(c, "flag") /\ UNCHANGED <<metadata, prError, inFlight, on, verdict>>
      BY <2>3, <2>8, <3>1 DEF Store
    <3> QED BY <2>2, <2>8, <3>1 DEF Store
  <2>9. CASE Flag(c)
    BY <2>2, <2>9 DEF Flag
  <2> QED BY <1>3, <2>4, <2>5, <2>6, <2>7, <2>8, <2>9 DEF Delivery
<1>4. ASSUME UNCHANGED <<status, metadata, remote, token>>,
             \A d \in Callers :
               pc'[d] \in {"push", "lookup", "create", "store"} => pc'[d] = pc[d] /\ on'[d] = on[d]
      PROVE  Approved' /\ Opened' /\ RecordedIsReal'
  BY <1>1, <1>4 DEF DeliveryInv, Approved, Opened, RecordedIsReal
<1> USE DEF Goto, From, rows
<1>5. ASSUME NEW c \in Callers, Follow(c) PROVE DeliveryInv'
  <2>1. on[c] \in Patches /\ pc[c] \notin Delivering /\ UNCHANGED <<status, metadata, remote, token>>
    BY <1>5 DEF Follow, Shape, Busy
  <2>2. CASE Deliver(c, on[c]) /\ UNCHANGED <<on, verdict>>
    <3>1. InFlightIsLive'
      BY <2>1, <2>2, DeliverLive DEF DeliveryInv, Shape, TypeOK
    <3>2. \A d \in Callers : on'[d] = on[d] /\ (d # c => pc'[d] = pc[d]) /\ pc'[c] \in {"joined", "load"}
      BY <2>2 DEF Deliver, Shape, TypeOK
    <3> QED BY <1>4, <2>1, <3>1, <3>2 DEF DeliveryInv
  <2>3. CASE Free({c}) /\ UNCHANGED inFlight
    <3>1. \A d \in Callers : IF d = c THEN pc'[d] \in {"next", "idle"} ELSE pc'[d] = pc[d] /\ on'[d] = on[d]
      BY <2>3 DEF Free
    <3>2. InFlightIsLive'
      BY <2>1, <2>3, <3>1 DEF DeliveryInv, InFlightIsLive
    <3> QED BY <1>4, <2>1, <3>1, <3>2 DEF DeliveryInv
  <2> QED BY <1>5, <2>2, <2>3 DEF Follow
<1>6. ASSUME NEW s \in Pipelines, Stage(s) PROVE DeliveryInv'
  <2>1. /\ UNCHANGED <<status, metadata, remote, token, inFlight>> /\ s \in Callers
        /\ pc[s] \notin Delivering /\ pc'[s] \notin Delivering
        /\ \A d \in Callers \ {s} : pc'[d] = pc[d] /\ on'[d] = on[d]
    BY <1>6 DEF Stage, List, TakeNext, Callers, Shape, TypeOK
  <2>2. InFlightIsLive'
    BY <2>1 DEF DeliveryInv, InFlightIsLive
  <2> QED BY <1>4, <2>1, <2>2 DEF DeliveryInv
<1>7. ASSUME NEW c \in Clients, NEW p \in Patches, BeginReview(c, p) PROVE DeliveryInv'
  <2>1. /\ UNCHANGED <<status, metadata, remote, token, inFlight>> /\ c \in Callers
        /\ pc[c] \notin Delivering /\ pc'[c] \notin Delivering
        /\ \A d \in Callers \ {c} : pc'[d] = pc[d] /\ on'[d] = on[d]
    BY <1>7 DEF BeginReview, Callers, Shape, TypeOK
  <2>2. InFlightIsLive'
    BY <2>1 DEF DeliveryInv, InFlightIsLive
  <2> QED BY <1>4, <2>1, <2>2 DEF DeliveryInv
<1>8. ASSUME NEW c \in Clients, NEW p \in Patches, BeginDelivery(c, p) PROVE DeliveryInv'
  <2>1. c \in Callers /\ pc[c] \notin Delivering /\ Deliver(c, p) /\ on' = [on EXCEPT ![c] = p]
        /\ UNCHANGED <<status, metadata, remote, token>>
    BY <1>8 DEF BeginDelivery, Callers
  <2>2. InFlightIsLive'
    BY <2>1, DeliverLive DEF DeliveryInv
  <2>3. \A d \in Callers : IF d = c THEN pc'[d] \in {"joined", "load"} ELSE pc'[d] = pc[d] /\ on'[d] = on[d]
    BY <2>1 DEF Deliver, Shape, TypeOK
  <2> QED BY <1>4, <2>1, <2>2, <2>3 DEF DeliveryInv
<1>9. CASE Crash
  <2>1. /\ UNCHANGED <<status, metadata, remote, token>>
        /\ \A d \in Callers : pc'[d] \in {"over", "idle"}
    BY <1>9 DEF Crash
  <2>2. InFlightIsLive'
    BY <1>9, <2>1 DEF Crash, InFlightIsLive
  <2> QED BY <1>4, <2>1, <2>2 DEF DeliveryInv
<1>10. CASE UNCHANGED vars
  <2>1. UNCHANGED <<status, metadata, remote, token, inFlight, pc, on>>
    BY <1>10 DEF vars, call
  <2>2. InFlightIsLive'
    BY <2>1 DEF DeliveryInv, InFlightIsLive
  <2> QED BY <1>4, <2>1, <2>2 DEF DeliveryInv
<1> QED BY <1>2, <1>3, <1>5, <1>6, <1>7, <1>8, <1>9, <1>10 DEF Next, Step, Begin

LEMMA DeliveryInit == Init => DeliveryInv
BY DEF Init, DeliveryInv, Approved, Opened, InFlightIsLive, RecordedIsReal, Delivering, None

(* The map of deliveries under way holds exactly those that are, at every   *)
(* end of a delivery and over a restart.                                    *)
THEOREM MapIsLive == Spec => []InFlightIsLive
<1>1. DeliveryInv => InFlightIsLive
  BY DEF DeliveryInv
<1> QED BY ShapeInit, ShapeStep, DeliveryInit, DeliveryStep, <1>1, PTL DEF Spec

(* No two deliveries of one patch are ever under way.                      *)
THEOREM Coalesced == Spec => []PushesAreExclusive
<1>1. Shape /\ DeliveryInv => PushesAreExclusive
  <2> SUFFICES ASSUME Shape, DeliveryInv PROVE PushesAreExclusive
    OBVIOUS
  <2> QED BY OneDelivery DEF DeliveryInv, PushesAreExclusive
<1> QED BY ShapeInit, ShapeStep, DeliveryInit, DeliveryStep, <1>1, PTL DEF Spec

(* With a token, a pull request in the database is on the host.            *)
THEOREM Recorded == Spec => []RecordedIsReal
<1>1. DeliveryInv => RecordedIsReal
  BY DEF DeliveryInv
<1> QED BY ShapeInit, ShapeStep, DeliveryInit, DeliveryStep, <1>1, PTL DEF Spec

-----------------------------------------------------------------------------
(* A decision of the detailed model is one of the abstract, or no step.    *)
LEMMA SealDecides ==
  ASSUME Shape, NEW p \in Patches, NEW v \in Sealed, status' = Seal(p, v),
         UNCHANGED <<metadata, remote>>
  PROVE  Lifecycle!Decide(p, v) \/ UNCHANGED <<Decided, Published>>
<1> USE DEF Seal, Open, Sealed, Decided, Published, Shape, TypeOK
<1>1. CASE status[p] \in Open
  <2>1. Decided[p] = "open" /\ Decided' = [Decided EXCEPT ![p] = v]
    BY <1>1
  <2> QED BY <2>1 DEF Lifecycle!Decide
<1>2. CASE status[p] \notin Open
  BY <1>2
<1> QED BY <1>1, <1>2

(* Every step of a review or a delivery is one of the abstract life, or none. *)
LEMMA LifecycleStep ==
  Shape /\ DeliveryInv /\ [Next]_vars => [Lifecycle!Next]_<<Decided, Published>>
<1> SUFFICES ASSUME Shape, DeliveryInv, [Next]_vars
             PROVE  [Lifecycle!Next]_<<Decided, Published>>
  OBVIOUS
<1>1. ASSUME NEW c \in Callers, Review(c) PROVE [Lifecycle!Next]_<<Decided, Published>>
  <2>1. on[c] \in Patches /\ UNCHANGED <<metadata, remote>>
    BY <1>1, ReviewFrame DEF Reviewing, Stages, Shape, Busy
  <2>2. ASSUME NEW v \in Sealed, status' = Seal(on[c], v)
        PROVE  [Lifecycle!Next]_<<Decided, Published>>
    BY <2>1, <2>2, SealDecides DEF Lifecycle!Next, Sealed
  <2>3. CASE UNCHANGED status
    BY <2>1, <2>3 DEF Decided, Published
  <2>4. CASE MarkUnderReview(c)
    BY <2>1, <2>4 DEF MarkUnderReview, Decided, Published, Open, Shape, TypeOK
  <2>5. CASE Approve(c) \/ Reject(c)
    BY <2>2, <2>3, <2>5 DEF Approve, Reject, Sealed
  <2>6. CASE GetPatch(c) \/ Check(c) \/ Record(c) \/ Insert(c) \/ Teardown(c) \/ Answer(c)
    BY <2>3, <2>6 DEF GetPatch, Check, Record, Insert, Teardown, Answer, rows
  <2> QED BY <1>1, <2>4, <2>5, <2>6 DEF Review
<1>2. ASSUME NEW c \in Callers, Delivery(c) PROVE [Lifecycle!Next]_<<Decided, Published>>
  <2>1. on[c] \in Patches /\ UNCHANGED status
    BY <1>2 DEF Delivery, Load, Push, Lookup, Create, Store, Flag, Delivering, rows, Shape, Busy
  <2>2. ASSUME Published' = Published \cup {on[c]}, status[on[c]] = "APPROVED"
        PROVE  [Lifecycle!Next]_<<Decided, Published>>
    BY <2>1, <2>2 DEF Lifecycle!Next, Lifecycle!Publish, Decided, Open
  <2>3. CASE UNCHANGED <<metadata, remote>>
    BY <2>1, <2>3 DEF Decided, Published
  <2>4. CASE Create(c) \/ Store(c)
    <3>1. status[on[c]] = "APPROVED"
      BY <2>4 DEF Create, Store, DeliveryInv, Approved
    <3>2. Published' = Published \cup {on[c]} \/ UNCHANGED <<metadata, remote>>
      BY <2>4 DEF Create, Store, Published, rows
    <3> QED BY <2>2, <2>3, <3>1, <3>2
  <2>5. CASE Load(c) \/ Push(c) \/ Lookup(c) \/ Flag(c)
    BY <2>3, <2>5 DEF Load, Push, Lookup, Flag, rows
  <2> QED BY <1>2, <2>4, <2>5 DEF Delivery
<1>3. CASE ~\E c \in Callers : Review(c) \/ Delivery(c)
  <2>1. UNCHANGED <<status, metadata, remote>>
    BY <1>3 DEF Next, Step, Follow, Stage, List, TakeNext, Begin, BeginReview, BeginDelivery,
                Crash, vars, rows, Callers
  <2> QED BY <2>1 DEF Decided, Published
<1> QED BY <1>1, <1>2, <1>3

(* A patch is decided once and for good, and only an approved one is ever   *)
(* published: the services implement the abstract life of a patch.          *)
THEOREM Implements == Spec => LifecycleSpec
<1>1. Init => Lifecycle!Init
  BY DEF Init, Lifecycle!Init, Decided, Published, Open
<1> QED BY ShapeInit, ShapeStep, DeliveryInit, DeliveryStep, LifecycleStep, <1>1, PTL
        DEF Spec, LifecycleSpec, Lifecycle!Spec

(* What RowOf says of the status of a row, with its types.                  *)
RowStatuses == {Missing, "GENERATED", "REJECTED", "APPROVED"}
DraftTyped ==
  /\ stage \in {"idle", "chosen", "failed", "read", "rejected", "answered", "drafted", "applied", "conflict", "built", "unbuilt",
                "tested", "untested", "approved", "unsafe"}
  /\ target \in Exploits \cup {Unchosen} /\ Len(excerpt.lines) <= MaxLines
  /\ patchRow.status \in RowStatuses /\ tests.seen \subseteq tests.suites

LEMMA RowKeepsStatus ==
  ASSUME NEW held, NEW a, RowOf(held, a), NEW s
  PROVE  [held EXCEPT !.status = s].status = s
<1>1. PICK t, f : held = [status |-> t, file |-> f, diff |-> DiffOf(a)]
  BY DEF RowOf
<1> QED BY <1>1

LEMMA DraftTypedStep == DraftInv /\ DraftTyped /\ [DraftNext]_draftVars => DraftTyped'
<1> SUFFICES ASSUME DraftInv, DraftTyped, [DraftNext]_draftVars PROVE DraftTyped'
  OBVIOUS
<1> USE DEF DraftTyped, RowStatuses, NoRow, RejectDraft
<1>0. \A s : stage \in DraftedOn => [patchRow EXCEPT !.status = s].status = s
  BY RowKeepsStatus DEF DraftInv
<1>1. ASSUME NEW r, ChooseFinding(r) PROVE DraftTyped'
  <2>1. \A x \in Chosen(r) : x \in Exploits
    BY DEF Chosen, ConfirmedRows
  <2> QED BY <1>1, <2>1 DEF ChooseFinding
<1>2. CASE ReadExcerpt
  <2>1. target.line \in Nat /\ codeFile \in Sources
    BY <1>2, DraftAssumption DEF ReadExcerpt, DraftInv
  <2>2. Len(Slice(codeFile, ResolveWindow(target.line)).lines) <= MaxLines
    BY <2>1, SliceIs
  <2> HIDE DEF DraftTyped
  <2>3. Len(excerpt'.lines) <= MaxLines
    BY <1>2, <2>2 DEF ReadExcerpt, DraftTyped
  <2>4. patchRow'.status \in RowStatuses /\ stage' \in {"read", "rejected"} /\ UNCHANGED <<target, tests>>
    BY <1>2 DEF ReadExcerpt, DraftTyped
  <2> QED BY <2>3, <2>4 DEF DraftTyped
<1>3. CASE Ask
  BY <1>3 DEF Ask
<1>4. CASE SettleDraft
  BY <1>4 DEF SettleDraft
<1>5. CASE ApplyPatch
  BY <1>0, <1>5 DEF ApplyPatch, RejectPatch, DraftedOn, AnsweredOn
<1>6. CASE Build
  BY <1>0, <1>6 DEF Build, RejectPatch, DraftedOn, AnsweredOn
<1>7. CASE RunTests
  <2>1. patchRow'.status \in RowStatuses /\ stage' \in {"untested", "tested"} /\ UNCHANGED <<target, excerpt>>
    BY <1>0, <1>7 DEF RunTests, RejectPatch, DraftedOn, AnsweredOn
  <2>2. \E suites \in SUBSET SuiteSigns : \E seen \in SUBSET suites : \E ran, r :
          tests' = [suites |-> suites, seen |-> seen, ran |-> ran, result |-> r]
    BY <1>7 DEF RunTests
  <2>3. tests'.seen \subseteq tests'.suites
    BY <2>2
  <2> QED BY <2>1, <2>3
<1>8. CASE JudgePatch
  BY <1>0, <1>8 DEF JudgePatch, RejectPatch, DraftedOn, AnsweredOn
<1>9. CASE UNCHANGED draftVars
  BY <1>9 DEF draftVars
<1> QED BY <1>1, <1>2, <1>3, <1>4, <1>5, <1>6, <1>7, <1>8, <1>9 DEF DraftNext

(* Every variable of a draft keeps its type: no more lines are shown than   *)
(* may be, and no suite of tests is seen that the repository has not.       *)
THEOREM DraftTypes == DraftSpec => []DraftTypeOK
<1>1. DraftInit => DraftInv /\ DraftTyped
  <2> SUFFICES ASSUME DraftInit PROVE DraftTyped
    BY DraftInitInv
  <2>1. excerpt.lines = <<>> /\ Len(<<>>) = 0 /\ MaxLines \in Nat
    BY DraftAssumption DEF DraftInit
  <2> QED BY <2>1 DEF DraftInit, DraftTyped, RowStatuses, NoRow, NoTests
<1>2. DraftInv /\ DraftTyped => DraftTypeOK
  BY DEF DraftInv, DraftTyped, RowStatuses, DraftTypeOK
<1> QED BY <1>1, <1>2, DraftNextInv, DraftTypedStep, PTL DEF DraftSpec
=============================================================================
