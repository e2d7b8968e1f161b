--------------------------- MODULE TextPathProofs ---------------------------
(***************************************************************************)
(* Proofs about the words of a session: what TextPath stores is bounded,   *)
(* loses no technical token without a reason, is left alone where no cue   *)
(* was heard, and the vocabulary keeps the entries of the user in front,   *)
(* for any texts, answers, vocabularies, rules and limits.                 *)
(*                                                                         *)
(* The operators are written as recursive functions.  That such a function *)
(* exists, and what holds of all its values, is shown with an induction    *)
(* over the numbers of an interval, stated for a set instead of a          *)
(* predicate so that it can be cited (UpTo).                               *)
(***************************************************************************)
EXTENDS TextPath, FiniteSetTheorems, SequenceTheorems, TLAPS

(***************************************************************************)
(* A set with 0 that has every number of 1..m whose predecessor it has, has*)
(* all the numbers of 0..m.                                                *)
(***************************************************************************)
LEMMA UpTo ==
  ASSUME NEW m \in Nat, NEW P, 0 \in P, \A n \in 1..m : n - 1 \in P => n \in P
  PROVE  \A n \in 0..m : n \in P
<1> SUFFICES ASSUME NEW k \in 0..m, k \notin P PROVE FALSE
  OBVIOUS
<1> DEFINE T == {n \in 0..m : n \notin P}
<1> DEFINE R == OpToRel(<, Nat)
<1>1. T \subseteq Nat /\ T # {}
  OBVIOUS
<1>2. IsWellFoundedOn(R, Nat)
  BY NatLessThanWellFounded, Zenon
<1>3. PICK n \in T : \A j \in T : ~(<<j, n>> \in R)
  <2> HIDE DEF T, R
  <2> QED BY <1>1, <1>2, WFMin
<1>4. n \in 0..m /\ n \notin P
  OBVIOUS
<1>5. n \in 1..m /\ n - 1 \in 0..m
  BY <1>4
<1>6. <<n - 1, n>> \in R
  BY <1>5 DEF OpToRel
<1>7. n - 1 \notin T
  <2> HIDE DEF T, R
  <2> QED BY <1>3, <1>6
<1> QED BY <1>4, <1>5, <1>7

\* Up to m the value of n is computed by F[n] from that of n - 1.
Stepwise(X, m, base, F) ==
  m \in Nat /\ base \in X /\ F \in [1..m -> [X -> X]]

(***************************************************************************)
(* A function that computes its values so exists.                          *)
(***************************************************************************)
LEMMA Forward ==
  ASSUME NEW X, NEW m, NEW base, NEW F, Stepwise(X, m, base, F)
  PROVE  \E f \in [0..m -> X] :
           f[0] = base /\ \A n \in 1..m : f[n] = F[n][f[n - 1]]
<1> USE DEF Stepwise
<1> DEFINE Good(f, k) ==
             f[0] = base /\ \A n \in 1..k : f[n] = F[n][f[n - 1]]
<1> DEFINE P == {k \in 0..m : \E f \in [0..m -> X] : Good(f, k)}
<1>1. 0 \in P
  <2> DEFINE f == [n \in 0..m |-> base]
  <2>1. f \in [0..m -> X] /\ Good(f, 0)
    OBVIOUS
  <2> HIDE DEF f
  <2> QED BY <2>1
<1>2. \A k \in 1..m : k - 1 \in P => k \in P
  <2> SUFFICES ASSUME NEW k \in 1..m, k - 1 \in P PROVE k \in P
    OBVIOUS
  <2>f. PICK f \in [0..m -> X] : Good(f, k - 1)
    OBVIOUS
  <2> DEFINE g == [f EXCEPT ![k] = F[k][f[k - 1]]]
  <2>1. f[k - 1] \in X
    OBVIOUS
  <2>2. F[k][f[k - 1]] \in X
    BY <2>1
  <2>3. g \in [0..m -> X]
    BY <2>2
  <2>4. \A n \in 0..m : n # k => g[n] = f[n]
    OBVIOUS
  <2>5. g[k] = F[k][f[k - 1]] /\ g[k - 1] = f[k - 1]
    OBVIOUS
  <2>6. g[0] = base
    BY <2>4, <2>f
  <2>7. ASSUME NEW n \in 1..k PROVE g[n] = F[n][g[n - 1]]
    <3> HIDE DEF g
    <3>1. CASE n = k
      BY <3>1, <2>5
    <3>2. CASE n # k
      <4>1. n \in 1..k - 1 /\ n \in 0..m /\ n - 1 \in 0..m /\ n - 1 # k
        BY <3>2
      <4> QED BY <4>1, <3>2, <2>4, <2>f
    <3> QED BY <3>1, <3>2
  <2>8. \E h \in [0..m -> X] : Good(h, k)
    <3> HIDE DEF g
    <3> QED BY <2>3, <2>6, <2>7
  <2> QED BY <2>8
<1>3. \A k \in 0..m : k \in P
  <2> HIDE DEF P
  <2> QED BY <1>1, <1>2, UpTo
<1>4. m \in P
  <2> HIDE DEF P
  <2> QED BY <1>3
<1> QED BY <1>4

\* Up to n the value of i is computed by H[i] from that of a later J[i].
Ahead(X, n, m, last, J, H) ==
  /\ n \in Nat /\ m \in Nat /\ n <= m
  /\ J \in [1..n -> 1..m] /\ \A i \in 1..n : J[i] > i
  /\ last \in X /\ H \in [1..n -> [X -> X]]

(***************************************************************************)
(* A function that computes its values so exists.                          *)
(***************************************************************************)
LEMMA Backward ==
  ASSUME NEW X, NEW n, NEW m, NEW last, NEW J, NEW H, Ahead(X, n, m, last, J, H)
  PROVE  \E f \in [1..m -> X] :
           /\ \A i \in n + 1..m : f[i] = last
           /\ \A i \in 1..n : f[i] = H[i][f[J[i]]]
<1> USE DEF Ahead
<1> DEFINE Good(f, k) ==
             /\ \A i \in n + 1..m : f[i] = last
             /\ \A i \in n - k + 1..n : f[i] = H[i][f[J[i]]]
<1> DEFINE P == {k \in 0..n : \E f \in [1..m -> X] : Good(f, k)}
<1>1. 0 \in P
  <2> DEFINE f == [i \in 1..m |-> last]
  <2>1. f \in [1..m -> X] /\ Good(f, 0)
    OBVIOUS
  <2> QED BY <2>1
<1>2. \A k \in 1..n : k - 1 \in P => k \in P
  <2> SUFFICES ASSUME NEW k \in 1..n, k - 1 \in P PROVE k \in P
    OBVIOUS
  <2>f. PICK f \in [1..m -> X] : Good(f, k - 1)
    OBVIOUS
  <2> DEFINE a == n - k + 1
  <2> DEFINE g == [f EXCEPT ![a] = H[a][f[J[a]]]]
  <2>1. a \in 1..n /\ a \in 1..m /\ J[a] \in 1..m /\ J[a] > a
    OBVIOUS
  <2>2. f[J[a]] \in X
    BY <2>1
  <2>3. H[a][f[J[a]]] \in X
    BY <2>1, <2>2
  <2>4. g \in [1..m -> X]
    BY <2>3
  <2>5. \A i \in 1..m : i # a => g[i] = f[i]
    OBVIOUS
  <2>6. g[a] = H[a][g[J[a]]]
    BY <2>1, <2>5
  <2>7. ASSUME NEW i \in n + 1..m PROVE g[i] = last
    <3>1. i \in 1..m /\ i # a
      BY <2>1
    <3>2. f[i] = last
      BY <2>f
    <3> HIDE DEF g, a
    <3> QED BY <3>1, <3>2, <2>5
  <2>8. ASSUME NEW i \in n - k + 1..n PROVE g[i] = H[i][g[J[i]]]
    <3>1. CASE i = a
      <4> HIDE DEF g, a
      <4> QED BY <3>1, <2>6
    <3>2. CASE i # a
      <4>1. i \in n - (k - 1) + 1..n /\ i \in 1..n /\ i \in 1..m
        BY <3>2, <2>1
      <4>2. J[i] \in 1..m /\ J[i] > i /\ i > a
        BY <4>1
      <4>3. f[i] = H[i][f[J[i]]]
        BY <4>1, <2>f
      <4>4. g[i] = f[i] /\ g[J[i]] = f[J[i]]
        <5> HIDE DEF g, a
        <5> QED BY <4>1, <4>2, <3>2, <2>1, <2>5
      <4> QED BY <4>3, <4>4
    <3> QED BY <3>1, <3>2
  <2>9. \E h \in [1..m -> X] : Good(h, k)
    <3> HIDE DEF g
    <3> QED BY <2>4, <2>7, <2>8
  <2>10. k \in 0..n
    OBVIOUS
  <2> HIDE DEF Good, g
  <2> QED BY <2>9, <2>10
<1>3. \A k \in 0..n : k \in P
  <2> HIDE DEF P
  <2> QED BY <1>1, <1>2, UpTo
<1>4. PICK f \in [1..m -> X] : Good(f, n)
  <2>1. n \in P
    <3> HIDE DEF P
    <3> QED BY <1>3
  <2> HIDE DEF Good
  <2> QED BY <2>1
<1> QED BY <1>4

(***************************************************************************)
(* What holds after n, and of a number if it holds of a later one, holds of*)
(* all the numbers from 1 on.                                              *)
(***************************************************************************)
LEMMA DownTo ==
  ASSUME NEW X, NEW n, NEW m, NEW last, NEW J, NEW H, Ahead(X, n, m, last, J, H),
         NEW P, n + 1..m \subseteq P, \A i \in 1..n : J[i] \in P => i \in P
  PROVE  1..m \subseteq P
<1> USE DEF Ahead
<1> DEFINE Q == {k \in 0..n : \A i \in n - k + 1..m : i \in P}
<1>1. 0 \in Q
  OBVIOUS
<1>2. \A k \in 1..n : k - 1 \in Q => k \in Q
  <2> SUFFICES ASSUME NEW k \in 1..n, \A i \in n - (k - 1) + 1..m : i \in P
               PROVE  \A i \in n - k + 1..m : i \in P
    OBVIOUS
  <2>1. n - k + 1 \in 1..n
    OBVIOUS
  <2>2. J[n - k + 1] \in n - (k - 1) + 1..m
    BY <2>1
  <2>3. n - k + 1 \in P
    BY <2>1, <2>2
  <2> QED BY <2>3
<1>3. \A k \in 0..n : k \in Q
  <2> HIDE DEF Q
  <2> QED BY <1>1, <1>2, UpTo
<1>4. n \in Q
  <2> HIDE DEF Q
  <2> QED BY <1>3
<1>5. \A i \in n - n + 1..m : i \in P
  BY <1>4
<1> QED BY <1>5
-----------------------------------------------------------------------------
(***************************************************************************)
(* Lower case changes neither the length of a text nor that it is one.     *)
(***************************************************************************)
LEMMA FoldedText ==
  ASSUME NEW text \in Seq(Pieces)
  PROVE  /\ Folded(text) \in Seq(Pieces)
         /\ Len(Folded(text)) = Len(text)
         /\ \A i \in 1..Len(text) : Folded(text)[i] = Lower[text[i]]
<1>1. Len(text) \in Nat /\ \A i \in 1..Len(text) : text[i] \in Pieces
  OBVIOUS
<1>2. \A i \in 1..Len(text) : Lower[text[i]] \in Pieces
  BY <1>1, TextAssumption DEF TextAssumption
<1> QED BY <1>1, <1>2 DEF Folded

(***************************************************************************)
(* str::replace gives a text (prompt.rs:69).                               *)
(***************************************************************************)
LEMMA ReplaceGivesText ==
  ASSUME NEW text \in Seq(Pieces), NEW needle \in Seq(Pieces), needle # <<>>,
         NEW replacement \in Seq(Pieces)
  PROVE  Replace(text, needle, replacement) \in Seq(Pieces)
<1> DEFINE n == Len(text)
<1> DEFINE k == Len(needle)
<1> DEFINE m == n + k
<1> DEFINE At(i) == OccursAt(needle, text, i)
<1> DEFINE J == [i \in 1..n |-> IF At(i) THEN i + k ELSE i + 1]
<1> DEFINE H == [i \in 1..n |-> [x \in Seq(Pieces) |->
                   IF At(i) THEN replacement \o x ELSE <<text[i]>> \o x]]
<1> DEFINE from[i \in 1..Len(text) + Len(needle)] ==
             IF i > Len(text) THEN <<>>
             ELSE IF OccursAt(needle, text, i)
                  THEN replacement \o from[i + Len(needle)]
                  ELSE <<text[i]>> \o from[i + 1]
<1>1. n \in Nat /\ k \in Nat /\ k > 0 /\ m \in Nat /\ n <= m
  BY EmptySeq, LenProperties
<1>2. J \in [1..n -> 1..m] /\ \A i \in 1..n : J[i] > i
  <2> HIDE DEF At, n, k
  <2> QED BY <1>1
<1>3. \A i \in 1..n : \A x \in Seq(Pieces) :
         replacement \o x \in Seq(Pieces) /\ <<text[i]>> \o x \in Seq(Pieces)
  OBVIOUS
<1>4. H \in [1..n -> [Seq(Pieces) -> Seq(Pieces)]]
  <2> HIDE DEF At, n
  <2> QED BY <1>3
<1>5. <<>> \in Seq(Pieces)
  OBVIOUS
<1>ahead. Ahead(Seq(Pieces), n, m, <<>>, J, H)
  <2> HIDE DEF J, H, n, k, m
  <2> QED BY <1>1, <1>2, <1>4, <1>5 DEF Ahead
<1>6. PICK f \in [1..m -> Seq(Pieces)] :
         /\ \A i \in n + 1..m : f[i] = <<>>
         /\ \A i \in 1..n : f[i] = H[i][f[J[i]]]
  <2> HIDE DEF J, H, n, k, m
  <2> QED BY <1>ahead, Backward
<1>7. f = [i \in 1..m |->
             IF i > n THEN <<>>
             ELSE IF At(i) THEN replacement \o f[i + k]
                  ELSE <<text[i]>> \o f[i + 1]]
  <2>1. ASSUME NEW i \in 1..n
        PROVE  H[i][f[J[i]]] = IF At(i) THEN replacement \o f[i + k]
                               ELSE <<text[i]>> \o f[i + 1]
    <3>1. f[J[i]] \in Seq(Pieces)
      <4> HIDE DEF J, n, k
      <4> QED BY <1>2
    <3> HIDE DEF At, n, k
    <3> QED BY <3>1
  <2>2. ASSUME NEW i \in 1..m
        PROVE  f[i] = IF i > n THEN <<>>
                      ELSE IF At(i) THEN replacement \o f[i + k]
                           ELSE <<text[i]>> \o f[i + 1]
    <3>1. f[i] = IF i > n THEN <<>> ELSE H[i][f[J[i]]]
      <4> HIDE DEF J, H, n, m
      <4> QED BY <1>1, <1>6
    <3>2. ~(i > n) => i \in 1..n
      <4> HIDE DEF n
      <4> QED BY <1>1
    <3> HIDE DEF J, H, At, n, k, m
    <3> QED BY <3>1, <3>2, <2>1
  <2>3. f = [i \in 1..m |-> f[i]]
    OBVIOUS
  <2> HIDE DEF At, n, k, m
  <2> QED BY <2>2, <2>3
<1>8. from = [i \in 1..m |->
                IF i > n THEN <<>>
                ELSE IF At(i) THEN replacement \o from[i + k]
                     ELSE <<text[i]>> \o from[i + 1]]
  BY <1>7, Zenon
<1>9. Replace(text, needle, replacement) = from[1]
  BY DEF Replace
<1> DEFINE P == {i \in 1..m : from[i] \in Seq(Pieces)}
<1>10. n + 1..m \subseteq P
  <2> SUFFICES ASSUME NEW i \in n + 1..m PROVE i \in 1..m /\ from[i] = <<>>
    BY <1>5
  <2>1. i \in 1..m /\ i > n
    <3> HIDE DEF n, m
    <3> QED BY <1>1
  <2> HIDE DEF from, n, m
  <2> QED BY <1>8, <2>1
<1>11. ASSUME NEW i \in 1..n, J[i] \in P PROVE i \in P
  <2>1. i \in 1..m /\ ~(i > n)
    <3> HIDE DEF n, m
    <3> QED BY <1>1
  <2>2. from[i] = IF At(i) THEN replacement \o from[i + k]
                  ELSE <<text[i]>> \o from[i + 1]
    <3> HIDE DEF from, n, m, k, At
    <3> QED BY <1>8, <2>1
  <2>3. from[J[i]] \in Seq(Pieces)
    BY <1>11
  <2>4. J[i] = IF At(i) THEN i + k ELSE i + 1
    <3> HIDE DEF At, n
    <3> QED OBVIOUS
  <2>5. from[i] \in Seq(Pieces)
    <3> HIDE DEF from, n, m, k, At, J
    <3> QED BY <1>3, <2>2, <2>3, <2>4
  <2> QED BY <2>1, <2>5
<1>12. 1..m \subseteq P
  <2> HIDE DEF P, J, H, n, k, m
  <2> QED BY <1>ahead, <1>10, <1>11, DownTo
<1>13. 1 \in 1..m
  <2> HIDE DEF n
  <2> QED BY <1>1
<1> QED BY <1>9, <1>12, <1>13

(***************************************************************************)
(* replace_ascii_word gives a text (vocabulary.rs:185-207).                *)
(***************************************************************************)
LEMMA ReplaceWordGivesText ==
  ASSUME NEW text \in Seq(Pieces), NEW needle \in Seq(Pieces),
         NEW replacement \in Seq(Pieces)
  PROVE  ReplaceWord(text, needle, replacement) \in Seq(Pieces)
<1> SUFFICES ASSUME needle # <<>>, IsAscii(needle)
             PROVE  ReplaceWord(text, needle, replacement) \in Seq(Pieces)
  BY DEF ReplaceWord
<1> DEFINE n == Len(text)
<1> DEFINE k == Len(needle)
<1> DEFINE m == n + k
<1> DEFINE At(i) == OccursAt(Folded(needle), Folded(text), i)
<1> DEFINE New(i) == IF Stands(needle, text, i) THEN replacement
                     ELSE SubSeq(text, i, i + Len(needle) - 1)
<1> DEFINE J == [i \in 1..n |-> IF At(i) THEN i + k ELSE i + 1]
<1> DEFINE H == [i \in 1..n |-> [x \in Seq(Pieces) |->
                   IF ~At(i) THEN <<text[i]>> \o x ELSE New(i) \o x]]
<1> DEFINE from[i \in 1..Len(text) + Len(needle)] ==
             IF i > Len(text) THEN <<>>
             ELSE IF ~OccursAt(Folded(needle), Folded(text), i)
                  THEN <<text[i]>> \o from[i + 1]
             ELSE (IF Stands(needle, text, i) THEN replacement
                   ELSE SubSeq(text, i, i + Len(needle) - 1)) \o from[i + Len(needle)]
<1>1. n \in Nat /\ k \in Nat /\ k > 0 /\ m \in Nat /\ n <= m
  BY EmptySeq, LenProperties
<1>2. J \in [1..n -> 1..m] /\ \A i \in 1..n : J[i] > i
  <2> HIDE DEF New, At, n, k
  <2> QED BY <1>1
<1>3. \A i \in 1..n : \A x \in Seq(Pieces) :
         <<text[i]>> \o x \in Seq(Pieces) /\ (At(i) => New(i) \o x \in Seq(Pieces))
  <2>1. ASSUME NEW i \in 1..n, At(i) PROVE SubSeq(text, i, i + k - 1) \in Seq(Pieces)
    <3>1. i + Len(Folded(needle)) - 1 <= Len(Folded(text))
      BY <2>1 DEF OccursAt
    <3>2. i + k - 1 <= n
      BY <3>1, FoldedText
    <3> QED BY <3>2, <1>1, SubSeqProperties
  <2>2. ASSUME NEW i \in 1..n, At(i) PROVE New(i) \in Seq(Pieces)
    BY <2>1, <2>2
  <2> HIDE DEF New, At, k
  <2> QED BY <2>2
<1>4. H \in [1..n -> [Seq(Pieces) -> Seq(Pieces)]]
  <2> HIDE DEF New, At, n
  <2> QED BY <1>3
<1>5. <<>> \in Seq(Pieces)
  OBVIOUS
<1>ahead. Ahead(Seq(Pieces), n, m, <<>>, J, H)
  <2> HIDE DEF J, H, n, k, m
  <2> QED BY <1>1, <1>2, <1>4, <1>5 DEF Ahead
<1>6. PICK f \in [1..m -> Seq(Pieces)] :
         /\ \A i \in n + 1..m : f[i] = <<>>
         /\ \A i \in 1..n : f[i] = H[i][f[J[i]]]
  <2> HIDE DEF J, H, n, k, m
  <2> QED BY <1>ahead, Backward
<1>7. f = [i \in 1..m |->
             IF i > n THEN <<>>
             ELSE IF ~At(i) THEN <<text[i]>> \o f[i + 1]
                  ELSE New(i) \o f[i + k]]
  <2>1. ASSUME NEW i \in 1..n
        PROVE  H[i][f[J[i]]] = IF ~At(i) THEN <<text[i]>> \o f[i + 1]
                               ELSE New(i) \o f[i + k]
    <3>1. f[J[i]] \in Seq(Pieces)
      <4> HIDE DEF J, n, k
      <4> QED BY <1>2
    <3> HIDE DEF New, At, n, k
    <3> QED BY <3>1
  <2>2. ASSUME NEW i \in 1..m
        PROVE  f[i] = IF i > n THEN <<>>
                      ELSE IF ~At(i) THEN <<text[i]>> \o f[i + 1]
                           ELSE New(i) \o f[i + k]
    <3>1. f[i] = IF i > n THEN <<>> ELSE H[i][f[J[i]]]
      <4> HIDE DEF J, H, n, m
      <4> QED BY <1>1, <1>6
    <3>2. ~(i > n) => i \in 1..n
      <4> HIDE DEF n
      <4> QED BY <1>1
    <3> HIDE DEF J, H, New, At, n, k, m
    <3> QED BY <3>1, <3>2, <2>1
  <2>3. f = [i \in 1..m |-> f[i]]
    OBVIOUS
  <2> HIDE DEF New, At, n, k, m
  <2> QED BY <2>2, <2>3
<1>8. from = [i \in 1..m |->
                IF i > n THEN <<>>
                ELSE IF ~At(i) THEN <<text[i]>> \o from[i + 1]
                     ELSE New(i) \o from[i + k]]
  BY <1>7, Zenon
<1>9. ReplaceWord(text, needle, replacement) = from[1]
  BY DEF ReplaceWord
<1> DEFINE P == {i \in 1..m : from[i] \in Seq(Pieces)}
<1>10. n + 1..m \subseteq P
  <2> SUFFICES ASSUME NEW i \in n + 1..m PROVE i \in 1..m /\ from[i] = <<>>
    BY <1>5
  <2>1. i \in 1..m /\ i > n
    <3> HIDE DEF n, m
    <3> QED BY <1>1
  <2> HIDE DEF from, n, m
  <2> QED BY <1>8, <2>1
<1>11. ASSUME NEW i \in 1..n, J[i] \in P PROVE i \in P
  <2>1. i \in 1..m /\ ~(i > n)
    <3> HIDE DEF n, m
    <3> QED BY <1>1
  <2>2. from[i] = IF ~At(i) THEN <<text[i]>> \o from[i + 1]
                  ELSE New(i) \o from[i + k]
    <3> HIDE DEF from, n, m, k, New, At
    <3> QED BY <1>8, <2>1
  <2>3. from[J[i]] \in Seq(Pieces)
    BY <1>11
  <2>4. J[i] = IF At(i) THEN i + k ELSE i + 1
    <3> HIDE DEF New, At, n
    <3> QED OBVIOUS
  <2>5. from[i] \in Seq(Pieces)
    <3> HIDE DEF from, n, m, k, New, At, J
    <3> QED BY <1>3, <2>2, <2>3, <2>4
  <2> QED BY <2>1, <2>5
<1>12. 1..m \subseteq P
  <2> HIDE DEF P, J, H, n, k, m
  <2> QED BY <1>ahead, <1>10, <1>11, DownTo
<1>13. 1 \in 1..m
  <2> HIDE DEF n
  <2> QED BY <1>1
<1> QED BY <1>9, <1>12, <1>13
-----------------------------------------------------------------------------

(***************************************************************************)
(* The aliases of a rule are replaced in a text (vocabulary.rs:174-178).   *)
(***************************************************************************)
LEMMA NamedGivesText ==
  ASSUME NEW text \in Seq(Pieces), NEW rule \in EntityRules
  PROVE  Named(text, rule) \in Seq(Pieces)
<1> DEFINE m == Len(rule.aliases)
<1> DEFINE F == [n \in 1..m |-> [x \in Seq(Pieces) |->
                   ReplaceWord(x, rule.aliases[n], rule.canonical)]]
<1> DEFINE after[n \in 0..Len(rule.aliases)] ==
             IF n = 0 THEN text
             ELSE ReplaceWord(after[n - 1], rule.aliases[n], rule.canonical)
<1>1. m \in Nat /\ text \in Seq(Pieces)
  BY LenProperties DEF EntityRules
<1>2. \A n \in 1..m : \A x \in Seq(Pieces) :
         ReplaceWord(x, rule.aliases[n], rule.canonical) \in Seq(Pieces)
  BY ReplaceWordGivesText DEF EntityRules
<1>3. Stepwise(Seq(Pieces), m, text, F)
  <2>1. F \in [1..m -> [Seq(Pieces) -> Seq(Pieces)]]
    <3> HIDE DEF m
    <3> QED BY <1>2
  <2> HIDE DEF m, F
  <2> QED BY <1>1, <2>1 DEF Stepwise
<1>4. PICK f \in [0..m -> Seq(Pieces)] :
         f[0] = text /\ \A n \in 1..m : f[n] = F[n][f[n - 1]]
  <2> HIDE DEF m, F
  <2> QED BY <1>3, Forward
<1>5. f = [n \in 0..m |-> IF n = 0 THEN text
                          ELSE ReplaceWord(f[n - 1], rule.aliases[n], rule.canonical)]
  <2>1. ASSUME NEW n \in 0..m, n # 0
        PROVE  f[n] = ReplaceWord(f[n - 1], rule.aliases[n], rule.canonical)
    <3>1. n \in 1..m /\ n - 1 \in 0..m
      <4> HIDE DEF m
      <4> QED BY <2>1, <1>1
    <3>2. f[n - 1] \in Seq(Pieces) /\ f[n] = F[n][f[n - 1]]
      <4> HIDE DEF m, F
      <4> QED BY <3>1, <1>4
    <3> HIDE DEF m
    <3> QED BY <3>1, <3>2
  <2> HIDE DEF m, F
  <2> QED BY <1>4, <2>1
<1>6. after = [n \in 0..m |-> IF n = 0 THEN text
                              ELSE ReplaceWord(after[n - 1], rule.aliases[n], rule.canonical)]
  BY <1>5, Zenon
<1> DEFINE P == {n \in 0..m : after[n] \in Seq(Pieces)}
<1>7. 0 \in P
  <2> HIDE DEF m, after
  <2> QED BY <1>1, <1>6
<1>8. \A n \in 1..m : n - 1 \in P => n \in P
  <2> SUFFICES ASSUME NEW n \in 1..m, after[n - 1] \in Seq(Pieces)
               PROVE  n \in 0..m /\ after[n] \in Seq(Pieces)
    OBVIOUS
  <2>1. n \in 0..m /\ n # 0
    <3> HIDE DEF m
    <3> QED BY <1>1
  <2>2. after[n] = ReplaceWord(after[n - 1], rule.aliases[n], rule.canonical)
    <3> HIDE DEF m, after
    <3> QED BY <2>1, <1>6
  <2> HIDE DEF m, after
  <2> QED BY <1>2, <2>1, <2>2
<1>9. \A n \in 0..m : n \in P
  <2> HIDE DEF P, m
  <2> QED BY <1>1, <1>7, <1>8, UpTo
<1>10. after[m] \in Seq(Pieces)
  <2> HIDE DEF m, after
  <2> QED BY <1>1, <1>9
<1> QED BY <1>10 DEF Named

(***************************************************************************)
(* A rule turns a text into a text, whatever it decides.                   *)
(***************************************************************************)
LEMMA ResolvedByGivesText ==
  ASSUME NEW text \in Seq(Pieces), NEW rule \in EntityRules
  PROVE  ResolvedBy(text, rule) \in Seq(Pieces)
<1>1. rule.canonical \in Seq(Pieces) /\ rule.aliases[1] \in Seq(Pieces)
  BY EmptySeq, LenProperties, ElementOfSeq DEF EntityRules
<1>2. ReplaceWord(text, rule.canonical, rule.aliases[1]) \in Seq(Pieces)
  BY <1>1, ReplaceWordGivesText
<1> QED BY <1>2, NamedGivesText DEF ResolvedBy

(***************************************************************************)
(* All the rules turn a text into a text (vocabulary.rs:55-85).            *)
(***************************************************************************)
LEMMA ResolvedGivesText ==
  ASSUME NEW text \in Seq(Pieces)
  PROVE  Resolved(text) \in Seq(Pieces)
<1> DEFINE m == Len(Rules)
<1> DEFINE F == [n \in 1..m |-> [x \in Seq(Pieces) |->
                   ResolvedBy(x, Rules[n])]]
<1> DEFINE after[n \in 0..Len(Rules)] ==
             IF n = 0 THEN text
             ELSE ResolvedBy(after[n - 1], Rules[n])
<1>1. m \in Nat /\ text \in Seq(Pieces)
  BY LenProperties, TextAssumption DEF TextAssumption
<1>2. \A n \in 1..m : \A x \in Seq(Pieces) :
         ResolvedBy(x, Rules[n]) \in Seq(Pieces)
  BY ResolvedByGivesText, TextAssumption DEF TextAssumption
<1>3. Stepwise(Seq(Pieces), m, text, F)
  <2>1. F \in [1..m -> [Seq(Pieces) -> Seq(Pieces)]]
    <3> HIDE DEF m
    <3> QED BY <1>2
  <2> HIDE DEF m, F
  <2> QED BY <1>1, <2>1 DEF Stepwise
<1>4. PICK f \in [0..m -> Seq(Pieces)] :
         f[0] = text /\ \A n \in 1..m : f[n] = F[n][f[n - 1]]
  <2> HIDE DEF m, F
  <2> QED BY <1>3, Forward
<1>5. f = [n \in 0..m |-> IF n = 0 THEN text
                          ELSE ResolvedBy(f[n - 1], Rules[n])]
  <2>1. ASSUME NEW n \in 0..m, n # 0
        PROVE  f[n] = ResolvedBy(f[n - 1], Rules[n])
    <3>1. n \in 1..m /\ n - 1 \in 0..m
      <4> HIDE DEF m
      <4> QED BY <2>1, <1>1
    <3>2. f[n - 1] \in Seq(Pieces) /\ f[n] = F[n][f[n - 1]]
      <4> HIDE DEF m, F
      <4> QED BY <3>1, <1>4
    <3> HIDE DEF m
    <3> QED BY <3>1, <3>2
  <2> HIDE DEF m, F
  <2> QED BY <1>4, <2>1
<1>6. after = [n \in 0..m |-> IF n = 0 THEN text
                              ELSE ResolvedBy(after[n - 1], Rules[n])]
  BY <1>5, Zenon
<1> DEFINE P == {n \in 0..m : after[n] \in Seq(Pieces)}
<1>7. 0 \in P
  <2> HIDE DEF m, after
  <2> QED BY <1>1, <1>6
<1>8. \A n \in 1..m : n - 1 \in P => n \in P
  <2> SUFFICES ASSUME NEW n \in 1..m, after[n - 1] \in Seq(Pieces)
               PROVE  n \in 0..m /\ after[n] \in Seq(Pieces)
    OBVIOUS
  <2>1. n \in 0..m /\ n # 0
    <3> HIDE DEF m
    <3> QED BY <1>1
  <2>2. after[n] = ResolvedBy(after[n - 1], Rules[n])
    <3> HIDE DEF m, after
    <3> QED BY <2>1, <1>6
  <2> HIDE DEF m, after
  <2> QED BY <1>2, <2>1, <2>2
<1>9. \A n \in 0..m : n \in P
  <2> HIDE DEF P, m
  <2> QED BY <1>1, <1>7, <1>8, UpTo
<1>10. after[m] \in Seq(Pieces)
  <2> HIDE DEF m, after
  <2> QED BY <1>1, <1>9
<1> QED BY <1>10 DEF Resolved

(***************************************************************************)
(* Explicit corrections turn a text into a text (prompt.rs:57-72).         *)
(***************************************************************************)
LEMMA CorrectionGivesText ==
  ASSUME NEW text \in Seq(Pieces), NEW entry \in Entries
  PROVE  Correction(text, entry) \in Seq(Pieces)
BY ReplaceGivesText DEF Correction, Corrects, Entries

(***************************************************************************)
(* And so do all of them, one after the other.                             *)
(***************************************************************************)
LEMMA CorrectedGivesText ==
  ASSUME NEW text \in Seq(Pieces), NEW entries \in Seq(Entries)
  PROVE  Corrected(text, entries) \in Seq(Pieces)
<1> DEFINE m == Len(entries)
<1> DEFINE F == [n \in 1..m |-> [x \in Seq(Pieces) |->
                   Correction(x, entries[n])]]
<1> DEFINE after[n \in 0..Len(entries)] ==
             IF n = 0 THEN text
             ELSE Correction(after[n - 1], entries[n])
<1>1. m \in Nat /\ text \in Seq(Pieces)
  BY LenProperties
<1>2. \A n \in 1..m : \A x \in Seq(Pieces) :
         Correction(x, entries[n]) \in Seq(Pieces)
  BY CorrectionGivesText
<1>3. Stepwise(Seq(Pieces), m, text, F)
  <2>1. F \in [1..m -> [Seq(Pieces) -> Seq(Pieces)]]
    <3> HIDE DEF m
    <3> QED BY <1>2
  <2> HIDE DEF m, F
  <2> QED BY <1>1, <2>1 DEF Stepwise
<1>4. PICK f \in [0..m -> Seq(Pieces)] :
         f[0] = text /\ \A n \in 1..m : f[n] = F[n][f[n - 1]]
  <2> HIDE DEF m, F
  <2> QED BY <1>3, Forward
<1>5. f = [n \in 0..m |-> IF n = 0 THEN text
                          ELSE Correction(f[n - 1], entries[n])]
  <2>1. ASSUME NEW n \in 0..m, n # 0
        PROVE  f[n] = Correction(f[n - 1], entries[n])
    <3>1. n \in 1..m /\ n - 1 \in 0..m
      <4> HIDE DEF m
      <4> QED BY <2>1, <1>1
    <3>2. f[n - 1] \in Seq(Pieces) /\ f[n] = F[n][f[n - 1]]
      <4> HIDE DEF m, F
      <4> QED BY <3>1, <1>4
    <3> HIDE DEF m
    <3> QED BY <3>1, <3>2
  <2> HIDE DEF m, F
  <2> QED BY <1>4, <2>1
<1>6. after = [n \in 0..m |-> IF n = 0 THEN text
                              ELSE Correction(after[n - 1], entries[n])]
  BY <1>5, Zenon
<1> DEFINE P == {n \in 0..m : after[n] \in Seq(Pieces)}
<1>7. 0 \in P
  <2> HIDE DEF m, after
  <2> QED BY <1>1, <1>6
<1>8. \A n \in 1..m : n - 1 \in P => n \in P
  <2> SUFFICES ASSUME NEW n \in 1..m, after[n - 1] \in Seq(Pieces)
               PROVE  n \in 0..m /\ after[n] \in Seq(Pieces)
    OBVIOUS
  <2>1. n \in 0..m /\ n # 0
    <3> HIDE DEF m
    <3> QED BY <1>1
  <2>2. after[n] = Correction(after[n - 1], entries[n])
    <3> HIDE DEF m, after
    <3> QED BY <2>1, <1>6
  <2> HIDE DEF m, after
  <2> QED BY <1>2, <2>1, <2>2
<1>9. \A n \in 0..m : n \in P
  <2> HIDE DEF P, m
  <2> QED BY <1>1, <1>7, <1>8, UpTo
<1>10. after[m] \in Seq(Pieces)
  <2> HIDE DEF m, after
  <2> QED BY <1>1, <1>9
<1> QED BY <1>10 DEF Corrected
-----------------------------------------------------------------------------
(***************************************************************************)
(* Where no cue occurs no rule decides, and the text stays as it is.       *)
(***************************************************************************)
LEMMA UndecidedKeeps ==
  ASSUME NEW text, NEW rule,
         \A cues \in {rule.entity, rule.ordinary} : \A k \in 1..Len(cues) :
           ~Occurs(Folded(cues[k]), Folded(text))
  PROVE  ResolvedBy(text, rule) = text
<1>1. {i \in 1..Len(rule.entity) : Occurs(Folded(rule.entity[i]), Folded(text))} = {}
  OBVIOUS
<1>2. {i \in 1..Len(rule.ordinary) : Occurs(Folded(rule.ordinary[i]), Folded(text))}
        = {}
  OBVIOUS
<1>3. Score(rule.entity, text) = 0 /\ Score(rule.ordinary, text) = 0
  BY <1>1, <1>2, FS_EmptySet DEF Score
<1> QED BY <1>3 DEF ResolvedBy

(***************************************************************************)
(* And so it is after all the rules.                                       *)
(***************************************************************************)
LEMMA NoCueNoChange ==
  ASSUME NEW text,
         \A i \in 1..Len(Rules) : \A cues \in {Rules[i].entity, Rules[i].ordinary} :
           \A k \in 1..Len(cues) : ~Occurs(Folded(cues[k]), Folded(text))
  PROVE  Resolved(text) = text
<1> DEFINE m == Len(Rules)
<1> DEFINE after[n \in 0..Len(Rules)] ==
             IF n = 0 THEN text ELSE ResolvedBy(after[n - 1], Rules[n])
<1>1. m \in Nat
  BY LenProperties, TextAssumption DEF TextAssumption
<1>2. \A n \in 1..m : ResolvedBy(text, Rules[n]) = text
  BY UndecidedKeeps
<1> DEFINE f == [n \in 0..m |-> text]
<1>3. f = [n \in 0..m |-> IF n = 0 THEN text ELSE ResolvedBy(f[n - 1], Rules[n])]
  <2>1. ASSUME NEW n \in 0..m, n # 0 PROVE ResolvedBy(f[n - 1], Rules[n]) = text
    <3>1. n \in 1..m /\ n - 1 \in 0..m
      <4> HIDE DEF m
      <4> QED BY <1>1, <2>1
    <3>2. f[n - 1] = text
      <4> HIDE DEF m
      <4> QED BY <3>1
    <3> HIDE DEF m, f
    <3> QED BY <1>2, <3>1, <3>2
  <2>2. \A n \in 0..m : f[n] = text
    OBVIOUS
  <2>3. f = [n \in 0..m |-> f[n]]
    OBVIOUS
  <2> HIDE DEF m, f
  <2> QED BY <2>1, <2>2, <2>3
<1>4. after = [n \in 0..m |->
                 IF n = 0 THEN text ELSE ResolvedBy(after[n - 1], Rules[n])]
  <2> HIDE DEF f
  <2> QED BY <1>3, Zenon
<1> DEFINE P == {n \in 0..m : after[n] = text}
<1>5. 0 \in P
  <2> HIDE DEF m, after
  <2> QED BY <1>1, <1>4
<1>6. \A n \in 1..m : n - 1 \in P => n \in P
  <2> SUFFICES ASSUME NEW n \in 1..m, after[n - 1] = text
               PROVE  n \in 0..m /\ after[n] = text
    OBVIOUS
  <2>1. n \in 0..m /\ n # 0
    <3> HIDE DEF m
    <3> QED BY <1>1
  <2>2. after[n] = ResolvedBy(after[n - 1], Rules[n])
    <3> HIDE DEF m, after
    <3> QED BY <1>4, <2>1
  <2> HIDE DEF m, after
  <2> QED BY <1>2, <2>1, <2>2
<1>7. \A n \in 0..m : n \in P
  <2> HIDE DEF P, m
  <2> QED BY <1>1, <1>5, <1>6, UpTo
<1>8. after[m] = text
  <2> HIDE DEF m, after
  <2> QED BY <1>1, <1>7
<1> QED BY <1>8 DEF Resolved
-----------------------------------------------------------------------------
\* The entry n is the first of its key.
IsFirst(entries, n) == \A j \in 1..n - 1 : Key(entries[j]) # Key(entries[n])

\* kept[n] is what is kept of the first n entries.
Keeps(S, entries, kept) ==
  /\ kept \in [0..Len(entries) -> Seq(S)]
  /\ kept[0] = <<>>
  /\ \A n \in 1..Len(entries) :
       kept[n] = IF IsFirst(entries, n) THEN Append(kept[n - 1], entries[n])
                 ELSE kept[n - 1]

(***************************************************************************)
(* deduplicate keeps, entry by entry, the first of each key                *)
(* (vocabulary.rs:209-215).                                                *)
(***************************************************************************)
LEMMA DeduplicatedLoop ==
  ASSUME NEW S, NEW entries \in Seq(S)
  PROVE  \E kept : Keeps(S, entries, kept) /\ Deduplicated(entries) = kept[Len(entries)]
<1> DEFINE m == Len(entries)
<1> DEFINE F == [n \in 1..m |-> [x \in Seq(S) |->
                   IF IsFirst(entries, n) THEN Append(x, entries[n]) ELSE x]]
<1> DEFINE kept[n \in 0..Len(entries)] ==
             IF n = 0 THEN <<>>
             ELSE IF \A j \in 1..n - 1 : Key(entries[j]) # Key(entries[n])
                  THEN Append(kept[n - 1], entries[n]) ELSE kept[n - 1]
<1>1. m \in Nat /\ <<>> \in Seq(S)
  BY LenProperties
<1>2. \A n \in 1..m : \A x \in Seq(S) :
         (IF IsFirst(entries, n) THEN Append(x, entries[n]) ELSE x) \in Seq(S)
  OBVIOUS
<1>3. Stepwise(Seq(S), m, <<>>, F)
  <2>1. F \in [1..m -> [Seq(S) -> Seq(S)]]
    <3> HIDE DEF m
    <3> QED BY <1>2
  <2> HIDE DEF m, F
  <2> QED BY <1>1, <2>1 DEF Stepwise
<1>4. PICK f \in [0..m -> Seq(S)] :
         f[0] = <<>> /\ \A n \in 1..m : f[n] = F[n][f[n - 1]]
  <2> HIDE DEF m, F
  <2> QED BY <1>3, Forward
<1>5. f = [n \in 0..m |-> IF n = 0 THEN <<>>
                          ELSE IF IsFirst(entries, n)
                               THEN Append(f[n - 1], entries[n]) ELSE f[n - 1]]
  <2>1. ASSUME NEW n \in 0..m, n # 0
        PROVE  f[n] = IF IsFirst(entries, n)
                      THEN Append(f[n - 1], entries[n]) ELSE f[n - 1]
    <3>1. n \in 1..m /\ n - 1 \in 0..m
      <4> HIDE DEF m
      <4> QED BY <2>1, <1>1
    <3>2. f[n - 1] \in Seq(S) /\ f[n] = F[n][f[n - 1]]
      <4> HIDE DEF m, F
      <4> QED BY <3>1, <1>4
    <3> HIDE DEF m
    <3> QED BY <3>1, <3>2
  <2> HIDE DEF m, F
  <2> QED BY <1>4, <2>1
<1>6. kept = [n \in 0..m |-> IF n = 0 THEN <<>>
                             ELSE IF IsFirst(entries, n)
                                  THEN Append(kept[n - 1], entries[n]) ELSE kept[n - 1]]
  BY <1>5, Zenon DEF IsFirst
<1> DEFINE P == {n \in 0..m : kept[n] \in Seq(S)}
<1>7. 0 \in P
  <2> HIDE DEF m, kept
  <2> QED BY <1>1, <1>6
<1>8. ASSUME NEW n \in 1..m
      PROVE  kept[n] = IF IsFirst(entries, n) THEN Append(kept[n - 1], entries[n])
                       ELSE kept[n - 1]
  <2>1. n \in 0..m /\ n # 0
    <3> HIDE DEF m
    <3> QED BY <1>1
  <2> HIDE DEF m, kept
  <2> QED BY <2>1, <1>6
<1>9. \A n \in 1..m : n - 1 \in P => n \in P
  <2> SUFFICES ASSUME NEW n \in 1..m, kept[n - 1] \in Seq(S)
               PROVE  n \in 0..m /\ kept[n] \in Seq(S)
    OBVIOUS
  <2>1. n \in 0..m
    <3> HIDE DEF m
    <3> QED BY <1>1
  <2> HIDE DEF m, kept
  <2> QED BY <1>2, <1>8, <2>1
<1>10. \A n \in 0..m : n \in P
  <2> HIDE DEF P, m
  <2> QED BY <1>1, <1>7, <1>9, UpTo
<1>11. kept \in [0..m -> Seq(S)] /\ kept[0] = <<>>
  <2> HIDE DEF m, kept
  <2> QED BY <1>1, <1>6, <1>10
<1>12. Keeps(S, entries, kept)
  <2> HIDE DEF kept
  <2> QED BY <1>8, <1>11 DEF Keeps
<1>13. Deduplicated(entries) = kept[m]
  BY DEF Deduplicated
<1> HIDE DEF kept
<1> QED BY <1>12, <1>13

(***************************************************************************)
(* What is kept are entries.                                               *)
(***************************************************************************)
LEMMA DeduplicatedType ==
  ASSUME NEW S, NEW entries \in Seq(S)
  PROVE  Deduplicated(entries) \in Seq(S)
<1>1. PICK kept : Keeps(S, entries, kept) /\ Deduplicated(entries) = kept[Len(entries)]
  BY DeduplicatedLoop
<1>2. Len(entries) \in 0..Len(entries)
  OBVIOUS
<1> QED BY <1>1, <1>2 DEF Keeps

\* s begins with the elements of r.
Begins(r, s) == Len(r) <= Len(s) /\ \A i \in 1..Len(r) : s[i] = r[i]

(***************************************************************************)
(* What is kept of a list is kept of a longer one, and first: whether an   *)
(* entry is the first of its key depends on those before it.               *)
(***************************************************************************)
LEMMA DeduplicatedBegins ==
  ASSUME NEW S, NEW r \in Seq(S), NEW s \in Seq(S)
  PROVE  Begins(Deduplicated(r), Deduplicated(r \o s))
<1> DEFINE a == Len(r)
<1> DEFINE m == Len(r \o s)
<1>1. a \in Nat /\ m \in Nat /\ a <= m /\ r \o s \in Seq(S)
  BY ConcatProperties, LenProperties
<1>2. \A i \in 1..a : (r \o s)[i] = r[i]
  BY ConcatProperties
<1>3. PICK k : Keeps(S, r, k) /\ Deduplicated(r) = k[a]
  BY DeduplicatedLoop
<1>4. PICK l : Keeps(S, r \o s, l) /\ Deduplicated(r \o s) = l[m]
  BY <1>1, DeduplicatedLoop
<1>5. \A n \in 1..a : IsFirst(r, n) <=> IsFirst(r \o s, n)
  <2> SUFFICES ASSUME NEW n \in 1..a PROVE IsFirst(r, n) <=> IsFirst(r \o s, n)
    OBVIOUS
  <2>1. (r \o s)[n] = r[n] /\ \A j \in 1..n - 1 : (r \o s)[j] = r[j]
    <3>1. \A j \in 1..n - 1 : j \in 1..a
      <4> HIDE DEF a
      <4> QED BY <1>1
    <3> HIDE DEF a
    <3> QED BY <1>2, <3>1
  <2> QED BY <2>1 DEF IsFirst
<1> DEFINE P == {n \in 0..a : l[n] = k[n]}
<1>6. 0 \in P
  <2> HIDE DEF a
  <2> QED BY <1>1, <1>3, <1>4 DEF Keeps
<1>7. \A n \in 1..a : n - 1 \in P => n \in P
  <2> SUFFICES ASSUME NEW n \in 1..a, l[n - 1] = k[n - 1]
               PROVE  n \in 0..a /\ l[n] = k[n]
    OBVIOUS
  <2>1. n \in 0..a /\ n \in 1..m
    <3> HIDE DEF a, m
    <3> QED BY <1>1
  <2>2. k[n] = IF IsFirst(r, n) THEN Append(k[n - 1], r[n]) ELSE k[n - 1]
    BY <1>3 DEF Keeps
  <2>3. l[n] = IF IsFirst(r \o s, n) THEN Append(l[n - 1], (r \o s)[n]) ELSE l[n - 1]
    BY <1>4, <2>1 DEF Keeps
  <2>4. (r \o s)[n] = r[n] /\ (IsFirst(r, n) <=> IsFirst(r \o s, n))
    BY <1>2, <1>5
  <2> HIDE DEF a, m
  <2>5. CASE IsFirst(r, n)
    BY <2>1, <2>2, <2>3, <2>4, <2>5
  <2>6. CASE ~IsFirst(r, n)
    BY <2>1, <2>2, <2>3, <2>4, <2>6
  <2> QED BY <2>5, <2>6
<1>8. \A n \in 0..a : n \in P
  <2> HIDE DEF P, a
  <2> QED BY <1>1, <1>6, <1>7, UpTo
<1>9. l[a] = k[a]
  <2> HIDE DEF a
  <2> QED BY <1>1, <1>8
<1>10. \A n \in 0..m : l[n] \in Seq(S)
  BY <1>4 DEF Keeps
<1>11. k[a] \in Seq(S)
  <2>1. a \in 0..m
    <3> HIDE DEF a, m
    <3> QED BY <1>1
  <2> HIDE DEF a, m
  <2> QED BY <2>1, <1>9, <1>10
<1> DEFINE b == m - a
<1> DEFINE Q == {n \in 0..b : Begins(k[a], l[a + n])}
<1>12. b \in Nat /\ a + 0 = a /\ a + b = m
  <2> HIDE DEF a, m
  <2> QED BY <1>1
<1>13. 0 \in Q
  <2>1. Begins(k[a], l[a + 0])
    <3> HIDE DEF a, m, b
    <3> QED BY <1>9, <1>11, <1>12 DEF Begins
  <2> HIDE DEF a, m, b
  <2> QED BY <2>1, <1>12
<1>14. \A n \in 1..b : n - 1 \in Q => n \in Q
  <2> SUFFICES ASSUME NEW n \in 1..b, Begins(k[a], l[a + (n - 1)])
               PROVE  n \in 0..b /\ Begins(k[a], l[a + n])
    OBVIOUS
  <2>1. /\ n \in 0..b /\ a + n \in 1..m /\ a + (n - 1) \in 0..m
        /\ (a + n) - 1 = a + (n - 1)
    <3> HIDE DEF a, m
    <3> QED BY <1>1
  <2>2. \/ l[a + n] = l[a + (n - 1)]
        \/ l[a + n] = Append(l[a + (n - 1)], (r \o s)[a + n])
    <3> HIDE DEF a, b
    <3> QED BY <1>4, <2>1 DEF Keeps
  <2>3. (r \o s)[a + n] \in S /\ l[a + (n - 1)] \in Seq(S)
    <3>1. (r \o s)[a + n] \in S
      BY <1>1, <2>1, ElementOfSeq
    <3> HIDE DEF a, b, m
    <3> QED BY <3>1, <1>10, <2>1
  <2>4. ASSUME NEW x \in Seq(S), NEW y \in S, NEW t \in Seq(S), Begins(t, x)
        PROVE  Begins(t, Append(x, y))
    BY <2>4 DEF Begins
  <2> HIDE DEF a, b, m
  <2> QED BY <2>1, <2>2, <2>3, <2>4, <1>11
<1>15. \A n \in 0..b : n \in Q
  <2> HIDE DEF Q, b
  <2> QED BY <1>12, <1>13, <1>14, UpTo
<1>16. Begins(k[a], l[a + b])
  <2> HIDE DEF a, b, m
  <2> QED BY <1>12, <1>15
<1> HIDE DEF a, b, m
<1> QED BY <1>3, <1>4, <1>12, <1>16

(***************************************************************************)
(* A list cut off at n has the first n elements of the list.               *)
(***************************************************************************)
LEMMA AtMostKeeps ==
  ASSUME NEW S, NEW s \in Seq(S), NEW n \in Nat
  PROVE  /\ AtMost(s, n) \in Seq(S)
         /\ Len(AtMost(s, n)) = IF Len(s) < n THEN Len(s) ELSE n
         /\ \A i \in 1..Len(AtMost(s, n)) : AtMost(s, n)[i] = s[i]
<1> DEFINE c == IF Len(s) < n THEN Len(s) ELSE n
<1>1. c \in Nat /\ c <= Len(s) /\ \A i \in 1..c : s[i] \in S
  BY LenProperties, ElementOfSeq
<1>2. AtMost(s, n) = SubSeq(s, 1, c)
  BY DEF AtMost
<1>3. /\ SubSeq(s, 1, c) \in Seq(S) /\ Len(SubSeq(s, 1, c)) = c
      /\ \A i \in 1..c : SubSeq(s, 1, c)[i] = s[i]
  <2> HIDE DEF c
  <2> QED BY <1>1, SubSeqProperties
<1> QED BY <1>2, <1>3

(***************************************************************************)
(* The beginning of a text is one, and all of a text that fits.            *)
(***************************************************************************)
LEMMA StartOfText ==
  ASSUME NEW text \in Seq(Pieces), NEW n \in Nat
  PROVE  /\ Start(text, n) \in Seq(Pieces)
         /\ Len(text) <= n => Start(text, n) = text
<1>1. Len(text) \in Nat /\ \A i \in 1..Len(text) : text[i] \in Pieces
  BY LenProperties, ElementOfSeq
<1>2. AtMost(text, n) \in Seq(Pieces)
  BY AtMostKeeps
<1>3. CASE n \in 1..Len(text) - 1 /\ text[n] = " "
  <2>1. n \in 1..Len(text) - 1
    BY <1>3, Zenon
  <2>2. /\ n - 1 \in Nat /\ ~(Len(text) <= n)
        /\ \A i \in 1..n - 1 : text[i] \in Pieces
    BY <1>1, <2>1
  <2>3. SubSeq(text, 1, n - 1) \in Seq(Pieces)
    BY <2>2, SubSeqProperties
  <2>4. Start(text, n) = SubSeq(text, 1, n - 1)
    BY <1>3, Zenon DEF Start
  <2> QED BY <2>2, <2>3, <2>4
<1>4. CASE ~(n \in 1..Len(text) - 1 /\ text[n] = " ")
  <2>1. Start(text, n) = AtMost(text, n)
    BY <1>4, Zenon DEF Start
  <2>2. ASSUME Len(text) <= n PROVE AtMost(text, n) = text
    <3>1. /\ Len(AtMost(text, n)) = Len(text)
          /\ \A i \in 1..Len(text) : AtMost(text, n)[i] = text[i]
      BY <1>1, <2>2, AtMostKeeps
    <3> QED BY <1>2, <3>1, SeqEqual
  <2> QED BY <1>2, <2>1, <2>2
<1> QED BY <1>3, <1>4

(***************************************************************************)
(* An entry that is cut is one, and the same if it fits                    *)
(* (pipeline.rs:107-110).                                                  *)
(***************************************************************************)
LEMMA CutEntry ==
  ASSUME NEW entry \in Entries
  PROVE  /\ Cut(entry) \in Entries
         /\ Size(entry) <= EntryLimit => Cut(entry) = entry
<1> DEFINE left == EntryLimit - (Size(entry) - Len(entry.term))
<1>1. /\ entry = [kind |-> entry.kind, heard |-> entry.heard, term |-> entry.term]
      /\ entry.kind \in {"rule", "term", "candidate"}
      /\ entry.heard \in Seq(Pieces) /\ entry.term \in Seq(Pieces)
  BY DEF Entries
<1>2. Len(entry.heard) \in Nat /\ Len(entry.term) \in Nat
  BY <1>1, LenProperties
<1>3. Size(entry) \in Nat /\ EntryLimit \in Nat /\ left \in Int
  <2>1. EntryLimit \in Nat
    BY TextAssumption DEF TextAssumption
  <2>2. ASSUME NEW a \in Nat, NEW b \in Nat, NEW c \in {0, 1}
        PROVE  a + b + c \in Nat
    OBVIOUS
  <2>3. (IF entry.kind = "term" THEN 0 ELSE 1) \in {0, 1}
    OBVIOUS
  <2>4. Size(entry) \in Nat
    BY <1>2, <2>2, <2>3, Zenon DEF Size
  <2> QED BY <1>2, <2>1, <2>4
<1>4. CASE left >= 0
  <2>1. Cut(entry) = [entry EXCEPT !.term = Start(entry.term, left)]
    BY <1>4 DEF Cut
  <2>2. left \in Nat
    <3> HIDE DEF left
    <3> QED BY <1>3, <1>4
  <2>3. Start(entry.term, left) \in Seq(Pieces)
    <3> HIDE DEF left
    <3> QED BY <1>1, <2>2, StartOfText
  <2>4. Cut(entry) \in Entries
    <3> HIDE DEF left
    <3> QED BY <1>1, <2>1, <2>3 DEF Entries
  <2>5. ASSUME Size(entry) <= EntryLimit PROVE Cut(entry) = entry
    <3>1. Len(entry.term) <= left
      BY <1>2, <1>3, <2>5
    <3>2. Start(entry.term, left) = entry.term
      <4> HIDE DEF left
      <4> QED BY <1>1, <2>2, <3>1, StartOfText
    <3> HIDE DEF left
    <3> QED BY <1>1, <2>1, <3>2 DEF Entries
  <2> QED BY <2>4, <2>5
<1>5. CASE ~(left >= 0)
  <2>1. Cut(entry) = Term(Start(entry.heard, EntryLimit))
    BY <1>5 DEF Cut
  <2>2. Start(entry.heard, EntryLimit) \in Seq(Pieces) /\ <<>> \in Seq(Pieces)
    BY <1>1, <1>3, StartOfText
  <2>3. Cut(entry) \in Entries
    BY <2>1, <2>2 DEF Term, Entries
  <2>4. ~(Size(entry) <= EntryLimit)
    BY <1>2, <1>3, <1>5
  <2> QED BY <2>3, <2>4
<1> QED BY <1>4, <1>5

(***************************************************************************)
(* A list of entries that are cut is a list of as many.                    *)
(***************************************************************************)
LEMMA ShortenedEntries ==
  ASSUME NEW entries \in Seq(Entries)
  PROVE  /\ Shortened(entries) \in Seq(Entries)
         /\ Len(Shortened(entries)) = Len(entries)
         /\ \A i \in 1..Len(entries) : Shortened(entries)[i] = Cut(entries[i])
<1>1. Len(entries) \in Nat /\ \A i \in 1..Len(entries) : Cut(entries[i]) \in Entries
  BY LenProperties, ElementOfSeq, CutEntry
<1> QED BY <1>1 DEF Shortened

(***************************************************************************)
(* The merged vocabulary begins with the entries of the user, in order     *)
(* (vocabulary.rs:87-89 with pipeline.rs:105-106).                         *)
(***************************************************************************)
LEMMA MergedKeepsUser ==
  ASSUME NEW primary \in Seq(Entries), NEW domain \in Seq(Entries)
  PROVE  /\ Merged(primary, domain) \in Seq(Entries)
         /\ Deduplicated(primary) \in Seq(Entries)
         /\ \A i \in 1..Len(Deduplicated(primary)) : i <= MaxTerms =>
              /\ i <= Len(Merged(primary, domain))
              /\ Merged(primary, domain)[i] = Deduplicated(primary)[i]
<1> DEFINE own == Deduplicated(primary)
<1> DEFINE all == Deduplicated(primary \o Deduplicated(domain))
<1>1. MaxTerms \in Nat
  BY TextAssumption DEF TextAssumption
<1>2. own \in Seq(Entries) /\ Deduplicated(domain) \in Seq(Entries)
  BY DeduplicatedType
<1>3. primary \o Deduplicated(domain) \in Seq(Entries)
  BY <1>2, ConcatProperties
<1>4. all \in Seq(Entries)
  BY <1>3, DeduplicatedType
<1>5. Begins(own, all)
  BY <1>2, DeduplicatedBegins
<1>6. Merged(primary, domain) = AtMost(all, MaxTerms)
  BY DEF Merged
<1> HIDE DEF own, all
<1>7. /\ AtMost(all, MaxTerms) \in Seq(Entries)
      /\ Len(AtMost(all, MaxTerms)) = IF Len(all) < MaxTerms THEN Len(all) ELSE MaxTerms
      /\ \A i \in 1..Len(AtMost(all, MaxTerms)) : AtMost(all, MaxTerms)[i] = all[i]
  BY <1>1, <1>4, AtMostKeeps
<1>8. Len(own) \in Nat /\ Len(all) \in Nat /\ Len(own) <= Len(all)
      /\ \A i \in 1..Len(own) : all[i] = own[i]
  BY <1>2, <1>4, <1>5, LenProperties DEF Begins
<1>9. \A i \in 1..Len(own) : i <= MaxTerms =>
        i <= Len(AtMost(all, MaxTerms)) /\ AtMost(all, MaxTerms)[i] = own[i]
  BY <1>1, <1>7, <1>8
<1> QED BY <1>2, <1>6, <1>7, <1>9 DEF own

(***************************************************************************)
(* So does the vocabulary of the session, in which the entries are cut     *)
(* (pipeline.rs:105-110).                                                  *)
(***************************************************************************)
LEMMA ShortenedKeepsUser ==
  ASSUME NEW primary \in Seq(Entries), NEW domain \in Seq(Entries),
         NEW i \in 1..Len(Deduplicated(primary)), i <= MaxTerms
  PROVE  /\ i <= Len(Shortened(Merged(primary, domain)))
         /\ Shortened(Merged(primary, domain))[i] =
              IF Size(Deduplicated(primary)[i]) <= EntryLimit
              THEN Deduplicated(primary)[i] ELSE Cut(Deduplicated(primary)[i])
<1> DEFINE own == Deduplicated(primary)
<1> DEFINE all == Merged(primary, domain)
<1>1. own \in Seq(Entries) /\ all \in Seq(Entries)
  BY MergedKeepsUser
<1>2. i <= Len(all) /\ all[i] = own[i]
  BY MergedKeepsUser
<1> HIDE DEF own, all
<1>3. i \in 1..Len(own) BY DEF own
<1>4. own[i] \in Entries /\ i \in 1..Len(all)
  BY <1>1, <1>2, <1>3, ElementOfSeq, LenProperties
<1>5. Len(Shortened(all)) = Len(all) /\ Shortened(all)[i] = Cut(own[i])
  BY <1>1, <1>2, <1>4, ShortenedEntries
<1>6. Size(own[i]) <= EntryLimit => Cut(own[i]) = own[i]
  BY <1>4, CutEntry
<1> QED BY <1>2, <1>5, <1>6 DEF own, all
-----------------------------------------------------------------------------
(***************************************************************************)
(* No technical token of a text is missing in the text itself.             *)
(***************************************************************************)
LEMMA OwnTokensPresent ==
  ASSUME NEW text \in Seq(Pieces)
  PROVE  Missing(text, text) = {}
<1> SUFFICES ASSUME NEW token \in TechnicalTokens(text)
             PROVE  Occurs(Folded(token), Folded(text))
  BY DEF Missing
<1>1. PICK a \in 1..Len(text), b \in 1..Len(text) :
         a <= b /\ token = SubSeq(text, a, b)
  BY DEF TechnicalTokens
<1>2. Len(text) \in Nat /\ \A i \in a..b : text[i] \in Pieces
  BY <1>1, LenProperties, ElementOfSeq
<1>3. /\ token \in Seq(Pieces) /\ Len(token) = b - a + 1
      /\ \A i \in 1..b - a + 1 : token[i] = text[a + i - 1]
  BY <1>1, <1>2, SubSeqProperties
<1>4. /\ Len(Folded(token)) = b - a + 1
      /\ \A i \in 1..b - a + 1 : Folded(token)[i] = Lower[text[a + i - 1]]
  <2>1. /\ Len(Folded(token)) = Len(token)
        /\ \A i \in 1..Len(token) : Folded(token)[i] = Lower[token[i]]
    BY <1>3, FoldedText
  <2>2. \A i \in 1..b - a + 1 : Folded(token)[i] = Lower[token[i]]
    BY <2>1, <1>3, Zenon
  <2>3. \A i \in 1..b - a + 1 : Lower[token[i]] = Lower[text[a + i - 1]]
    BY <1>3, Zenon
  <2> QED BY <2>1, <2>2, <2>3, <1>3
<1>5. /\ Len(Folded(text)) = Len(text)
      /\ \A i \in 1..Len(text) : Folded(text)[i] = Lower[text[i]]
  BY FoldedText
<1>6. \A i \in 1..b - a + 1 : a + i - 1 \in 1..Len(text)
  BY <1>1, <1>2
<1>7. OccursAt(Folded(token), Folded(text), a)
  <2> DEFINE x == Folded(token)
  <2> DEFINE y == Folded(text)
  <2>1. a + Len(x) - 1 <= Len(y)
    BY <1>1, <1>2, <1>4, <1>5
  <2>2. \A i \in 1..Len(x) : y[a + i - 1] = x[i]
    BY <1>4, <1>5, <1>6
  <2> QED BY <2>1, <2>2 DEF OccursAt
<1> QED BY <1>2, <1>5, <1>7 DEF Occurs

(***************************************************************************)
(* The tokens a text has lost, and the terms it has gained, can be counted.*)
(***************************************************************************)
LEMMA MissingFinite ==
  ASSUME NEW text \in Seq(Pieces), NEW polished
  PROVE  IsFiniteSet(Missing(text, polished))
<1> DEFINE S == (1..Len(text)) \X (1..Len(text))
<1> DEFINE f == [s \in S |-> Folded(SubSeq(text, s[1], s[2]))]
<1> DEFINE T == {Folded(SubSeq(text, s[1], s[2])) : s \in S}
<1>1. IsFiniteSet(1..Len(text))
  BY LenProperties, FS_Interval
<1>2. IsFiniteSet(S)
  BY <1>1, FS_Product
<1>3. f \in Surjection(S, T)
  <2> HIDE DEF S
  <2> QED BY DEF Surjection
<1>4. IsFiniteSet(T)
  <2> HIDE DEF S, T, f
  <2> QED BY <1>2, <1>3, FS_Surjection
<1>5. Missing(text, polished) \subseteq T
  BY DEF Missing, TechnicalTokens
<1> HIDE DEF T
<1> QED BY <1>4, <1>5, FS_Subset

(***************************************************************************)
(* The same for the terms that have come in.                               *)
(***************************************************************************)
LEMMA NewTermsFinite ==
  ASSUME NEW text, NEW polished, NEW entries \in Seq(Entries)
  PROVE  IsFiniteSet(NewTerms(text, polished, entries))
<1> DEFINE S == 1..Len(entries)
<1> DEFINE f == [i \in S |-> Folded(entries[i].term)]
<1> DEFINE T == {Folded(entries[i].term) : i \in S}
<1>1. IsFiniteSet(S)
  BY LenProperties, FS_Interval
<1>2. f \in Surjection(S, T)
  <2> HIDE DEF S
  <2> QED BY DEF Surjection
<1>3. IsFiniteSet(T)
  <2> HIDE DEF S, T, f
  <2> QED BY <1>1, <1>2, FS_Surjection
<1>4. NewTerms(text, polished, entries) \subseteq T
  BY DEF NewTerms
<1> HIDE DEF T
<1> QED BY <1>3, <1>4, FS_Subset

(***************************************************************************)
(* An accepted text that has lost a token has gained a term, or the token  *)
(* is a candidate (prompt.rs:25-54).                                       *)
(***************************************************************************)
LEMMA AcceptedForAReason ==
  ASSUME NEW text \in Seq(Pieces), NEW polished, NEW entries \in Seq(Entries),
         Accepted(text, polished, entries), Missing(text, polished) # {}
  PROVE  \/ NewTerms(text, polished, entries) # {}
         \/ MayGo(Missing(text, polished), entries) # {}
<1> DEFINE M == Missing(text, polished)
<1>1. Cardinality(M) \in Nat /\ Cardinality(M) # 0
  <2>1. IsFiniteSet(M)
    BY MissingFinite
  <2> QED BY <2>1, FS_EmptySet, FS_CardinalityType
<1>2. Cardinality(M) <= Cardinality(NewTerms(text, polished, entries))
                          + Cardinality(MayGo(M, entries))
  BY DEF Accepted
<1>3. Cardinality({}) = 0
  BY FS_EmptySet
<1> HIDE DEF M
<1>4. ASSUME NewTerms(text, polished, entries) = {}, MayGo(M, entries) = {}
      PROVE  FALSE
  BY <1>1, <1>2, <1>3, <1>4
<1> QED BY <1>4 DEF M
-----------------------------------------------------------------------------
(***************************************************************************)
(* The inductive invariant: the raw text is the transcript resolved, and   *)
(* what is stored is the raw text or a text that the checks of             *)
(* prompt.rs:9-55 accept against it (pipeline.rs:215-275).                 *)
(***************************************************************************)
Accounted ==
  /\ TypeOK
  /\ step \in {"begun", "transcribed"} => raw = <<>> /\ final = <<>>
  /\ raw # <<>> => raw = Resolved(heard)
  /\ step = "polishing" => final = raw
  /\ step = "stored" => final = raw \/ Accepted(raw, final, vocabulary)
  /\ fallback => step = "stored" /\ final = raw

(***************************************************************************)
(* What a session may begin with is accounted for.                         *)
(***************************************************************************)
LEMMA AccountedInitially == Init => Accounted /\ UserEntriesFirst
<1> SUFFICES ASSUME Init PROVE Accounted /\ UserEntriesFirst
  OBVIOUS
<1> USE DEF Init
<1>1. Candidates \in Seq(Entries)
  <2>1. Len(Rules) \in Nat /\ \A i \in 1..Len(Rules) : Candidate(Rules[i].canonical) \in Entries
    <3>1. Rules \in Seq(EntityRules)
      BY TextAssumption DEF TextAssumption
    <3>2. Len(Rules) \in Nat /\ \A i \in 1..Len(Rules) : Rules[i] \in EntityRules
      BY <3>1, LenProperties, ElementOfSeq
    <3>3. ASSUME NEW rule \in EntityRules PROVE Candidate(rule.canonical) \in Entries
      <4>1. rule.canonical \in Seq(Pieces) /\ <<>> \in Seq(Pieces)
        BY DEF EntityRules
      <4> HIDE DEF Init
      <4> QED BY <4>1 DEF Candidate, Entries
    <3> QED BY <3>2, <3>3
  <2> QED BY <2>1 DEF Candidates
<1>2. PICK domain \in DomainVocabularies :
         \E packs \in {Shortened(domain) \o Candidates,
                       Candidates \o Shortened(domain)} :
           vocabulary = Shortened(Merged(user, packs))
  OBVIOUS
<1>3. domain \in Seq(Entries) /\ user \in Seq(Entries)
  BY TextAssumption DEF TextAssumption
<1>4. /\ Shortened(domain) \o Candidates \in Seq(Entries)
      /\ Candidates \o Shortened(domain) \in Seq(Entries)
  BY <1>1, <1>3, ShortenedEntries, ConcatProperties
<1>5. PICK packs \in Seq(Entries) : vocabulary = Shortened(Merged(user, packs))
  BY <1>2, <1>4
<1>6. vocabulary \in Seq(Entries) /\ UserEntriesFirst
  <2>1. vocabulary \in Seq(Entries)
    BY <1>3, <1>5, MergedKeepsUser, ShortenedEntries
  <2> HIDE DEF Init
  <2>2. UserEntriesFirst
    BY <1>3, <1>5, ShortenedKeepsUser DEF UserEntriesFirst
  <2> QED BY <2>1, <2>2
<1>7. TypeOK
  <2>1. /\ step = "begun" /\ cloud \in BOOLEAN /\ user \in UserVocabularies
        /\ heard = <<>> /\ raw = <<>> /\ final = <<>> /\ fallback = FALSE
    OBVIOUS
  <2>2. <<>> \in Seq(Pieces)
    OBVIOUS
  <2> HIDE DEF Init
  <2> QED BY <1>6, <2>1, <2>2 DEF TypeOK
<1> QED BY <1>6, <1>7 DEF Accounted

(***************************************************************************)
(* Every step keeps the account.                                           *)
(***************************************************************************)
LEMMA AccountedStep == Accounted /\ [Next]_vars => Accounted'
<1> SUFFICES ASSUME Accounted, [Next]_vars PROVE Accounted'
  OBVIOUS
<1> USE DEF Accounted, TypeOK
<1>1. CASE Recognize
  <2>1. heard' \in Seq(Pieces)
    BY <1>1, TextAssumption DEF Recognize, TextAssumption
  <2> QED BY <1>1, <2>1 DEF Recognize
<1>2. CASE Resolve
  <2>1. raw' \in Seq(Pieces) /\ raw' = Resolved(heard)
    BY <1>2, ResolvedGivesText DEF Resolve
  <2> QED BY <1>2, <2>1 DEF Resolve
<1>3. CASE NotPolished
  BY <1>3 DEF NotPolished
<1>4. CASE Polish
  <2>1. PICK answer \in Answers \cup {Corrected(raw, vocabulary)} : Judge(answer)
    BY <1>4 DEF Polish
  <2>2. answer \in Seq(Pieces)
    BY CorrectedGivesText, TextAssumption DEF TextAssumption
  <2>3. Corrected(answer, vocabulary) \in Seq(Pieces)
    BY <2>2, CorrectedGivesText
  <2>4. step = "polishing" /\ step' = "stored" /\ final = raw /\ ~fallback
        /\ UNCHANGED <<cloud, user, vocabulary, heard, raw>>
    BY <1>4 DEF Polish
  <2>5. CASE Accepted(raw, Corrected(answer, vocabulary), vocabulary)
    <3>1. final' = Corrected(answer, vocabulary) /\ fallback' = fallback
      BY <2>1, <2>5 DEF Judge
    <3>2. Accepted(raw', final', vocabulary')
      BY <2>4, <2>5, <3>1
    <3> QED BY <2>3, <2>4, <3>1, <3>2
  <2>6. CASE ~Accepted(raw, Corrected(answer, vocabulary), vocabulary)
    <3>1. final' = final /\ fallback' = TRUE
      BY <2>1, <2>6 DEF Judge
    <3> QED BY <2>4, <3>1
  <2> QED BY <2>5, <2>6
<1>5. CASE UNCHANGED vars
  BY <1>5 DEF vars
<1> QED BY <1>1, <1>2, <1>3, <1>4, <1>5 DEF Next

(***************************************************************************)
(* It holds in every state of a session.                                   *)
(***************************************************************************)
LEMMA TextAccounted == Spec => []Accounted
<1>1. Init => Accounted
  BY AccountedInitially
<1>2. Accounted /\ [Next]_vars => Accounted'
  BY AccountedStep
<1> QED BY <1>1, <1>2, PTL DEF Spec

(***************************************************************************)
(* The stored text is no longer than 128 characters or three quarters more *)
(* than the transcript, for any limit and texts of any length              *)
(* (prompt.rs:18-23).                                                      *)
(***************************************************************************)
THEOREM StoredTextBounded == Spec => []LengthBounded
<1>1. Accounted => LengthBounded
  <2> SUFFICES ASSUME Accounted, step = "stored"
               PROVE  \/ Len(final) <= Len(raw) + Slack
                      \/ 4 * Len(final) < 7 * Len(raw) + 4
    BY DEF LengthBounded
  <2>1. Len(raw) \in Nat /\ Len(final) \in Nat /\ Slack \in Nat
    BY LenProperties, TextAssumption DEF TextAssumption, Accounted, TypeOK
  <2>2. CASE final = raw
    BY <2>1, <2>2
  <2>3. CASE Accepted(raw, final, vocabulary)
    <3>1. Len(final) <= Maximum(Len(raw))
      BY <2>3 DEF Accepted
    <3> QED BY <2>1, <3>1 DEF Maximum
  <2> QED BY <2>2, <2>3 DEF Accounted
<1> QED BY <1>1, TextAccounted, PTL

(***************************************************************************)
(* No technical token is lost without a term gained or a candidate lost, for*)
(* any vocabulary and answer (prompt.rs:25-54).                            *)
(***************************************************************************)
THEOREM TokensAreKept == Spec => []NothingLostWithoutReason
<1>1. Accounted => NothingLostWithoutReason
  <2> SUFFICES ASSUME Accounted, step = "stored", Missing(raw, final) # {}
               PROVE  \/ \E i \in 1..Len(vocabulary) :
                           /\ Occurs(Folded(vocabulary[i].term), Folded(final))
                           /\ ~Occurs(Folded(vocabulary[i].term), Folded(raw))
                      \/ \E i \in 1..Len(vocabulary) :
                           /\ vocabulary[i].kind = "candidate"
                           /\ Folded(vocabulary[i].term) \in Missing(raw, final)
    BY DEF NothingLostWithoutReason
  <2>1. raw \in Seq(Pieces) /\ vocabulary \in Seq(Entries)
    BY DEF Accounted, TypeOK
  <2>2. Accepted(raw, final, vocabulary)
    BY <2>1, OwnTokensPresent DEF Accounted
  <2>3. \/ NewTerms(raw, final, vocabulary) # {}
        \/ MayGo(Missing(raw, final), vocabulary) # {}
    BY <2>1, <2>2, AcceptedForAReason
  <2>4. CASE NewTerms(raw, final, vocabulary) # {}
    BY <2>4 DEF NewTerms
  <2>5. CASE MayGo(Missing(raw, final), vocabulary) # {}
    BY <2>5 DEF MayGo
  <2> QED BY <2>3, <2>4, <2>5
<1> QED BY <1>1, TextAccounted, PTL

(***************************************************************************)
(* The entries of the user come first in the vocabulary of the session, cut*)
(* to the limit of an entry and else as the user wrote them, for any       *)
(* vocabularies, packs and limits (vocabulary.rs:87-89,                    *)
(* pipeline.rs:105-110).                                                   *)
(***************************************************************************)
THEOREM UserComesFirst == Spec => []UserEntriesFirst
<1>1. Init => UserEntriesFirst
  BY AccountedInitially
<1>2. UserEntriesFirst /\ [Next]_vars => UserEntriesFirst'
  <2> SUFFICES ASSUME UserEntriesFirst, [Next]_vars PROVE UserEntriesFirst'
    OBVIOUS
  <2>1. user' = user /\ vocabulary' = vocabulary
    BY DEF Next, Recognize, Resolve, NotPolished, Polish, vars
  <2> QED BY <2>1 DEF UserEntriesFirst
<1> QED BY <1>1, <1>2, PTL DEF Spec

(***************************************************************************)
(* Where no cue was heard the transcript is stored or polished as it is, for*)
(* any rules (vocabulary.rs:160-183).                                      *)
(***************************************************************************)
THEOREM AmbiguousIsKept == Spec => []AmbiguousKept
<1>1. Accounted => AmbiguousKept
  <2> SUFFICES ASSUME raw = Resolved(heard),
                      \A i \in 1..Len(Rules) :
                        \A cues \in {Rules[i].entity, Rules[i].ordinary} :
                          \A k \in 1..Len(cues) :
                            ~Occurs(Folded(cues[k]), Folded(heard))
               PROVE  raw = heard
    BY DEF Accounted, AmbiguousKept
  <2> QED BY NoCueNoChange
<1> QED BY <1>1, TextAccounted, PTL
=============================================================================
