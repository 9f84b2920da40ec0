----------------------------- MODULE Induction -----------------------------
(***************************************************************************)
(* Induction over the natural numbers, stated for sets, and what follows   *)
(* from it for functions that are defined by recursion over a prefix of    *)
(* them: there is one, and two that begin and go on alike are alike; and   *)
(* for the value of a text of digits, which is one of these functions.     *)
(***************************************************************************)
EXTENDS Decimal, WellFoundedInduction, TLAPS

(* Where a set of numbers is not empty, it has a least one. *)
LEMMA LeastOf ==
  ASSUME NEW A \in SUBSET Nat, A # {}
  PROVE  \E x \in A : \A y \in A : x <= y
<1>1. PICK x \in A : \A y \in A : <<y, x>> \notin OpToRel(<, Nat)
  BY NatLessThanWellFounded, WFMin, Zenon
<1>2. ASSUME NEW y \in A PROVE x <= y
  <2>1. x \in Nat /\ y \in Nat
    OBVIOUS
  <2>2. ~ (y < x)
    <3> SUFFICES ASSUME y < x PROVE FALSE
      OBVIOUS
    <3>1. <<y, x>> \in Nat \X Nat /\ <<y, x>>[1] = y /\ <<y, x>>[2] = x
      BY <2>1
    <3>2. <<y, x>> \in OpToRel(<, Nat)
      BY <3>1, Zenon DEF OpToRel
    <3> QED
      BY <1>1, <3>2
  <2> QED
    BY <2>1, <2>2
<1> QED
  BY <1>2

(* and below a bound a largest. *)
LEMMA LargestOf ==
  ASSUME NEW N \in Nat, NEW A \in SUBSET (0..N), A # {}
  PROVE  \E x \in A : \A y \in A : y <= x
<1> DEFINE B == {n \in Nat : \E x \in A : n = N - x}
<1>1. \A x \in A : N - x \in B /\ x \in Nat
  OBVIOUS
<1>2. B \in SUBSET Nat /\ B # {}
  BY <1>1
<1>3. PICK b \in B : \A y \in B : b <= y
  <2> HIDE DEF B
  <2> QED
    BY <1>2, LeastOf
<1>4. PICK x \in A : b = N - x
  BY <1>3
<1>5. ASSUME NEW y \in A PROVE y <= x
  <2>1. N - x <= N - y
    <3> HIDE DEF B
    <3> QED
      BY <1>1, <1>3, <1>4
  <2> QED
    BY <1>1, <2>1
<1> QED
  BY <1>5

(* What holds of 0 and is handed on from n to n + 1 holds of all numbers.  *)
LEMMA HandedOn ==
  ASSUME NEW A \in SUBSET Nat, 0 \in A, \A n \in A : n + 1 \in A
  PROVE  \A n \in Nat : n \in A
<1> SUFFICES ASSUME Nat \ A # {} PROVE FALSE
  OBVIOUS
<1>1. PICK x \in Nat \ A : \A y \in Nat \ A : x <= y
  BY LeastOf
<1>2. x # 0 /\ x - 1 \in Nat /\ x - 1 < x
  BY <1>1
<1>3. x - 1 \in A
  BY <1>1, <1>2
<1> QED
  BY <1>1, <1>2, <1>3

(* The same up to a bound. *)
LEMMA HandedOnUpTo ==
  ASSUME NEW N \in Nat, NEW A, 0 \in A, \A n \in 0..N - 1 : n \in A => n + 1 \in A
  PROVE  \A n \in 0..N : n \in A
<1> DEFINE B == {n \in Nat : n <= N => n \in A}
<1>1. 0 \in B /\ \A n \in B : n + 1 \in B
  OBVIOUS
<1>2. \A n \in Nat : n \in B
  <2> HIDE DEF B
  <2>1. B \in SUBSET Nat
    BY DEF B
  <2> QED
    BY <1>1, <2>1, HandedOn
<1> QED
  BY <1>2

(* Two functions that begin alike and go on alike are alike. *)
GoAlike(f, g, N) ==
  f[0] = g[0] /\ \A n \in 1..N : f[n - 1] = g[n - 1] => f[n] = g[n]

LEMMA Alike ==
  ASSUME NEW N \in Nat, NEW f, NEW g, GoAlike(f, g, N)
  PROVE  \A n \in 0..N : f[n] = g[n]
<1> USE DEF GoAlike
<1> DEFINE A == {n \in 0..N : f[n] = g[n]}
<1>1. 0 \in A /\ \A n \in 0..N - 1 : n \in A => n + 1 \in A
  <2>1. \A n \in 0..N - 1 : n + 1 \in 1..N /\ (n + 1) - 1 = n
    OBVIOUS
  <2> QED
    BY <2>1
<1>2. \A n \in 0..N : n \in A
  <2> HIDE DEF A
  <2> QED
    BY <1>1, HandedOnUpTo
<1> QED
  BY <1>2

(* The values of g, from 0 to N, begin with `base' and go on with `op'.    *)
OperatesOn(op, S, N) == op \in [S \X (1..N) -> S]
Iterated(g, base, op, S, N) ==
  /\ g \in [0..N -> S] /\ g[0] = base
  /\ \A n \in 1..N : g[n] = op[<<g[n - 1], n>>]

LEMMA Iterates ==
  ASSUME NEW N \in Nat, NEW S, NEW base \in S, NEW op, OperatesOn(op, S, N)
  PROVE  \E g : Iterated(g, base, op, S, N)
<1> USE DEF OperatesOn
<1> DEFINE Goes(g, m) == /\ g \in [0..m -> S] /\ g[0] = base
                         /\ \A n \in 1..m : g[n] = op[<<g[n - 1], n>>]
           A == {m \in 0..N : \E g \in [0..m -> S] : Goes(g, m)}
<1>1. 0 \in A
  <2> DEFINE z == [n \in 0..0 |-> base]
  <2>1. z \in [0..0 -> S] /\ z[0] = base
    OBVIOUS
  <2> HIDE DEF z
  <2>2. Goes(z, 0) /\ 0 \in 0..N
    BY <2>1
  <2> QED
    BY <2>1, <2>2
<1>2. ASSUME NEW m \in 0..N - 1, m \in A PROVE m + 1 \in A
  <2>1. PICK g \in [0..m -> S] : Goes(g, m)
    BY <1>2
  <2>2. m + 1 \in 1..N /\ g[m] \in S
    BY <2>1
  <2> DEFINE x == op[<<g[m], m + 1>>]
             h == [n \in 0..m + 1 |-> IF n = m + 1 THEN x ELSE g[n]]
  <2>3. x \in S
    BY <2>2
  <2>4. (\A n \in 0..m : h[n] = g[n] /\ n # m + 1) /\ h[m + 1] = x
    OBVIOUS
  <2>5. h \in [0..m + 1 -> S] /\ h[0] = base
    BY <2>1, <2>3, <2>4
  <2> HIDE DEF h
  <2>6. ASSUME NEW n \in 1..m + 1 PROVE h[n] = op[<<h[n - 1], n>>]
    <3>1. n - 1 \in 0..m /\ h[n - 1] = g[n - 1]
      BY <2>4
    <3>2. CASE n = m + 1
      <4>1. n - 1 = m /\ h[m] = g[m]
        BY <2>4, <3>2
      <4> QED
        BY <2>4, <3>2, <4>1
    <3>3. CASE n # m + 1
      <4>1. n \in 1..m /\ h[n] = g[n]
        BY <2>4, <3>3
      <4> QED
        BY <2>1, <3>1, <4>1
    <3> QED
      BY <3>2, <3>3
  <2>7. Goes(h, m + 1) /\ m + 1 \in 0..N
    BY <2>2, <2>5, <2>6
  <2> QED
    BY <2>5, <2>7
<1>3. N \in A
  <2> HIDE DEF A
  <2>1. \A n \in 0..N : n \in A
    BY <1>1, <1>2, HandedOnUpTo
  <2> QED
    BY <2>1
<1> QED
  BY <1>3 DEF Iterated
-----------------------------------------------------------------------------
(* What a text of digits is worth, one digit after the other. *)
LEMMA ValueEquation ==
  ASSUME NEW t \in Seq(0..9)
  PROVE  \E v \in [0..Len(t) -> Nat] :
           /\ v[0] = 0 /\ \A n \in 1..Len(t) : v[n] = 10 * v[n - 1] + t[n]
           /\ Value(t) = v[Len(t)]
<1> DEFINE L == Len(t)
           op == [x \in Nat \X (1..L) |-> 10 * x[1] + t[x[2]]]
           Unfolds(v) == v = [n \in 0..L |-> IF n = 0 THEN 0 ELSE 10 * v[n - 1] + t[n]]
           w == CHOOSE v : Unfolds(v)
<1>0. L \in Nat /\ \A n \in 1..L : t[n] \in Nat
  OBVIOUS
<1>1. OperatesOn(op, Nat, L)
  BY <1>0 DEF OperatesOn
<1>2. PICK g : Iterated(g, 0, op, Nat, L)
  <2> HIDE DEF op, L
  <2> QED
    BY <1>0, <1>1, Iterates
<1>3. g \in [0..L -> Nat] /\ g[0] = 0 /\ \A n \in 1..L : g[n] = 10 * g[n - 1] + t[n]
  <2>1. g \in [0..L -> Nat] /\ g[0] = 0 /\ \A n \in 1..L : g[n] = op[<<g[n - 1], n>>]
    BY <1>2 DEF Iterated
  <2>2. ASSUME NEW n \in 1..L PROVE op[<<g[n - 1], n>>] = 10 * g[n - 1] + t[n]
    <3>1. <<g[n - 1], n>> \in Nat \X (1..L)
      BY <2>1
    <3> QED
      BY <3>1
  <2> HIDE DEF op, L
  <2> QED
    BY <2>1, <2>2
<1>4. Unfolds(g)
  <2>1. \A n \in 0..L : n = 0 \/ n \in 1..L
    BY <1>0
  <2> HIDE DEF L
  <2> QED
    BY <1>3, <2>1
<1>5. Unfolds(w)
  <2> HIDE DEF Unfolds
  <2> QED
    BY <1>4
<1>6. Value(t) = w[L]
  BY DEF Value
<1> HIDE DEF w
<1>7. /\ w = [n \in 0..L |-> IF n = 0 THEN 0 ELSE 10 * w[n - 1] + t[n]]
      /\ \A n \in 0..L : w[n] = IF n = 0 THEN 0 ELSE 10 * w[n - 1] + t[n]
  <2> HIDE DEF L
  <2> QED
    BY <1>5
<1>8. w[0] = 0 /\ \A n \in 1..L : w[n] = 10 * w[n - 1] + t[n]
  <2>1. 0 \in 0..L /\ \A n \in 1..L : n \in 0..L /\ n # 0
    BY <1>0
  <2> HIDE DEF L
  <2> QED
    BY <1>7, <2>1
<1>9. \A n \in 0..L : w[n] = g[n]
  <2> HIDE DEF L, op
  <2>1. \A n \in 1..L : w[n - 1] = g[n - 1] => w[n] = g[n]
    BY <1>3, <1>8
  <2>2. w[0] = g[0]
    BY <1>3, <1>8
  <2>3. GoAlike(w, g, L)
    BY <2>1, <2>2 DEF GoAlike
  <2> QED
    BY <1>0, <2>3, Alike
<1>10. w \in [0..L -> Nat]
  <2>1. DOMAIN w = 0..L /\ w = [n \in 0..L |-> w[n]]
    <3> HIDE DEF L
    <3> QED
      BY <1>7
  <2> HIDE DEF L
  <2> QED
    BY <1>3, <1>9, <2>1
<1> QED
  BY <1>6, <1>8, <1>10

LEMMA ValueType ==
  ASSUME NEW t \in Seq(0..9)
  PROVE  Value(t) \in Nat
<1>1. PICK v \in [0..Len(t) -> Nat] : Value(t) = v[Len(t)]
  BY ValueEquation
<1>2. Len(t) \in 0..Len(t)
  OBVIOUS
<1> QED
  BY <1>1, <1>2

LEMMA ValueOfNone == Value(<<>>) = 0
<1>1. <<>> \in Seq(0..9) /\ Len(<<>>) = 0
  OBVIOUS
<1> QED
  BY <1>1, ValueEquation

LEMMA ValueOfAppend ==
  ASSUME NEW t \in Seq(0..9), NEW d \in 0..9
  PROVE  Value(Append(t, d)) = 10 * Value(t) + d
<1> DEFINE u == Append(t, d)
           L == Len(t)
<1>1. /\ u \in Seq(0..9) /\ Len(u) = L + 1 /\ L \in Nat
      /\ u[L + 1] = d /\ \A n \in 1..L : u[n] = t[n]
  OBVIOUS
<1> HIDE DEF u
<1>2. PICK v \in [0..L -> Nat] :
        v[0] = 0 /\ (\A n \in 1..L : v[n] = 10 * v[n - 1] + t[n]) /\ Value(t) = v[L]
  BY ValueEquation
<1>3. PICK w \in [0..L + 1 -> Nat] :
        /\ w[0] = 0 /\ \A n \in 1..L + 1 : w[n] = 10 * w[n - 1] + u[n]
        /\ Value(u) = w[L + 1]
  BY <1>1, ValueEquation
<1>4. \A n \in 0..L : v[n] = w[n]
  <2>1. \A n \in 1..L : v[n - 1] = w[n - 1] => v[n] = w[n]
    BY <1>1, <1>2, <1>3
  <2>2. v[0] = w[0] /\ L \in Nat
    BY <1>2, <1>3
  <2>3. GoAlike(v, w, L)
    BY <2>1, <2>2 DEF GoAlike
  <2> QED
    BY <1>1, <2>3, Alike
<1>5. w[L + 1] = 10 * w[L] + d
  <2>1. L + 1 \in 1..L + 1 /\ (L + 1) - 1 = L
    BY <1>1
  <2> HIDE DEF L
  <2> QED
    BY <1>1, <1>3, <2>1
<1>6. w[L] = v[L]
  BY <1>1, <1>4
<1> QED
  BY <1>2, <1>3, <1>5, <1>6 DEF u
=============================================================================
