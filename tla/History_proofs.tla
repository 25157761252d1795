--------------------------- MODULE History_proofs ---------------------------
(***************************************************************************)
(* What the operators on conversation histories compute, for histories of  *)
(* any length.                                                             *)
(*                                                                         *)
(* The passes over a history are recursive functions of the position they  *)
(* have reached.  What is proved about them is proved by induction on that *)
(* position, in the form the provers can use: a set of positions that      *)
(* holds 0 and with every position the next one holds them all.            *)
(***************************************************************************)
EXTENDS History, Integers, WellFoundedInduction, SequenceTheorems, TLAPS

-----------------------------------------------------------------------------
(* Induction over positions *)

\* A non-empty set of numbers has a least member.
LEMMA LeastMember ==
  ASSUME NEW T \in SUBSET Nat, T # {}
  PROVE  \E x \in T : \A y \in T : x <= y
<1> DEFINE R == {ss \in Nat \X Nat : ss[1] < ss[2]}
<1>1. IsWellFoundedOn(R, Nat)
  BY NatLessThanWellFounded DEF OpToRel
<1> HIDE DEF R
<1>2. \E x \in T : \A y \in T : ~(<<y, x>> \in R)
  BY <1>1, WFMin
<1>3. PICK x \in T : \A y \in T : ~(<<y, x>> \in R)
  BY <1>2
<1>4. ASSUME NEW y \in T PROVE x <= y
  <2>1. x \in Nat /\ y \in Nat /\ ~(<<y, x>> \in R)
    BY <1>3
  <2>2. <<y, x>> \in Nat \X Nat /\ <<y, x>>[1] = y /\ <<y, x>>[2] = x
    BY <2>1
  <2>3. ~(y < x)
    BY <2>1, <2>2 DEF R
  <2> QED BY <2>1, <2>3
<1> QED BY <1>4

\* Induction over the positions up to N.
LEMMA Positions ==
  ASSUME NEW N \in Nat, NEW S, 0 \in S, \A n \in 0..(N - 1) : n \in S => n + 1 \in S
  PROVE  0..N \subseteq S
<1> DEFINE T == {n \in 0..N : n \notin S}
<1> SUFFICES ASSUME T # {} PROVE FALSE
  OBVIOUS
<1>1. T \in SUBSET Nat
  OBVIOUS
<1>2. PICK x \in T : \A y \in T : x <= y
  BY <1>1, LeastMember
<1>3. x \in 1..N /\ x - 1 \notin T
  BY <1>2
<1>4. x - 1 \in S /\ x - 1 \in 0..(N - 1)
  BY <1>3
<1>5. x - 1 + 1 \in S
  BY <1>4
<1> QED BY <1>2, <1>3, <1>5

-----------------------------------------------------------------------------
(* The passes are what their defining equations say *)

\* Keeping: the messages kept after n + 1 positions are those after n, and perhaps one.
LEMMA KeepingDef ==
  ASSUME NEW s, NEW P, Len(s) \in Nat
  PROVE  Keeping(s, P) = [n \in 0..Len(s) |->
           IF n = 0 THEN <<>>
           ELSE IF n \in P THEN Append(Keeping(s, P)[n - 1], s[n]) ELSE Keeping(s, P)[n - 1]]
<1> DEFINE Eq(f, N) == f = [n \in 0..N |->
             IF n = 0 THEN <<>> ELSE IF n \in P THEN Append(f[n - 1], s[n]) ELSE f[n - 1]]
           S == {n \in Nat : \E f : Eq(f, n)}
<1>1. 0 \in S
  <2>1. Eq([n \in 0..0 |-> <<>>], 0)
    OBVIOUS
  <2> QED BY <2>1
<1>2. ASSUME NEW k \in 0..(Len(s) - 1), k \in S PROVE k + 1 \in S
  <2>1. PICK f : Eq(f, k)
    BY <1>2
  <2>2. \A n \in 0..k : f[n] =
          IF n = 0 THEN <<>> ELSE IF n \in P THEN Append(f[n - 1], s[n]) ELSE f[n - 1]
    BY <2>1
  <2> DEFINE e == IF k + 1 \in P THEN Append(f[k], s[k + 1]) ELSE f[k]
  <2>3. PICK g : g = [n \in 0..(k + 1) |-> IF n = k + 1 THEN e ELSE f[n]]
    OBVIOUS
  <2>4. g[k + 1] = e /\ \A n \in 0..k : g[n] = f[n]
    BY <2>3
  <2>5. \A n \in 0..(k + 1) : g[n] =
          IF n = 0 THEN <<>> ELSE IF n \in P THEN Append(g[n - 1], s[n]) ELSE g[n - 1]
    BY <2>2, <2>4
  <2>6. Eq(g, k + 1)
    BY <2>3, <2>5
  <2> HIDE DEF Eq
  <2> QED BY <2>6
<1>3. Len(s) \in S
  <2>1. \A k \in 0..(Len(s) - 1) : k \in S => k + 1 \in S
    BY <1>2
  <2> HIDE DEF S
  <2>2. 0..Len(s) \subseteq S
    BY <1>1, <2>1, Positions
  <2> QED BY <2>2
<1>4. \E f : Eq(f, Len(s))
  BY <1>3
<1> QED BY <1>4 DEF Keeping

\* RepairPass: one more message is one more RepairStep.
LEMMA RepairPassDef ==
  ASSUME NEW h, Len(h) \in Nat
  PROVE  RepairPass(h) = [n \in 0..Len(h) |->
           IF n = 0 THEN [out |-> <<>>, pending |-> {}] ELSE RepairStep(RepairPass(h)[n - 1], h[n])]
<1> DEFINE base == [out |-> <<>>, pending |-> {}]
           Eq(f, N) == f = [n \in 0..N |-> IF n = 0 THEN base ELSE RepairStep(f[n - 1], h[n])]
           S == {n \in Nat : \E f : Eq(f, n)}
<1> HIDE DEF base
<1>1. 0 \in S
  <2>1. Eq([n \in 0..0 |-> base], 0)
    OBVIOUS
  <2> QED BY <2>1
<1>2. ASSUME NEW k \in 0..(Len(h) - 1), k \in S PROVE k + 1 \in S
  <2>1. PICK f : Eq(f, k)
    BY <1>2
  <2>2. \A n \in 0..k : f[n] = IF n = 0 THEN base ELSE RepairStep(f[n - 1], h[n])
    BY <2>1
  <2>3. PICK g : g = [n \in 0..(k + 1) |-> IF n = k + 1 THEN RepairStep(f[k], h[k + 1]) ELSE f[n]]
    OBVIOUS
  <2>4. g[k + 1] = RepairStep(f[k], h[k + 1]) /\ \A n \in 0..k : g[n] = f[n]
    BY <2>3
  <2>5. \A n \in 0..(k + 1) : g[n] = IF n = 0 THEN base ELSE RepairStep(g[n - 1], h[n])
    BY <2>2, <2>4
  <2>6. Eq(g, k + 1)
    BY <2>3, <2>5
  <2> HIDE DEF Eq
  <2> QED BY <2>6
<1>3. Len(h) \in S
  <2>1. \A k \in 0..(Len(h) - 1) : k \in S => k + 1 \in S
    BY <1>2
  <2> HIDE DEF S
  <2>2. 0..Len(h) \subseteq S
    BY <1>1, <2>1, Positions
  <2> QED BY <2>2
<1>4. \E f : Eq(f, Len(h))
  BY <1>3
<1> QED BY <1>4 DEF RepairPass, base

LEMMA RepairPassSteps ==
  ASSUME NEW h, Len(h) \in Nat
  PROVE  /\ RepairPass(h)[0] = [out |-> <<>>, pending |-> {}]
         /\ \A n \in 0..(Len(h) - 1) : RepairPass(h)[n + 1] = RepairStep(RepairPass(h)[n], h[n + 1])
<1>1. PICK f : f = RepairPass(h)
  OBVIOUS
<1> DEFINE base == [out |-> <<>>, pending |-> {}]
           e(n) == IF n = 0 THEN base ELSE RepairStep(f[n - 1], h[n])
<1>2. f = [n \in 0..Len(h) |-> e(n)]
  BY <1>1, RepairPassDef
<1> HIDE DEF e
<1>3. \A n \in 0..Len(h) : f[n] = e(n)
  BY <1>2
<1>4. f[0] = base
  BY <1>3 DEF e
<1>5. ASSUME NEW n \in 0..(Len(h) - 1) PROVE f[n + 1] = RepairStep(f[n], h[n + 1])
  <2>1. n + 1 \in 0..Len(h) /\ n + 1 # 0 /\ n + 1 - 1 = n
    OBVIOUS
  <2> QED BY <1>3, <2>1 DEF e
<1> QED BY <1>1, <1>4, <1>5

\* Matching: one more element of s may match one more element of t.
LEMMA MatchingDef ==
  ASSUME NEW t, NEW s, Len(s) \in Nat
  PROVE  Matching(t, s) = [n \in 0..Len(s) |->
           IF n = 0 THEN 0
           ELSE IF Matching(t, s)[n - 1] < Len(t) /\ t[Matching(t, s)[n - 1] + 1] = s[n]
                THEN Matching(t, s)[n - 1] + 1 ELSE Matching(t, s)[n - 1]]
<1> DEFINE More(k, n) == IF k < Len(t) /\ t[k + 1] = s[n] THEN k + 1 ELSE k
           Eq(f, N) == f = [n \in 0..N |-> IF n = 0 THEN 0 ELSE More(f[n - 1], n)]
           S == {n \in Nat : \E f : Eq(f, n)}
<1> HIDE DEF More
<1>1. 0 \in S
  <2>1. Eq([n \in 0..0 |-> 0], 0)
    OBVIOUS
  <2> QED BY <2>1
<1>2. ASSUME NEW k \in 0..(Len(s) - 1), k \in S PROVE k + 1 \in S
  <2>1. PICK f : Eq(f, k)
    BY <1>2
  <2>2. \A n \in 0..k : f[n] = IF n = 0 THEN 0 ELSE More(f[n - 1], n)
    BY <2>1
  <2>3. PICK g : g = [n \in 0..(k + 1) |-> IF n = k + 1 THEN More(f[k], k + 1) ELSE f[n]]
    OBVIOUS
  <2>4. g[k + 1] = More(f[k], k + 1) /\ \A n \in 0..k : g[n] = f[n]
    BY <2>3
  <2>5. \A n \in 0..(k + 1) : g[n] = IF n = 0 THEN 0 ELSE More(g[n - 1], n)
    BY <2>2, <2>4
  <2>6. Eq(g, k + 1)
    BY <2>3, <2>5
  <2> HIDE DEF Eq
  <2> QED BY <2>6
<1>3. Len(s) \in S
  <2>1. \A k \in 0..(Len(s) - 1) : k \in S => k + 1 \in S
    BY <1>2
  <2> HIDE DEF S
  <2>2. 0..Len(s) \subseteq S
    BY <1>1, <2>1, Positions
  <2> QED BY <2>2
<1>4. \E f : Eq(f, Len(s))
  BY <1>3
<1> QED BY <1>4 DEF Matching, More

-----------------------------------------------------------------------------
(* What KeepAt keeps *)

\* t is made of the elements of s at those of the first n positions that are in P, in
\* order; p says which one each is.
KeptBy(t, s, P, n, p) ==
  /\ p \in [1..Len(t) -> 1..n]
  /\ \A i, j \in 1..Len(t) : i < j => p[i] < p[j]
  /\ \A i \in 1..Len(t) : p[i] \in P /\ t[i] = s[p[i]]
  /\ \A k \in 1..n : k \in P => \E i \in 1..Len(t) : p[i] = k

LEMMA KeepingSteps ==
  ASSUME NEW s, NEW P, Len(s) \in Nat
  PROVE  /\ Keeping(s, P)[0] = <<>>
         /\ \A n \in 0..(Len(s) - 1) : Keeping(s, P)[n + 1] =
              IF n + 1 \in P THEN Append(Keeping(s, P)[n], s[n + 1]) ELSE Keeping(s, P)[n]
<1>1. PICK f : f = Keeping(s, P)
  OBVIOUS
<1> DEFINE e(n) == IF n = 0 THEN <<>> ELSE IF n \in P THEN Append(f[n - 1], s[n]) ELSE f[n - 1]
<1>0. f = [n \in 0..Len(s) |-> e(n)]
  BY <1>1, KeepingDef
<1> HIDE DEF e
<1>2. \A n \in 0..Len(s) : f[n] = e(n)
  BY <1>0
<1> USE DEF e
<1>3. f[0] = <<>>
  BY <1>2
<1>4. ASSUME NEW n \in 0..(Len(s) - 1)
      PROVE  f[n + 1] = IF n + 1 \in P THEN Append(f[n], s[n + 1]) ELSE f[n]
  <2>1. n + 1 \in 0..Len(s) /\ n + 1 # 0 /\ n + 1 - 1 = n
    OBVIOUS
  <2> QED BY <2>1, <1>2
<1> QED BY <1>1, <1>3, <1>4

\* KeepAt(s, P) is made of the elements of s at the positions of P, in order.
LEMMA KeepAtProperties ==
  ASSUME NEW M, NEW s \in Seq(M), NEW P
  PROVE  KeepAt(s, P) \in Seq(M) /\ \E p : KeptBy(KeepAt(s, P), s, P, Len(s), p)
<1>1. PICK f : f = Keeping(s, P)
  OBVIOUS
<1>2. Len(s) \in Nat /\ \A n \in 1..Len(s) : s[n] \in M
  OBVIOUS
<1>3. f[0] = <<>> /\ \A n \in 0..(Len(s) - 1) : f[n + 1] = IF n + 1 \in P THEN Append(f[n], s[n + 1]) ELSE f[n]
  BY <1>1, <1>2, KeepingSteps
<1> DEFINE S == {n \in 0..Len(s) : f[n] \in Seq(M) /\ \E p : KeptBy(f[n], s, P, n, p)}
<1>4. 0 \in S
  <2>1. KeptBy(<<>>, s, P, 0, [i \in 1..0 |-> 0])
    BY DEF KeptBy
  <2>2. \E p : KeptBy(f[0], s, P, 0, p)
    BY <1>3, <2>1
  <2>3. f[0] \in Seq(M) /\ 0 \in 0..Len(s)
    BY <1>2, <1>3
  <2> QED BY <2>2, <2>3
<1>5. ASSUME NEW n \in 0..(Len(s) - 1), n \in S PROVE n + 1 \in S
  <2>1. f[n] \in Seq(M) /\ n + 1 \in 0..Len(s) /\ s[n + 1] \in M
    BY <1>2, <1>5
  <2>2. PICK p : KeptBy(f[n], s, P, n, p)
    BY <1>5
  <2>3. CASE n + 1 \in P
    <3>1. PICK t : t = f[n]
      OBVIOUS
    <3>2. PICK u : u = f[n + 1]
      OBVIOUS
    <3>3. u = Append(t, s[n + 1]) /\ t \in Seq(M)
      BY <1>3, <2>1, <2>3, <3>1, <3>2
    <3>4. /\ u \in Seq(M) /\ Len(u) = Len(t) + 1 /\ Len(t) \in Nat /\ u[Len(t) + 1] = s[n + 1]
          /\ \A i \in 1..Len(t) : u[i] = t[i]
      BY <2>1, <3>3
    <3>5. PICK q : q = [i \in 1..Len(u) |-> IF i = Len(u) THEN n + 1 ELSE p[i]]
      OBVIOUS
    <3>6. KeptBy(t, s, P, n, p)
      BY <2>2, <3>1
    <3>7. KeptBy(u, s, P, n + 1, q)
      <4>1. q \in [1..Len(u) -> 1..(n + 1)]
        BY <3>4, <3>5, <3>6 DEF KeptBy
      <4>2. ASSUME NEW i \in 1..Len(u), NEW j \in 1..Len(u), i < j PROVE q[i] < q[j]
        <5>1. i \in 1..Len(t) /\ q[i] = p[i] /\ p[i] \in 1..n
          BY <3>4, <3>5, <3>6, <4>2, SMTT(30) DEF KeptBy
        <5>2. CASE j = Len(u)
          BY <5>1, <5>2, <3>4, <3>5
        <5>3. CASE j # Len(u)
          <6>1. j \in 1..Len(t) /\ q[j] = p[j]
            BY <5>3, <3>4, <3>5
          <6> QED BY <5>1, <6>1, <4>2, <3>6 DEF KeptBy
        <5> QED BY <5>2, <5>3
      <4>3. \A i \in 1..Len(u) : q[i] \in P /\ u[i] = s[q[i]]
        BY <2>3, <3>4, <3>5, <3>6 DEF KeptBy
      <4>4. ASSUME NEW k \in 1..(n + 1), k \in P PROVE \E i \in 1..Len(u) : q[i] = k
        <5>1. CASE k = n + 1
          BY <5>1, <3>4, <3>5
        <5>2. CASE k \in 1..n
          <6>1. PICK i \in 1..Len(t) : p[i] = k
            BY <4>4, <5>2, <3>6 DEF KeptBy
          <6> QED BY <6>1, <3>4, <3>5
        <5> QED BY <5>1, <5>2
      <4> QED BY <4>1, <4>2, <4>3, <4>4 DEF KeptBy
    <3> QED BY <2>1, <3>2, <3>4, <3>7
  <2>4. CASE n + 1 \notin P
    <3>1. KeptBy(f[n], s, P, n + 1, p)
      BY <2>2, <2>4 DEF KeptBy
    <3> QED BY <1>3, <2>1, <2>4, <3>1
  <2> QED BY <2>3, <2>4
<1>6. Len(s) \in S
  <2>1. \A n \in 0..(Len(s) - 1) : n \in S => n + 1 \in S
    BY <1>5
  <2> HIDE DEF S
  <2>2. 0..Len(s) \subseteq S
    BY <1>2, <1>4, <2>1, Positions
  <2> QED BY <1>2, <2>2
<1> QED BY <1>1, <1>6 DEF KeepAt

\* What is kept of the first N positions depends on them alone.
LEMMA KeepingPrefix ==
  ASSUME NEW s, NEW P, NEW t, NEW Q, NEW N \in Nat, Len(s) \in Nat, Len(t) \in Nat,
         N <= Len(s), N <= Len(t), \A n \in 1..N : s[n] = t[n] /\ (n \in P <=> n \in Q)
  PROVE  Keeping(s, P)[N] = Keeping(t, Q)[N]
<1>1. PICK f : f = Keeping(s, P)
  OBVIOUS
<1>2. PICK g : g = Keeping(t, Q)
  OBVIOUS
<1>0. \A n \in 0..(N - 1) : n \in 0..(Len(s) - 1) /\ n \in 0..(Len(t) - 1)
  OBVIOUS
<1>1a. /\ f[0] = <<>>
      /\ \A n \in 0..(Len(s) - 1) : f[n + 1] = IF n + 1 \in P THEN Append(f[n], s[n + 1]) ELSE f[n]
  BY <1>1, KeepingSteps
<1>2a. /\ g[0] = <<>>
      /\ \A n \in 0..(Len(t) - 1) : g[n + 1] = IF n + 1 \in Q THEN Append(g[n], t[n + 1]) ELSE g[n]
  BY <1>2, KeepingSteps
<1>3. f[0] = <<>> /\ \A n \in 0..(N - 1) : f[n + 1] = IF n + 1 \in P THEN Append(f[n], s[n + 1]) ELSE f[n]
  BY <1>1a, <1>0
<1>4. g[0] = <<>> /\ \A n \in 0..(N - 1) : g[n + 1] = IF n + 1 \in Q THEN Append(g[n], t[n + 1]) ELSE g[n]
  BY <1>2a, <1>0
<1> DEFINE S == {n \in 0..N : f[n] = g[n]}
<1>5. 0 \in S
  BY <1>3, <1>4
<1>6. \A n \in 0..(N - 1) : n \in S => n + 1 \in S
  BY <1>3, <1>4
<1> HIDE DEF S
<1>7. 0..N \subseteq S
  BY <1>5, <1>6, Positions
<1> QED BY <1>1, <1>2, <1>7 DEF S

\* Keeping of a sequence with one more element.
LEMMA KeepAtAppend ==
  ASSUME NEW M, NEW s \in Seq(M), NEW m \in M, NEW P, NEW Q,
         \A n \in 1..Len(s) : n \in P <=> n \in Q
  PROVE  KeepAt(Append(s, m), P) =
           IF Len(s) + 1 \in P THEN Append(KeepAt(s, Q), m) ELSE KeepAt(s, Q)
<1>1. PICK t : t = Append(s, m)
  OBVIOUS
<1>2. /\ Len(s) \in Nat /\ Len(t) = Len(s) + 1 /\ t[Len(s) + 1] = m
      /\ \A n \in 1..Len(s) : t[n] = s[n]
  BY <1>1
<1>3. Keeping(t, P)[Len(s)] = Keeping(s, Q)[Len(s)]
  <2>1. PICK N \in Nat : N = Len(s)
    BY <1>2
  <2>2. /\ Len(t) \in Nat /\ Len(s) \in Nat /\ N <= Len(t) /\ N <= Len(s)
        /\ \A n \in 1..N : t[n] = s[n] /\ (n \in P <=> n \in Q)
    BY <1>2, <2>1
  <2>3. Keeping(t, P)[N] = Keeping(s, Q)[N]
    BY <2>2, KeepingPrefix
  <2> QED BY <2>1, <2>3
<1>4. \A n \in 0..(Len(t) - 1) : Keeping(t, P)[n + 1] =
        IF n + 1 \in P THEN Append(Keeping(t, P)[n], t[n + 1]) ELSE Keeping(t, P)[n]
  BY <1>2, KeepingSteps
<1>5. Len(s) \in 0..(Len(t) - 1)
  BY <1>2
<1>6. Keeping(t, P)[Len(t)] =
        IF Len(s) + 1 \in P THEN Append(Keeping(t, P)[Len(s)], m) ELSE Keeping(t, P)[Len(s)]
  BY <1>2, <1>4, <1>5
<1> QED BY <1>1, <1>3, <1>6 DEF KeepAt

-----------------------------------------------------------------------------
(* Messages *)

\* The messages a history is made of: none carries an empty list of results.
Sound(C) == Messages(C) \ {Results({})}

LEMMA MessageFacts ==
  ASSUME NEW C
  PROVE  /\ \A m \in Messages(C) :
              /\ m.role \in {"assistant", "results", "prompt", "context", "note"}
              /\ m.ids \subseteq C
              /\ m.role = "results" => m = Results(m.ids)
              /\ m.role \notin {"assistant", "results"} => m.ids = {}
              /\ m = Note <=> m.role = "note"
         /\ \A m \in Sound(C) : m.role = "results" => m.ids # {}
         /\ {Prompt, Context, Note} \subseteq Sound(C)
         /\ \A X \in SUBSET C : Assistant(X) \in Sound(C) /\ (X # {} => Results(X) \in Sound(C))
BY DEF Messages, Sound, Results, Assistant, Prompt, Context, Note, Text

LEMMA RoleFacts ==
  /\ \A X : /\ Assistant(X).role = "assistant" /\ Assistant(X).ids = X
            /\ Results(X).role = "results" /\ Results(X).ids = X
  /\ Prompt.role = "prompt" /\ Context.role = "context" /\ Note.role = "note"
  /\ Prompt.ids = {} /\ Context.ids = {} /\ Note.ids = {}
BY DEF Assistant, Results, Prompt, Context, Note, Text

\* Which results an interval of a history holds.
LEMMA AnsweredMember ==
  ASSUME NEW h, NEW i, NEW n, NEW c
  PROVE  c \in AnsweredIn(h, i, n) <=> \E j \in i..n : h[j].role = "results" /\ c \in h[j].ids
BY DEF AnsweredIn, Answers

LEMMA AnsweredNone ==
  ASSUME NEW h, NEW i \in Int, NEW n \in Int, n < i
  PROVE  AnsweredIn(h, i, n) = {}
BY AnsweredMember

\* One more message in the interval.
LEMMA AnsweredNext ==
  ASSUME NEW h, NEW i \in Int, NEW n \in Int, i <= n + 1
  PROVE  AnsweredIn(h, i, n + 1) = AnsweredIn(h, i, n) \cup Answers(h[n + 1])
<1> SUFFICES ASSUME NEW c
             PROVE  c \in AnsweredIn(h, i, n + 1) <=> c \in AnsweredIn(h, i, n) \/ c \in Answers(h[n + 1])
  OBVIOUS
<1>1. c \in AnsweredIn(h, i, n + 1) <=> \E j \in i..(n + 1) : h[j].role = "results" /\ c \in h[j].ids
  BY AnsweredMember
<1>2. c \in AnsweredIn(h, i, n) <=> \E j \in i..n : h[j].role = "results" /\ c \in h[j].ids
  BY AnsweredMember
<1>3. \A j : j \in i..(n + 1) <=> j \in i..n \/ j = n + 1
  OBVIOUS
<1>4. c \in Answers(h[n + 1]) <=> h[n + 1].role = "results" /\ c \in h[n + 1].ids
  BY DEF Answers
<1> QED BY <1>1, <1>2, <1>3, <1>4

\* Histories that agree on an interval hold the same results there.
LEMMA AnsweredSame ==
  ASSUME NEW g, NEW h, NEW i, NEW n, \A j \in i..n : g[j] = h[j]
  PROVE  AnsweredIn(g, i, n) = AnsweredIn(h, i, n)
BY DEF AnsweredIn

\* A non-empty set of positions has a last one.
LEMMA LastMember ==
  ASSUME NEW N \in Nat, NEW T \in SUBSET (1..N), T # {}
  PROVE  Max(T) \in T /\ \A y \in T : y <= Max(T)
<1> DEFINE U == {n \in 0..N : N - n \in T}
<1>0. U \in SUBSET Nat
  OBVIOUS
<1>1. U # {}
  <2>1. PICK y \in T : TRUE
    OBVIOUS
  <2>2. y \in 1..N /\ N - (N - y) = y
    BY <2>1
  <2>3. N - y \in U
    BY <2>1, <2>2
  <2> QED BY <2>3
<1>2. PICK x \in U : \A y \in U : x <= y
  BY <1>0, <1>1, LeastMember
<1>3. N - x \in T /\ \A y \in T : N - y \in U
  BY <1>2
<1>4. \A y \in T : N - x >= y
  BY <1>2, <1>3
<1>5. \E z \in T : \A y \in T : z >= y
  BY <1>3, <1>4
<1>6. Max(T) \in T /\ \A y \in T : Max(T) >= y
  BY <1>5 DEF Max
<1> QED BY <1>6

\* AssistantBefore(h, i) is the last assistant message before i, or 0.
LEMMA AssistantBeforeFacts ==
  ASSUME NEW h, NEW i \in Nat
  PROVE  /\ AssistantBefore(h, i) = 0 => \A j \in 1..(i - 1) : ~IsAssistant(h[j])
         /\ AssistantBefore(h, i) # 0 =>
              /\ AssistantBefore(h, i) \in 1..(i - 1) /\ IsAssistant(h[AssistantBefore(h, i)])
              /\ \A j \in (AssistantBefore(h, i) + 1)..(i - 1) : ~IsAssistant(h[j])
         /\ \A a \in 1..(i - 1) :
              IsAssistant(h[a]) /\ (\A j \in (a + 1)..(i - 1) : ~IsAssistant(h[j]))
                => AssistantBefore(h, i) = a
<1> DEFINE T == {j \in 1..(i - 1) : IsAssistant(h[j])}
<1>1. AssistantBefore(h, i) = IF T # {} THEN Max(T) ELSE 0
  BY DEF AssistantBefore, SelectLastInSubSeq
<1>2. CASE T = {}
  BY <1>1, <1>2
<1>3. CASE T # {}
  <2>1. T \in SUBSET (1..i)
    OBVIOUS
  <2>2. Max(T) \in T /\ \A y \in T : y <= Max(T)
    BY <1>3, <2>1, LastMember
  <2>3. PICK b : b = Max(T)
    OBVIOUS
  <2>4. AssistantBefore(h, i) = b
    BY <1>1, <1>3, <2>3
  <2>5. b \in 1..(i - 1) /\ IsAssistant(h[b]) /\ \A j \in 1..(i - 1) : IsAssistant(h[j]) => j <= b
    BY <2>2, <2>3
  <2> QED BY <2>4, <2>5
<1> QED BY <1>2, <1>3

-----------------------------------------------------------------------------
(* Pairing, message by message *)

IsResult(m) == m.role = "results"

\* The assistant message at i is answered by the results that follow it at once.
UsesAnswered(h, i) ==
  \E n \in i..Len(h) :
    /\ \A j \in (i + 1)..n : IsResult(h[j])
    /\ AnsweredIn(h, i + 1, n) = h[i].ids
    /\ n < Len(h) => ~IsResult(h[n + 1])

\* The results at i follow an assistant message and answer what is not answered yet.
ResultFollows(h, i) ==
  \E a \in 1..(i - 1) :
    /\ IsAssistant(h[a]) /\ \A j \in (a + 1)..i : IsResult(h[j])
    /\ h[i].ids \cap AnsweredIn(h, a + 1, i - 1) = {}

LEMMA PairedMeaning ==
  ASSUME NEW C, NEW h \in Seq(Messages(C))
  PROVE  Paired(h) <=> \A i \in 1..Len(h) : /\ IsAssistant(h[i]) => UsesAnswered(h, i)
                                            /\ IsResult(h[i]) => ResultFollows(h, i)
<1>1. DOMAIN h = 1..Len(h) /\ Len(h) \in Nat
  OBVIOUS
<1>2. \A i \in 1..Len(h) : IsResult(h[i]) =>
        (ResultFollows(h, i) <=>
          /\ AssistantBefore(h, i) # 0 /\ \A j \in (AssistantBefore(h, i) + 1)..i : IsResult(h[j])
          /\ Answers(h[i]) \cap AnsweredIn(h, AssistantBefore(h, i) + 1, i - 1) = {})
  <2> SUFFICES ASSUME NEW i \in 1..Len(h), IsResult(h[i])
               PROVE  ResultFollows(h, i) <=>
                        /\ AssistantBefore(h, i) # 0
                        /\ \A j \in (AssistantBefore(h, i) + 1)..i : IsResult(h[j])
                        /\ Answers(h[i]) \cap AnsweredIn(h, AssistantBefore(h, i) + 1, i - 1) = {}
    OBVIOUS
  <2>1. PICK b : b = AssistantBefore(h, i)
    OBVIOUS
  <2>2. i \in Nat /\ Answers(h[i]) = h[i].ids
    BY <1>1 DEF Answers, IsResult
  <2>3. /\ b # 0 => b \in 1..(i - 1) /\ IsAssistant(h[b])
        /\ \A a \in 1..(i - 1) :
             IsAssistant(h[a]) /\ (\A j \in (a + 1)..(i - 1) : ~IsAssistant(h[j])) => b = a
    BY <2>1, <2>2, AssistantBeforeFacts
  <2>4. ASSUME ResultFollows(h, i)
        PROVE  /\ b # 0 /\ \A j \in (b + 1)..i : IsResult(h[j])
               /\ h[i].ids \cap AnsweredIn(h, b + 1, i - 1) = {}
    <3>1. PICK a \in 1..(i - 1) :
            /\ IsAssistant(h[a]) /\ \A j \in (a + 1)..i : IsResult(h[j])
            /\ h[i].ids \cap AnsweredIn(h, a + 1, i - 1) = {}
      BY <2>4 DEF ResultFollows
    <3>2. \A j \in (a + 1)..(i - 1) : ~IsAssistant(h[j])
      BY <3>1 DEF IsResult, IsAssistant
    <3>3. b = a
      BY <2>3, <3>1, <3>2
    <3> QED BY <3>1, <3>3
  <2>5. ASSUME b # 0, \A j \in (b + 1)..i : IsResult(h[j]), h[i].ids \cap AnsweredIn(h, b + 1, i - 1) = {}
        PROVE  ResultFollows(h, i)
    BY <2>3, <2>5 DEF ResultFollows
  <2> QED BY <2>1, <2>2, <2>4, <2>5
<1> QED BY <1>1, <1>2 DEF Paired, UsesAnswered, IsResult

\* A message appended leaves what is before it paired, unless it is a result message
\* that follows an assistant message's results.
LEMMA PairedBeforeAppend ==
  ASSUME NEW C, NEW o \in Seq(Messages(C)), NEW m \in Messages(C), NEW i \in 1..Len(o), NEW p, p = Append(o, m)
  PROVE  /\ ResultFollows(o, i) => ResultFollows(p, i)
         /\ (UsesAnswered(o, i) /\ (~IsResult(m) \/ \E j \in (i + 1)..Len(o) : ~IsResult(o[j])))
              => UsesAnswered(p, i)
<1>1. /\ Len(o) \in Nat /\ Len(p) = Len(o) + 1 /\ p[Len(o) + 1] = m
      /\ \A j \in 1..Len(o) : p[j] = o[j]
  OBVIOUS
<1>2. ASSUME ResultFollows(o, i) PROVE ResultFollows(p, i)
  <2>1. PICK a \in 1..(i - 1) :
          /\ IsAssistant(o[a]) /\ \A j \in (a + 1)..i : IsResult(o[j])
          /\ o[i].ids \cap AnsweredIn(o, a + 1, i - 1) = {}
    BY <1>2 DEF ResultFollows
  <2>2. \A j \in (a + 1)..(i - 1) : p[j] = o[j]
    BY <1>1
  <2>3. AnsweredIn(p, a + 1, i - 1) = AnsweredIn(o, a + 1, i - 1)
    BY <2>2 DEF AnsweredIn
  <2>4. p[a] = o[a] /\ p[i] = o[i] /\ \A j \in (a + 1)..i : p[j] = o[j]
    BY <1>1
  <2> QED BY <2>1, <2>3, <2>4 DEF ResultFollows
<1>3. ASSUME UsesAnswered(o, i), ~IsResult(m) \/ \E j \in (i + 1)..Len(o) : ~IsResult(o[j])
      PROVE  UsesAnswered(p, i)
  <2>1. PICK n \in i..Len(o) :
          /\ \A j \in (i + 1)..n : IsResult(o[j])
          /\ AnsweredIn(o, i + 1, n) = o[i].ids
          /\ n < Len(o) => ~IsResult(o[n + 1])
    BY <1>3 DEF UsesAnswered
  <2>2. p[i] = o[i] /\ \A j \in (i + 1)..n : p[j] = o[j]
    BY <1>1
  <2>3. AnsweredIn(p, i + 1, n) = AnsweredIn(o, i + 1, n)
    BY <2>2 DEF AnsweredIn
  <2>4. n \in i..Len(p) /\ n < Len(p)
    BY <1>1
  <2>5. ~IsResult(p[n + 1])
    <3>1. CASE n < Len(o)
      BY <1>1, <2>1, <3>1
    <3>2. CASE n = Len(o)
      BY <1>1, <1>3, <2>1, <3>2
    <3> QED BY <3>1, <3>2, <1>1
  <2> QED BY <2>1, <2>2, <2>3, <2>4, <2>5 DEF UsesAnswered
<1> QED BY <1>2, <1>3

-----------------------------------------------------------------------------
(* repair_orphan_tool_results *)

\* The last assistant message of o is at a, only results follow it, and of its uses
\* those in X are not answered yet.
Awaits(o, a, X) ==
  /\ a \in 1..Len(o) /\ IsAssistant(o[a]) /\ \A j \in (a + 1)..Len(o) : IsResult(o[j])
  /\ X \subseteq o[a].ids /\ AnsweredIn(o, a + 1, Len(o)) = o[a].ids \ X

PairedBut(o, a) ==
  \A i \in 1..Len(o) : /\ IsAssistant(o[i]) /\ i # a => UsesAnswered(o, i)
                       /\ IsResult(o[i]) => ResultFollows(o, i)

\* The pass has brought o in order, but for the uses in X of its last assistant message.
InOrder(o, X) == (X = {} /\ Paired(o)) \/ \E a : Awaits(o, a, X) /\ PairedBut(o, a)

\* With nothing left to await, all is in order.
LEMMA InOrderPaired ==
  ASSUME NEW C, NEW o \in Seq(Messages(C)), InOrder(o, {})
  PROVE  Paired(o)
<1>1. CASE \E a : Awaits(o, a, {}) /\ PairedBut(o, a)
  <2>1. PICK a : Awaits(o, a, {}) /\ PairedBut(o, a)
    BY <1>1
  <2>2. UsesAnswered(o, a)
    BY <2>1 DEF Awaits, UsesAnswered
  <2> QED BY <2>1, <2>2, PairedMeaning DEF PairedBut
<1> QED BY <1>1 DEF InOrder

\* Some of the awaited results arrive.
LEMMA InOrderResults ==
  ASSUME NEW C, NEW o \in Seq(Messages(C)), NEW X \in SUBSET C, InOrder(o, X), NEW Y \in SUBSET X
  PROVE  InOrder(append_tool_results(o, Y), X \ Y)
<1>1. CASE Y = {}
  <2>1. append_tool_results(o, Y) = o /\ X \ Y = X
    BY <1>1 DEF append_tool_results
  <2> QED BY <2>1
<1>2. CASE Y # {}
  <2>1. PICK a : Awaits(o, a, X) /\ PairedBut(o, a)
    BY <1>2 DEF InOrder
  <2>2. PICK m : m = Results(Y)
    OBVIOUS
  <2>3. m \in Messages(C) /\ IsResult(m) /\ m.ids = Y
    BY <2>2, RoleFacts DEF Messages, Results, IsResult
  <2>4. PICK p : p = Append(o, m)
    OBVIOUS
  <2>5. append_tool_results(o, Y) = p
    BY <1>2, <2>2, <2>4 DEF append_tool_results
  <2>6. /\ Len(o) \in Nat /\ Len(p) = Len(o) + 1 /\ p[Len(o) + 1] = m
        /\ \A j \in 1..Len(o) : p[j] = o[j]
    BY <2>3, <2>4
  <2>7. a \in 1..Len(o) /\ IsAssistant(o[a]) /\ \A j \in (a + 1)..Len(o) : IsResult(o[j])
    BY <2>1 DEF Awaits
  <2>8. AnsweredIn(p, a + 1, Len(o)) = o[a].ids \ X
    <3>1. \A j \in (a + 1)..Len(o) : p[j] = o[j]
      BY <2>6, <2>7
    <3> QED BY <2>1, <3>1, AnsweredSame DEF Awaits
  <2>9. Awaits(p, a, X \ Y)
    <3>1. AnsweredIn(p, a + 1, Len(o) + 1) = AnsweredIn(p, a + 1, Len(o)) \cup Answers(p[Len(o) + 1])
      BY <2>6, <2>7, AnsweredNext
    <3>2. Answers(p[Len(o) + 1]) = Y
      BY <2>3, <2>6 DEF Answers, IsResult
    <3>3. X \subseteq o[a].ids
      BY <2>1 DEF Awaits
    <3>4. AnsweredIn(p, a + 1, Len(p)) = p[a].ids \ (X \ Y)
      BY <2>6, <2>7, <2>8, <3>1, <3>2, <3>3
    <3>5. \A j \in (a + 1)..Len(p) : IsResult(p[j])
      BY <2>3, <2>6, <2>7
    <3>6. a \in 1..Len(p) /\ p[a] = o[a]
      BY <2>6, <2>7
    <3> QED BY <2>7, <3>3, <3>4, <3>5, <3>6 DEF Awaits
  <2>10. PairedBut(p, a)
    <3>1. ASSUME NEW i \in 1..Len(o), IsAssistant(o[i]), i # a PROVE UsesAnswered(p, i)
      <4>1. UsesAnswered(o, i)
        BY <2>1, <3>1 DEF PairedBut
      <4>2. a \in (i + 1)..Len(o) /\ ~IsResult(o[a])
        BY <2>6, <2>7, <3>1 DEF IsResult, IsAssistant
      <4> QED BY <2>3, <2>4, <4>1, <4>2, PairedBeforeAppend
    <3>2. ASSUME NEW i \in 1..Len(o), IsResult(o[i]) PROVE ResultFollows(p, i)
      BY <2>1, <2>3, <2>4, <3>2, PairedBeforeAppend DEF PairedBut
    <3>3. ResultFollows(p, Len(o) + 1)
      <4>1. a \in 1..(Len(o) + 1 - 1) /\ p[a] = o[a] /\ \A j \in (a + 1)..(Len(o) + 1) : IsResult(p[j])
        BY <2>3, <2>6, <2>7
      <4>2. Len(o) + 1 - 1 = Len(o) /\ Y \cap (o[a].ids \ X) = {}
        BY <2>6
      <4> QED BY <2>3, <2>6, <2>7, <2>8, <4>1, <4>2 DEF ResultFollows
    <3>4. ~IsAssistant(m)
      BY <2>3 DEF IsResult, IsAssistant
    <3>5. \A i \in 1..Len(p) : i \in 1..Len(o) \/ i = Len(o) + 1
      BY <2>6
    <3> QED BY <2>6, <3>1, <3>2, <3>3, <3>4, <3>5 DEF PairedBut
  <2> QED BY <2>5, <2>9, <2>10 DEF InOrder
<1> QED BY <1>1, <1>2

\* A message that is not a result is appended when nothing is awaited any more.
LEMMA InOrderMessage ==
  ASSUME NEW C, NEW o \in Seq(Messages(C)), Paired(o), NEW m \in Messages(C), ~IsResult(m)
  PROVE  InOrder(Append(o, m), Uses(m))
<1>1. PICK p : p = Append(o, m)
  OBVIOUS
<1>2. /\ Len(o) \in Nat /\ Len(p) = Len(o) + 1 /\ p[Len(o) + 1] = m /\ p \in Seq(Messages(C))
      /\ \A j \in 1..Len(o) : p[j] = o[j]
  BY <1>1
<1>3. \A i \in 1..Len(o) : /\ IsAssistant(o[i]) => UsesAnswered(p, i)
                           /\ IsResult(o[i]) => ResultFollows(p, i)
  BY <1>1, PairedMeaning, PairedBeforeAppend
<1>4. \A i \in 1..Len(p) : i \in 1..Len(o) \/ i = Len(o) + 1
  BY <1>2
<1>5. CASE IsAssistant(m)
  <2>1. AnsweredIn(p, Len(p) + 1, Len(p)) = {}
    BY <1>2, AnsweredNone
  <2>2. Awaits(p, Len(p), Uses(m))
    BY <1>2, <1>5, <2>1 DEF Awaits, Uses
  <2>3. PairedBut(p, Len(p))
    BY <1>2, <1>3, <1>4 DEF PairedBut
  <2> QED BY <1>1, <2>2, <2>3 DEF InOrder
<1>6. CASE ~IsAssistant(m)
  <2>1. Paired(p)
    BY <1>2, <1>3, <1>4, <1>6, PairedMeaning
  <2> QED BY <1>1, <1>6, <2>1 DEF InOrder, Uses
<1> QED BY <1>5, <1>6

\* The messages that are not results, in order.
Rest(s) == KeepAt(s, {i \in DOMAIN s : s[i].role # "results"})

LEMMA RestAppend ==
  ASSUME NEW M, NEW s \in Seq(M), NEW m \in M
  PROVE  Rest(Append(s, m)) = IF IsResult(m) THEN Rest(s) ELSE Append(Rest(s), m)
<1> DEFINE P == {i \in DOMAIN Append(s, m) : Append(s, m)[i].role # "results"}
           Q == {i \in DOMAIN s : s[i].role # "results"}
<1>1. /\ DOMAIN Append(s, m) = 1..(Len(s) + 1) /\ DOMAIN s = 1..Len(s) /\ Len(s) \in Nat
      /\ Append(s, m)[Len(s) + 1] = m /\ \A i \in 1..Len(s) : Append(s, m)[i] = s[i]
  OBVIOUS
<1>2. \A n \in 1..Len(s) : n \in P <=> n \in Q
  BY <1>1
<1>3. Len(s) + 1 \in P <=> ~IsResult(m)
  BY <1>1 DEF IsResult
<1> HIDE DEF P, Q
<1>4. KeepAt(Append(s, m), P) = IF Len(s) + 1 \in P THEN Append(KeepAt(s, Q), m) ELSE KeepAt(s, Q)
  BY <1>2, KeepAtAppend
<1> QED BY <1>3, <1>4 DEF Rest, P, Q

\* Appending results: the type, and what is not a result.
LEMMA AppendResultsFacts ==
  ASSUME NEW C, NEW o \in Seq(Sound(C)), NEW X \in SUBSET C
  PROVE  append_tool_results(o, X) \in Seq(Sound(C)) /\ Rest(append_tool_results(o, X)) = Rest(o)
<1>1. CASE X = {}
  BY <1>1 DEF append_tool_results
<1>2. CASE X # {}
  <2>1. Results(X) \in Sound(C) /\ IsResult(Results(X))
    BY <1>2, MessageFacts, RoleFacts DEF IsResult
  <2>2. append_tool_results(o, X) = Append(o, Results(X))
    BY <1>2 DEF append_tool_results
  <2>3. Rest(Append(o, Results(X))) = Rest(o)
    BY <2>1, RestAppend
  <2> QED BY <2>1, <2>2, <2>3
<1> QED BY <1>1, <1>2

\* A step of the pass keeps its outcome in order.
LEMMA RepairStepKeeps ==
  ASSUME NEW C, NEW acc, acc.out \in Seq(Sound(C)), acc.pending \in SUBSET C,
         InOrder(acc.out, acc.pending), NEW m \in Sound(C)
  PROVE  /\ RepairStep(acc, m).out \in Seq(Sound(C)) /\ RepairStep(acc, m).pending \in SUBSET C
         /\ InOrder(RepairStep(acc, m).out, RepairStep(acc, m).pending)
         /\ Rest(RepairStep(acc, m).out) = IF IsResult(m) THEN Rest(acc.out) ELSE Append(Rest(acc.out), m)
<1>1. PICK o \in Seq(Sound(C)) : o = acc.out
  OBVIOUS
<1>2. PICK X \in SUBSET C : X = acc.pending
  OBVIOUS
<1>3. o \in Seq(Messages(C)) /\ m \in Messages(C) /\ m.ids \subseteq C
  <2>1. Sound(C) \subseteq Messages(C)
    BY DEF Sound
  <2> QED BY <2>1, SeqMonotonic, MessageFacts
<1>4. InOrder(o, X)
  BY <1>1, <1>2
<1>5. CASE IsResult(m)
  <2>1. /\ RepairStep(acc, m).out = append_tool_results(o, m.ids \cap X)
        /\ RepairStep(acc, m).pending = X \ (m.ids \cap X)
    BY <1>1, <1>2, <1>5 DEF RepairStep, IsResult
  <2>2. m.ids \cap X \in SUBSET X /\ m.ids \cap X \in SUBSET C
    OBVIOUS
  <2>3. InOrder(append_tool_results(o, m.ids \cap X), X \ (m.ids \cap X))
    BY <1>3, <1>4, <2>2, InOrderResults
  <2> QED BY <1>1, <1>5, <2>1, <2>2, <2>3, AppendResultsFacts
<1>6. CASE ~IsResult(m)
  <2>1. PICK p : p = append_tool_results(o, X)
    OBVIOUS
  <2>2. RepairStep(acc, m).out = Append(p, m) /\ RepairStep(acc, m).pending = Uses(m)
    BY <1>1, <1>2, <1>6, <2>1 DEF RepairStep, IsResult
  <2>3. p \in Seq(Sound(C)) /\ Rest(p) = Rest(o)
    BY <2>1, AppendResultsFacts
  <2>4. p \in Seq(Messages(C))
    BY <2>3, SeqMonotonic DEF Sound
  <2>5. InOrder(p, {})
    <3>1. InOrder(append_tool_results(o, X), X \ X)
      BY <1>3, <1>4, InOrderResults
    <3> QED BY <2>1, <3>1
  <2>6. InOrder(Append(p, m), Uses(m))
    BY <1>3, <1>6, <2>4, <2>5, InOrderPaired, InOrderMessage
  <2>7. Rest(Append(p, m)) = Append(Rest(o), m)
    BY <1>6, <2>3, RestAppend
  <2>8. Append(p, m) \in Seq(Sound(C)) /\ Uses(m) \in SUBSET C
    BY <1>3, <2>3 DEF Uses
  <2> QED BY <1>1, <1>6, <2>2, <2>6, <2>7, <2>8
<1> QED BY <1>5, <1>6

\* The outcome of the pass is paired, and nothing but results is lost or reordered.
LEMMA RepairCorrect ==
  ASSUME NEW C, NEW h \in Seq(Sound(C))
  PROVE  /\ repair_orphan_tool_results(h) \in Seq(Sound(C))
         /\ Paired(repair_orphan_tool_results(h))
         /\ Rest(repair_orphan_tool_results(h)) = Rest(h)
<1>1. PICK f : f = RepairPass(h)
  OBVIOUS
<1> DEFINE P == {i \in DOMAIN h : h[i].role # "results"}
<1>2. PICK k : k = Keeping(h, P)
  OBVIOUS
<1>3. Len(h) \in Nat /\ DOMAIN h = 1..Len(h) /\ \A n \in 1..Len(h) : h[n] \in Sound(C)
  OBVIOUS
<1>4. /\ f[0] = [out |-> <<>>, pending |-> {}]
      /\ \A n \in 0..(Len(h) - 1) : f[n + 1] = RepairStep(f[n], h[n + 1])
  BY <1>1, <1>3, RepairPassSteps
<1>5. /\ k[0] = <<>>
      /\ \A n \in 0..(Len(h) - 1) : k[n + 1] = IF n + 1 \in P THEN Append(k[n], h[n + 1]) ELSE k[n]
  BY <1>2, <1>3, KeepingSteps
<1> DEFINE S == {n \in 0..Len(h) : /\ f[n].out \in Seq(Sound(C)) /\ f[n].pending \in SUBSET C
                                   /\ InOrder(f[n].out, f[n].pending) /\ Rest(f[n].out) = k[n]}
<1>6. 0 \in S
  <2>1. <<>> \in Seq(Sound(C)) /\ <<>> \in Seq(Messages(C)) /\ Len(<<>>) = 0
    OBVIOUS
  <2>2. Paired(<<>>)
    BY DEF Paired
  <2>3. Rest(<<>>) = <<>>
    BY <2>1, KeepingSteps DEF Rest, KeepAt
  <2>4. InOrder(<<>>, {})
    BY <2>2 DEF InOrder
  <2>5. f[0].out = <<>> /\ f[0].pending = {} /\ 0 \in 0..Len(h)
    BY <1>3, <1>4
  <2> QED BY <1>5, <2>1, <2>3, <2>4, <2>5
<1>7. ASSUME NEW n \in 0..(Len(h) - 1), n \in S PROVE n + 1 \in S
  <2>1. h[n + 1] \in Sound(C) /\ n + 1 \in 0..Len(h) /\ n + 1 \in DOMAIN h
    BY <1>3
  <2>2. n + 1 \in P <=> ~IsResult(h[n + 1])
    BY <2>1 DEF IsResult
  <2>3. PICK acc : acc = f[n]
    OBVIOUS
  <2>4. /\ acc.out \in Seq(Sound(C)) /\ acc.pending \in SUBSET C
        /\ InOrder(acc.out, acc.pending) /\ Rest(acc.out) = k[n]
    BY <1>7, <2>3
  <2>5. f[n + 1] = RepairStep(acc, h[n + 1])
    BY <1>4, <2>3
  <2>6. k[n + 1] = IF IsResult(h[n + 1]) THEN k[n] ELSE Append(k[n], h[n + 1])
    BY <1>5, <2>2
  <2> HIDE DEF P
  <2>7. /\ RepairStep(acc, h[n + 1]).out \in Seq(Sound(C)) /\ RepairStep(acc, h[n + 1]).pending \in SUBSET C
        /\ InOrder(RepairStep(acc, h[n + 1]).out, RepairStep(acc, h[n + 1]).pending)
        /\ Rest(RepairStep(acc, h[n + 1]).out) =
             IF IsResult(h[n + 1]) THEN Rest(acc.out) ELSE Append(Rest(acc.out), h[n + 1])
    BY <2>1, <2>4, RepairStepKeeps, SMTT(30)
  <2> QED BY <2>1, <2>4, <2>5, <2>6, <2>7
<1>8. Len(h) \in S
  <2>1. \A n \in 0..(Len(h) - 1) : n \in S => n + 1 \in S
    BY <1>7
  <2> HIDE DEF S
  <2>2. 0..Len(h) \subseteq S
    BY <1>3, <1>6, <2>1, Positions
  <2> QED BY <1>3, <2>2
<1>9. PICK o \in Seq(Sound(C)) : o = f[Len(h)].out
  BY <1>8
<1>10. PICK X \in SUBSET C : X = f[Len(h)].pending
  BY <1>8
<1>11. InOrder(o, X) /\ Rest(o) = Rest(h)
  BY <1>2, <1>8, <1>9, <1>10 DEF Rest, KeepAt
<1>12. repair_orphan_tool_results(h) = append_tool_results(o, X)
  BY <1>1, <1>9, <1>10 DEF repair_orphan_tool_results
<1>13. o \in Seq(Messages(C)) /\ append_tool_results(o, X) \in Seq(Sound(C))
  BY SeqMonotonic, AppendResultsFacts DEF Sound
<1>14. append_tool_results(o, X) \in Seq(Messages(C))
  BY <1>13, SeqMonotonic DEF Sound
<1>15. InOrder(append_tool_results(o, X), {})
  <2>1. InOrder(append_tool_results(o, X), X \ X)
    BY <1>11, <1>13, InOrderResults
  <2> QED BY <2>1
<1> QED BY <1>11, <1>12, <1>13, <1>14, <1>15, InOrderPaired, AppendResultsFacts

\* After n messages of a paired history, X is what its last assistant message still
\* waits for.
Waiting(h, n, X) ==
  \/ \E a \in 1..n : /\ IsAssistant(h[a]) /\ \A j \in (a + 1)..n : IsResult(h[j])
                     /\ X = h[a].ids \ AnsweredIn(h, a + 1, n)
  \/ X = {} /\ (n = 0 \/ (~IsAssistant(h[n]) /\ ~IsResult(h[n])))

\* At a message that is not a result, and at the end, nothing is waited for.
LEMMA WaitingEnds ==
  ASSUME NEW C, NEW h \in Seq(Messages(C)), Paired(h), NEW n \in 0..Len(h), NEW X, Waiting(h, n, X),
         n = Len(h) \/ ~IsResult(h[n + 1])
  PROVE  X = {}
<1>1. Len(h) \in Nat
  OBVIOUS
<1>2. ASSUME NEW a \in 1..n, IsAssistant(h[a]), \A j \in (a + 1)..n : IsResult(h[j]),
             X = h[a].ids \ AnsweredIn(h, a + 1, n)
      PROVE  X = {}
  <2>1. UsesAnswered(h, a)
    BY <1>1, <1>2, PairedMeaning
  <2>2. PICK m \in a..Len(h) :
          /\ \A j \in (a + 1)..m : IsResult(h[j])
          /\ AnsweredIn(h, a + 1, m) = h[a].ids
          /\ m < Len(h) => ~IsResult(h[m + 1])
    BY <2>1 DEF UsesAnswered
  <2>3. ~(m < n)
    <3> SUFFICES ASSUME m < n PROVE FALSE
      OBVIOUS
    <3>1. m + 1 \in (a + 1)..n /\ m < Len(h)
      BY <1>1
    <3> QED BY <1>2, <2>2, <3>1
  <2>4. ~(n < m)
    <3> SUFFICES ASSUME n < m PROVE FALSE
      OBVIOUS
    <3>1. n + 1 \in (a + 1)..m /\ n # Len(h)
      BY <1>1
    <3> QED BY <2>2, <3>1
  <2>5. m = n
    BY <1>1, <2>3, <2>4
  <2> QED BY <1>2, <2>2, <2>5
<1> QED BY <1>2 DEF Waiting

\* Every result of a paired history is waited for.
LEMMA WaitingResult ==
  ASSUME NEW C, NEW h \in Seq(Messages(C)), Paired(h), NEW n \in 0..(Len(h) - 1), NEW X,
         Waiting(h, n, X), IsResult(h[n + 1])
  PROVE  h[n + 1].ids \subseteq X /\ Waiting(h, n + 1, X \ h[n + 1].ids)
<1>1. Len(h) \in Nat /\ n + 1 \in 1..Len(h) /\ n + 1 - 1 = n
  OBVIOUS
<1>2. ResultFollows(h, n + 1)
  BY <1>1, PairedMeaning
<1>3. PICK b \in 1..n :
        /\ IsAssistant(h[b]) /\ \A j \in (b + 1)..(n + 1) : IsResult(h[j])
        /\ h[n + 1].ids \cap AnsweredIn(h, b + 1, n) = {}
  BY <1>1, <1>2 DEF ResultFollows
<1>4. \A j : ~(IsAssistant(h[j]) /\ IsResult(h[j]))
  BY DEF IsAssistant, IsResult
<1>5. ~(n = 0 \/ (~IsAssistant(h[n]) /\ ~IsResult(h[n])))
  <2>1. n = b \/ n \in (b + 1)..(n + 1)
    BY <1>1
  <2> QED BY <1>3, <2>1
<1>6. PICK a \in 1..n : /\ IsAssistant(h[a]) /\ \A j \in (a + 1)..n : IsResult(h[j])
                        /\ X = h[a].ids \ AnsweredIn(h, a + 1, n)
  BY <1>5 DEF Waiting
<1>7. a = b
  <2>1. ~(a < b)
    <3>1. a < b => b \in (a + 1)..n
      OBVIOUS
    <3> QED BY <1>3, <1>4, <1>6, <3>1
  <2>2. ~(b < a)
    <3>1. b < a => a \in (b + 1)..(n + 1)
      OBVIOUS
    <3> QED BY <1>3, <1>4, <1>6, <3>1
  <2> QED BY <2>1, <2>2
<1>8. UsesAnswered(h, a)
  BY <1>1, <1>6, PairedMeaning
<1>9. PICK m \in a..Len(h) :
        /\ \A j \in (a + 1)..m : IsResult(h[j])
        /\ AnsweredIn(h, a + 1, m) = h[a].ids
        /\ m < Len(h) => ~IsResult(h[m + 1])
  BY <1>8 DEF UsesAnswered
<1>10. n + 1 \in (a + 1)..m
  <2>1. ~(m < n + 1)
    <3> SUFFICES ASSUME m < n + 1 PROVE FALSE
      OBVIOUS
    <3>1. m + 1 \in (b + 1)..(n + 1) /\ m < Len(h)
      BY <1>1, <1>7
    <3> QED BY <1>3, <1>9, <3>1
  <2> QED BY <1>1, <2>1
<1>11. h[n + 1].ids \subseteq h[a].ids
  <2>1. \A c \in h[n + 1].ids : c \in AnsweredIn(h, a + 1, m)
    BY <1>10, AnsweredMember DEF IsResult
  <2> QED BY <1>9, <2>1
<1>12. h[n + 1].ids \subseteq X
  BY <1>3, <1>6, <1>7, <1>11
<1>13. AnsweredIn(h, a + 1, n + 1) = AnsweredIn(h, a + 1, n) \cup h[n + 1].ids
  <2>1. Answers(h[n + 1]) = h[n + 1].ids
    BY DEF Answers, IsResult
  <2>2. a + 1 \in Int /\ n \in Int /\ a + 1 <= n + 1
    BY <1>1
  <2>3. AnsweredIn(h, a + 1, n + 1) = AnsweredIn(h, a + 1, n) \cup Answers(h[n + 1])
    BY <2>2, AnsweredNext
  <2> QED BY <2>1, <2>3
<1>14. X \ h[n + 1].ids = h[a].ids \ AnsweredIn(h, a + 1, n + 1)
  BY <1>6, <1>13
<1>15. a \in 1..(n + 1) /\ \A j \in (a + 1)..(n + 1) : IsResult(h[j])
  BY <1>3, <1>7
<1> QED BY <1>6, <1>12, <1>14, <1>15 DEF Waiting

\* The pass leaves a paired history as it is.
LEMMA RepairIdle ==
  ASSUME NEW C, NEW h \in Seq(Sound(C)), Paired(h)
  PROVE  repair_orphan_tool_results(h) = h
<1>1. PICK f : f = RepairPass(h)
  OBVIOUS
<1>2. Len(h) \in Nat /\ \A n \in 1..Len(h) : h[n] \in Sound(C)
  OBVIOUS
<1>3. /\ f[0] = [out |-> <<>>, pending |-> {}]
      /\ \A n \in 0..(Len(h) - 1) : f[n + 1] = RepairStep(f[n], h[n + 1])
  BY <1>1, <1>2, RepairPassSteps
<1>4. h \in Seq(Messages(C))
  BY SeqMonotonic DEF Sound
<1> DEFINE S == {n \in 0..Len(h) : f[n].out = SubSeq(h, 1, n) /\ Waiting(h, n, f[n].pending)}
<1>5. 0 \in S
  <2>1. f[0].out = <<>> /\ f[0].pending = {} /\ 0 \in 0..Len(h)
    BY <1>2, <1>3
  <2>2. SubSeq(h, 1, 0) = <<>>
    BY SubSeqEmpty
  <2> QED BY <2>1, <2>2 DEF Waiting
<1>6. ASSUME NEW n \in 0..(Len(h) - 1), n \in S PROVE n + 1 \in S
  <2>1. PICK m : m = h[n + 1]
    OBVIOUS
  <2>2. PICK o : o = f[n].out
    OBVIOUS
  <2>3. PICK X : X = f[n].pending
    OBVIOUS
  <2>4. o = SubSeq(h, 1, n) /\ Waiting(h, n, X)
    BY <1>6, <2>2, <2>3
  <2>5. m \in Sound(C) /\ n + 1 \in 0..Len(h) /\ n \in 0..Len(h)
    BY <1>2, <2>1
  <2>6. SubSeq(h, 1, n + 1) = Append(o, m)
    BY <1>2, <2>1, <2>4
  <2>9. f[n + 1] = RepairStep(f[n], m)
    BY <1>3, <2>1
  <2>7. CASE IsResult(m)
    <3>1. m.ids \subseteq X /\ Waiting(h, n + 1, X \ m.ids)
      BY <1>4, <2>1, <2>4, <2>7, WaitingResult
    <3>2. m.ids \cap X = m.ids /\ m.ids # {} /\ m = Results(m.ids)
      BY <2>5, <2>7, <3>1, MessageFacts DEF IsResult, Sound
    <3>3. append_tool_results(o, m.ids \cap X) = Append(o, m)
      BY <3>2 DEF append_tool_results
    <3>4. f[n + 1].out = Append(o, m) /\ f[n + 1].pending = X \ m.ids
      <4>1. RepairStep(f[n], m) = [out |-> append_tool_results(f[n].out, m.ids \cap f[n].pending),
                                   pending |-> f[n].pending \ m.ids]
        BY <2>7 DEF RepairStep, IsResult
      <4>2. append_tool_results(f[n].out, m.ids \cap f[n].pending) = Append(o, m)
        BY <2>2, <2>3, <3>3
      <4>3. f[n + 1] = [out |-> Append(o, m), pending |-> X \ m.ids]
        BY <2>9, <2>3, <4>1, <4>2
      <4> QED BY <4>3
    <3> QED BY <2>5, <2>6, <3>1, <3>4
  <2>8. CASE ~IsResult(m)
    <3>1. X = {}
      BY <1>4, <2>1, <2>4, <2>5, <2>8, WaitingEnds
    <3>2. append_tool_results(o, X) = o
      BY <3>1 DEF append_tool_results
    <3>3. f[n + 1].out = Append(o, m) /\ f[n + 1].pending = Uses(m)
      BY <2>9, <2>2, <2>3, <2>8, <3>2 DEF RepairStep, IsResult
    <3>4. Waiting(h, n + 1, Uses(m))
      <4>1. CASE IsAssistant(m)
        <5>1. AnsweredIn(h, n + 1 + 1, n + 1) = {}
          BY AnsweredNone
        <5>2. Uses(m) = h[n + 1].ids \ AnsweredIn(h, n + 1 + 1, n + 1) /\ IsAssistant(h[n + 1])
          BY <2>1, <4>1, <5>1 DEF Uses
        <5>3. n + 1 \in 1..(n + 1) /\ \A j \in (n + 1 + 1)..(n + 1) : IsResult(h[j])
          OBVIOUS
        <5> QED BY <5>2, <5>3 DEF Waiting
      <4>2. CASE ~IsAssistant(m)
        BY <2>1, <2>8, <4>2 DEF Waiting, Uses
      <4> QED BY <4>1, <4>2
    <3> QED BY <2>5, <2>6, <3>3, <3>4
  <2> QED BY <2>7, <2>8
<1>7. Len(h) \in S
  <2>1. \A n \in 0..(Len(h) - 1) : n \in S => n + 1 \in S
    BY <1>6
  <2> HIDE DEF S
  <2>2. 0..Len(h) \subseteq S
    BY <1>2, <1>5, <2>1, Positions
  <2> QED BY <1>2, <2>2
<1>8. f[Len(h)].out = h
  BY <1>7, SubSeqFull
<1>9. f[Len(h)].pending = {}
  BY <1>2, <1>4, <1>7, WaitingEnds
<1> QED BY <1>1, <1>8, <1>9 DEF repair_orphan_tool_results, append_tool_results

-----------------------------------------------------------------------------
(* What a request carries, message by message *)

ResultOrContext(m) == m.role \in {"results", "context"}

\* The use c of the assistant message at i is answered before the next assistant message.
Answered(h, i, c) ==
  \E j \in (i + 1)..Len(h) :
    IsResult(h[j]) /\ c \in h[j].ids /\ \A k \in (i + 1)..j : ~IsAssistant(h[k])

\* Every use is answered, but for those in L.
Closed(h, L) == \A i \in 1..Len(h) : \A c \in Uses(h[i]) \ L : Answered(h, i, c)

\* The results at i follow their own uses, or are at the head of a compacted history.
Own(h, i, a) ==
  a \in 1..(i - 1) /\ IsAssistant(h[a]) /\ h[i].ids \subseteq h[a].ids
AtHead(h, i) == h[1] = Note /\ \A j \in 2..i : ResultOrContext(h[j])

\* So do all results that are not in L.
Follow(h, L) ==
  \A i \in 1..Len(h) : IsResult(h[i]) =>
    \/ \E a \in 1..(i - 1) : Own(h, i, a) /\ \A j \in (a + 1)..i : ResultOrContext(h[j])
    \/ AtHead(h, i)
    \/ h[i].ids \subseteq L

\* Results for a call in D are the first after their uses.
First(h, D) ==
  \A i \in 1..Len(h) : IsResult(h[i]) /\ h[i].ids \cap D # {} =>
    \/ \E a \in 1..(i - 1) : Own(h, i, a) /\ \A j \in (a + 1)..(i - 1) : h[j].role = "context"
    \/ AtHead(h, i)

\* A use in D that is not answered is in the last message, but for user executions.
Settled(h, D) ==
  \A a \in 1..Len(h) : IsAssistant(h[a]) => \A c \in h[a].ids \cap D :
    Answered(h, a, c) \/ \A j \in (a + 1)..Len(h) : h[j].role = "context"

\* The last message, but for user executions, is the assistant message at a; it asks for
\* ids, and nothing else in the history is about them.
Open(h, a, ids) ==
  /\ a \in 1..Len(h) /\ IsAssistant(h[a]) /\ h[a].ids = ids
  /\ \A j \in (a + 1)..Len(h) : h[j].role = "context"
  /\ \A i \in 1..Len(h) \ {a} : h[i].ids \cap ids = {}
-----------------------------------------------------------------------------
(* Appending *)

\* p is h with m appended.
Grown(p, h, m) ==
  /\ Len(h) \in Nat /\ Len(p) = Len(h) + 1 /\ p[Len(h) + 1] = m
  /\ \A j \in 1..Len(h) : p[j] = h[j]

LEMMA AppendGrown ==
  ASSUME NEW M, NEW h \in Seq(M), NEW m \in M PROVE Grown(Append(h, m), h, m)
BY DEF Grown

\* Smaller and larger sets of calls.
LEMMA RequestMonotone ==
  ASSUME NEW h, NEW L, NEW K, L \subseteq K
  PROVE  /\ Closed(h, L) => Closed(h, K)
         /\ Follow(h, L) => Follow(h, K)
         /\ First(h, K) => First(h, L)
         /\ Settled(h, K) => Settled(h, L)
<1>1. Closed(h, L) => Closed(h, K)
  BY DEF Closed
<1>2. Follow(h, L) => Follow(h, K)
  BY DEF Follow
<1>3. First(h, K) => First(h, L)
  <2> SUFFICES ASSUME First(h, K), NEW i \in 1..Len(h), IsResult(h[i]), h[i].ids \cap L # {}
               PROVE  \/ \E a \in 1..(i - 1) : Own(h, i, a) /\ \A j \in (a + 1)..(i - 1) : h[j].role = "context"
                      \/ AtHead(h, i)
    BY DEF First
  <2>1. h[i].ids \cap K # {}
    OBVIOUS
  <2> QED BY <2>1 DEF First
<1>4. Settled(h, K) => Settled(h, L)
  BY DEF Settled
<1> QED BY <1>1, <1>2, <1>3, <1>4

\* When every use is answered, none is left in the last message.
LEMMA ClosedSettled ==
  ASSUME NEW h, NEW L, NEW D, Closed(h, L), D \cap L = {} PROVE Settled(h, D)
BY DEF Closed, Settled, Uses

\* What an appended message leaves as it is.
LEMMA GrownKeeps ==
  ASSUME NEW p, NEW h, NEW m, Grown(p, h, m), NEW i \in 1..Len(h)
  PROVE  /\ \A c : Answered(h, i, c) => Answered(p, i, c)
         /\ AtHead(h, i) => AtHead(p, i)
         /\ \A a \in 1..(i - 1) : Own(h, i, a) => Own(p, i, a)
<1>0. Len(h) \in Nat /\ Len(p) = Len(h) + 1 /\ \A j \in 1..Len(h) : p[j] = h[j]
  BY DEF Grown
<1>1. ASSUME NEW c, Answered(h, i, c) PROVE Answered(p, i, c)
  <2>1. PICK j \in (i + 1)..Len(h) :
          IsResult(h[j]) /\ c \in h[j].ids /\ \A k \in (i + 1)..j : ~IsAssistant(h[k])
    BY <1>1 DEF Answered
  <2>2. j \in (i + 1)..Len(p) /\ p[j] = h[j] /\ \A k \in (i + 1)..j : p[k] = h[k]
    BY <1>0
  <2> QED BY <2>1, <2>2 DEF Answered
<1>2. AtHead(h, i) => AtHead(p, i)
  BY <1>0 DEF AtHead
<1>3. \A a \in 1..(i - 1) : Own(h, i, a) => Own(p, i, a)
  BY <1>0 DEF Own
<1> QED BY <1>1, <1>2, <1>3

LEMMA GrownClosed ==
  ASSUME NEW p, NEW h, NEW m, Grown(p, h, m), NEW L, Closed(h, L), Uses(m) \subseteq L
  PROVE  Closed(p, L)
<1>1. \A i \in 1..Len(p) : i \in 1..Len(h) \/ i = Len(h) + 1
  BY DEF Grown
<1>2. \A i \in 1..Len(h) : p[i] = h[i]
  BY DEF Grown
<1>3. p[Len(h) + 1] = m
  BY DEF Grown
<1> QED BY <1>1, <1>2, <1>3, GrownKeeps DEF Closed

\* A message that is no result.
LEMMA GrownFollow ==
  ASSUME NEW p, NEW h, NEW m, Grown(p, h, m),
         \/ ~IsResult(m)
         \/ \E a \in 1..Len(h) : /\ IsAssistant(h[a]) /\ m.ids \subseteq h[a].ids
                                 /\ \A j \in (a + 1)..Len(h) : h[j].role = "context"
  PROVE  /\ \A L : Follow(h, L) => Follow(p, L)
         /\ \A D : First(h, D) => First(p, D)
<1>0. Len(h) \in Nat /\ Len(p) = Len(h) + 1 /\ p[Len(h) + 1] = m /\ \A j \in 1..Len(h) : p[j] = h[j]
  BY DEF Grown
<1>1. ASSUME NEW i \in 1..Len(p), IsResult(p[i]), i \notin 1..Len(h)
      PROVE  \E a \in 1..(i - 1) : Own(p, i, a) /\ \A j \in (a + 1)..(i - 1) : p[j].role = "context"
  <2>1. i = Len(h) + 1 /\ p[i] = m
    BY <1>0, <1>1
  <2>2. PICK a \in 1..Len(h) : /\ IsAssistant(h[a]) /\ m.ids \subseteq h[a].ids
                               /\ \A j \in (a + 1)..Len(h) : h[j].role = "context"
    BY <1>1, <2>1
  <2>3. a \in 1..(i - 1) /\ p[a] = h[a] /\ \A j \in (a + 1)..(i - 1) : p[j] = h[j]
    BY <1>0, <2>1
  <2> QED BY <2>1, <2>2, <2>3, <1>0 DEF Own
<1>2. ASSUME NEW L, Follow(h, L) PROVE Follow(p, L)
  <2> SUFFICES ASSUME NEW i \in 1..Len(p), IsResult(p[i])
               PROVE  \/ \E a \in 1..(i - 1) : Own(p, i, a) /\ \A j \in (a + 1)..i : ResultOrContext(p[j])
                      \/ AtHead(p, i)
                      \/ p[i].ids \subseteq L
    BY DEF Follow
  <2>1. CASE i \in 1..Len(h)
    <3>1. p[i] = h[i] /\ \A j \in 1..i : p[j] = h[j]
      BY <1>0, <2>1
    <3>2. \/ \E a \in 1..(i - 1) : Own(h, i, a) /\ \A j \in (a + 1)..i : ResultOrContext(h[j])
          \/ AtHead(h, i)
          \/ h[i].ids \subseteq L
      BY <1>2, <2>1, <3>1 DEF Follow
    <3>3. \A a \in 1..(i - 1) : \A j \in (a + 1)..i : p[j] = h[j]
      BY <3>1, <2>1
    <3> QED BY <2>1, <3>1, <3>2, <3>3, GrownKeeps
  <2>2. CASE i \notin 1..Len(h)
    <3>1. PICK a \in 1..(i - 1) : Own(p, i, a) /\ \A j \in (a + 1)..(i - 1) : p[j].role = "context"
      BY <1>1, <2>2
    <3>2. \A j \in (a + 1)..i : ResultOrContext(p[j])
      <4>1. \A j \in (a + 1)..i : j = i \/ j \in (a + 1)..(i - 1)
        BY <1>0
      <4> QED BY <3>1, <4>1 DEF ResultOrContext, IsResult
    <3> QED BY <3>1, <3>2
  <2> QED BY <2>1, <2>2
<1>3. ASSUME NEW D, First(h, D) PROVE First(p, D)
  <2> SUFFICES ASSUME NEW i \in 1..Len(p), IsResult(p[i]), p[i].ids \cap D # {}
               PROVE  \/ \E a \in 1..(i - 1) : Own(p, i, a) /\ \A j \in (a + 1)..(i - 1) : p[j].role = "context"
                      \/ AtHead(p, i)
    BY DEF First
  <2>1. CASE i \in 1..Len(h)
    <3>1. p[i] = h[i] /\ \A j \in 1..i : p[j] = h[j]
      BY <1>0, <2>1
    <3>2. \/ \E a \in 1..(i - 1) : Own(h, i, a) /\ \A j \in (a + 1)..(i - 1) : h[j].role = "context"
          \/ AtHead(h, i)
      BY <1>3, <2>1, <3>1 DEF First
    <3>3. \A a \in 1..(i - 1) : \A j \in (a + 1)..(i - 1) : p[j] = h[j]
      BY <3>1, <2>1
    <3> QED BY <2>1, <3>2, <3>3, GrownKeeps
  <2> QED BY <1>1, <2>1
<1> QED BY <1>2, <1>3

\* A user execution comes between nothing.
LEMMA GrownContext ==
  ASSUME NEW p, NEW h, NEW m, Grown(p, h, m), m.role = "context", m.ids = {}
  PROVE  /\ \A D : Settled(h, D) => Settled(p, D)
         /\ \A a, ids : Open(h, a, ids) => Open(p, a, ids)
<1>0. Len(h) \in Nat /\ Len(p) = Len(h) + 1 /\ p[Len(h) + 1] = m /\ \A j \in 1..Len(h) : p[j] = h[j]
  BY DEF Grown
<1>1. ASSUME NEW a \in 1..Len(h), \A j \in (a + 1)..Len(h) : h[j].role = "context"
      PROVE  \A j \in (a + 1)..Len(p) : p[j].role = "context"
  <2>1. \A j \in (a + 1)..Len(p) : j = Len(h) + 1 \/ j \in (a + 1)..Len(h)
    BY <1>0
  <2>2. \A j \in (a + 1)..Len(h) : p[j] = h[j]
    BY <1>0
  <2> QED BY <1>0, <1>1, <2>1, <2>2
<1>2. ASSUME NEW D, Settled(h, D) PROVE Settled(p, D)
  <2> SUFFICES ASSUME NEW a \in 1..Len(p), IsAssistant(p[a]), NEW c \in p[a].ids \cap D
               PROVE  Answered(p, a, c) \/ \A j \in (a + 1)..Len(p) : p[j].role = "context"
    BY DEF Settled
  <2>1. a \in 1..Len(h) /\ p[a] = h[a]
    BY <1>0
  <2>2. Answered(h, a, c) \/ \A j \in (a + 1)..Len(h) : h[j].role = "context"
    BY <1>2, <2>1 DEF Settled
  <2> QED BY <1>1, <2>1, <2>2, GrownKeeps
<1>3. ASSUME NEW a, NEW ids, Open(h, a, ids) PROVE Open(p, a, ids)
  <2>1. /\ a \in 1..Len(h) /\ IsAssistant(h[a]) /\ h[a].ids = ids
        /\ \A j \in (a + 1)..Len(h) : h[j].role = "context"
        /\ \A i \in 1..Len(h) \ {a} : h[i].ids \cap ids = {}
    BY <1>3 DEF Open
  <2>2. \A j \in (a + 1)..Len(p) : p[j].role = "context"
    BY <1>1, <2>1
  <2>3. \A i \in 1..Len(p) \ {a} : p[i].ids \cap ids = {}
    BY <1>0, <2>1
  <2> QED BY <1>0, <2>1, <2>2, <2>3 DEF Open
<1> QED BY <1>2, <1>3

\* An assistant message that asks for new calls.
LEMMA GrownUses ==
  ASSUME NEW p, NEW h, NEW m, Grown(p, h, m), IsAssistant(m), NEW L, Closed(h, L), NEW D, D \cap L = {}
  PROVE  /\ Settled(p, D)
         /\ (\A i \in 1..Len(h) : h[i].ids \cap m.ids = {}) => Open(p, Len(p), m.ids)
<1>0. Len(h) \in Nat /\ Len(p) = Len(h) + 1 /\ p[Len(h) + 1] = m /\ \A j \in 1..Len(h) : p[j] = h[j]
  BY DEF Grown
<1>1. ASSUME NEW a \in 1..Len(p), IsAssistant(p[a]), NEW c \in p[a].ids \cap D
      PROVE  Answered(p, a, c) \/ \A j \in (a + 1)..Len(p) : p[j].role = "context"
  <2>1. CASE a \in 1..Len(h)
    <3>1. p[a] = h[a] /\ c \in Uses(h[a]) \ L
      BY <1>0, <1>1, <2>1 DEF Uses
    <3> QED BY <2>1, <3>1, GrownKeeps DEF Closed
  <2>2. CASE a = Len(p)
    BY <1>0, <2>2
  <2> QED BY <1>0, <2>1, <2>2
<1>2. (\A i \in 1..Len(h) : h[i].ids \cap m.ids = {}) => Open(p, Len(p), m.ids)
  BY <1>0 DEF Open
<1> QED BY <1>1, <1>2 DEF Settled

\* The results of the last assistant message's calls, but for some that are lost.
LEMMA GrownResults ==
  ASSUME NEW p, NEW h, NEW m, Grown(p, h, m), IsResult(m), NEW a, NEW ids, Open(h, a, ids),
         NEW L, NEW U, Settled(h, U \ L), NEW K, ids \ m.ids \subseteq K, L \subseteq K,
         \A i \in 1..Len(h) : h[i].ids \subseteq U
  PROVE  Closed(p, K)
<1>0. Len(h) \in Nat /\ Len(p) = Len(h) + 1 /\ p[Len(h) + 1] = m /\ \A j \in 1..Len(h) : p[j] = h[j]
  BY DEF Grown
<1>1. /\ a \in 1..Len(h) /\ IsAssistant(h[a]) /\ h[a].ids = ids
      /\ \A j \in (a + 1)..Len(h) : h[j].role = "context"
  BY DEF Open
<1> SUFFICES ASSUME NEW i \in 1..Len(p), NEW c \in Uses(p[i]) \ K PROVE Answered(p, i, c)
  BY DEF Closed
<1>2. IsAssistant(p[i]) /\ c \in p[i].ids /\ i \in 1..Len(h) /\ p[i] = h[i]
  <2>1. IsAssistant(p[i]) /\ c \in p[i].ids
    BY DEF Uses
  <2>2. i # Len(h) + 1
    BY <1>0, <2>1 DEF IsResult, IsAssistant
  <2> QED BY <1>0, <2>1, <2>2
<1>3. CASE i = a
  <2>1. c \in m.ids
    BY <1>1, <1>2, <1>3
  <2>2. \A k \in (a + 1)..(Len(h) + 1) : ~IsAssistant(p[k])
    <3>1. \A k \in (a + 1)..(Len(h) + 1) : k = Len(h) + 1 \/ (k \in (a + 1)..Len(h) /\ p[k] = h[k])
      BY <1>0, <1>1
    <3> QED BY <1>0, <1>1, <3>1 DEF IsAssistant, IsResult
  <2>3. Len(h) + 1 \in (a + 1)..Len(p)
    BY <1>0, <1>1
  <2> QED BY <1>0, <1>3, <2>1, <2>2, <2>3 DEF Answered
<1>4. CASE i # a
  <2>1. c \in h[i].ids \cap (U \ L)
    BY <1>2
  <2>2. Answered(h, i, c) \/ \A j \in (i + 1)..Len(h) : h[j].role = "context"
    BY <1>2, <2>1 DEF Settled
  <2>3. ~(\A j \in (i + 1)..Len(h) : h[j].role = "context")
    <3>1. a \in (i + 1)..Len(h) \/ i \in (a + 1)..Len(h)
      BY <1>0, <1>1, <1>2, <1>4
    <3> QED BY <1>1, <1>2, <3>1 DEF IsAssistant
  <2> QED BY <1>2, <2>2, <2>3, GrownKeeps
<1> QED BY <1>3, <1>4

\* All calls of the last assistant message are lost.
LEMMA NoResults ==
  ASSUME NEW h, Len(h) \in Nat, NEW a, NEW ids, Open(h, a, ids), NEW L, NEW U, Settled(h, U \ L), NEW K,
         ids \subseteq K, L \subseteq K, \A i \in 1..Len(h) : h[i].ids \subseteq U
  PROVE  Closed(h, K)
<1>1. /\ a \in 1..Len(h) /\ IsAssistant(h[a]) /\ h[a].ids = ids
      /\ \A j \in (a + 1)..Len(h) : h[j].role = "context"
  BY DEF Open
<1> SUFFICES ASSUME NEW i \in 1..Len(h), NEW c \in Uses(h[i]) \ K PROVE Answered(h, i, c)
  BY DEF Closed
<1>2. IsAssistant(h[i]) /\ c \in h[i].ids \cap (U \ L) /\ i # a
  BY <1>1 DEF Uses
<1>3. Answered(h, i, c) \/ \A j \in (i + 1)..Len(h) : h[j].role = "context"
  BY <1>2 DEF Settled
<1>4. a \in (i + 1)..Len(h) \/ i \in (a + 1)..Len(h)
  BY <1>1, <1>2
<1> QED BY <1>1, <1>2, <1>3, <1>4 DEF IsAssistant

\* _append_interrupted_tool_results: what it answers are calls of the last assistant
\* message.
LEMMA SealedKeeps ==
  ASSUME NEW C, NEW h \in Seq(Messages(C)), NEW D, First(h, D), Settled(h, D)
  PROVE  First(append_interrupted_tool_results(h), D) /\ Settled(append_interrupted_tool_results(h), D)
<1>1. PICK ids : ids = pending_tool_use_ids(h)
  OBVIOUS
<1>2. Len(h) \in Nat
  OBVIOUS
<1>3. CASE ids = {}
  BY <1>1, <1>3 DEF append_interrupted_tool_results, append_tool_results
<1>4. CASE ids # {}
  <2>1. PICK a : a = AssistantBefore(h, Len(h) + 1)
    OBVIOUS
  <2>2. a # 0 /\ ids = Uses(h[a]) \ AnsweredIn(h, a + 1, Len(h))
    BY <1>1, <1>4, <2>1 DEF pending_tool_use_ids
  <2>3. a \in 1..Len(h) /\ IsAssistant(h[a]) /\ \A j \in (a + 1)..Len(h) : ~IsAssistant(h[j])
    <3>1. Len(h) + 1 \in Nat /\ Len(h) + 1 - 1 = Len(h)
      BY <1>2
    <3> QED BY <2>1, <2>2, <3>1, AssistantBeforeFacts
  <2>4. ids \subseteq h[a].ids /\ ids = h[a].ids \ AnsweredIn(h, a + 1, Len(h))
    BY <2>2, <2>3 DEF Uses
  <2>5. PICK m : m = Results(ids)
    OBVIOUS
  <2>6. IsResult(m) /\ m.ids = ids
    BY <2>5, RoleFacts DEF IsResult
  <2>7. PICK p : p = Append(h, m)
    OBVIOUS
  <2>8. append_interrupted_tool_results(h) = p
    BY <1>1, <1>4, <2>5, <2>7 DEF append_interrupted_tool_results, append_tool_results
  <2>9. Grown(p, h, m)
    <3>1. h[a].ids \subseteq C
      BY <2>3, MessageFacts
    <3>2. m \in Messages(C)
      BY <2>4, <2>5, <3>1 DEF Messages, Results
    <3> QED BY <2>7, <3>2, AppendGrown
  <2>10. Len(p) = Len(h) + 1 /\ p[Len(h) + 1] = m /\ \A j \in 1..Len(h) : p[j] = h[j]
    BY <2>9 DEF Grown
  <2>11. ASSUME NEW c \in ids \cap D PROVE \A j \in (a + 1)..Len(h) : h[j].role = "context"
    <3>1. ~Answered(h, a, c)
      <4>1. ~(\E j \in (a + 1)..Len(h) : h[j].role = "results" /\ c \in h[j].ids)
        BY <2>4, AnsweredMember
      <4> QED BY <4>1 DEF Answered, IsResult
    <3> QED BY <2>3, <2>4, <3>1 DEF Settled
  <2>12. First(p, D)
    <3>1. CASE ids \cap D # {}
      <4>1. \A j \in (a + 1)..Len(h) : h[j].role = "context"
        BY <2>11, <3>1
      <4> QED BY <2>3, <2>4, <2>6, <2>9, <4>1, GrownFollow
    <3>2. CASE ids \cap D = {}
      <4> SUFFICES ASSUME NEW i \in 1..Len(p), IsResult(p[i]), p[i].ids \cap D # {}
                   PROVE  \/ \E b \in 1..(i - 1) : Own(p, i, b) /\ \A j \in (b + 1)..(i - 1) : p[j].role = "context"
                          \/ AtHead(p, i)
        BY DEF First
      <4>1. i \in 1..Len(h) /\ p[i] = h[i] /\ \A j \in 1..i : p[j] = h[j]
        BY <1>2, <2>6, <2>10, <3>2
      <4>2. \/ \E b \in 1..(i - 1) : Own(h, i, b) /\ \A j \in (b + 1)..(i - 1) : h[j].role = "context"
            \/ AtHead(h, i)
        BY <4>1 DEF First
      <4>3. \A b \in 1..(i - 1) : \A j \in (b + 1)..(i - 1) : p[j] = h[j]
        BY <4>1
      <4> QED BY <2>9, <4>1, <4>2, <4>3, GrownKeeps
    <3> QED BY <3>1, <3>2
  <2>13. Settled(p, D)
    <3> SUFFICES ASSUME NEW b \in 1..Len(p), IsAssistant(p[b]), NEW c \in p[b].ids \cap D
                 PROVE  Answered(p, b, c)
      BY DEF Settled
    <3>1. b # Len(h) + 1
      BY <2>6, <2>10 DEF IsAssistant, IsResult
    <3>2. b \in 1..Len(h) /\ p[b] = h[b]
      BY <1>2, <2>10, <3>1
    <3>3. Answered(h, b, c) \/ \A j \in (b + 1)..Len(h) : h[j].role = "context"
      BY <3>2 DEF Settled
    <3>4. CASE ~Answered(h, b, c)
      <4>1. \A j \in (b + 1)..Len(h) : h[j].role = "context"
        BY <3>3, <3>4
      <4>2. b = a
        <5>1. ~(a \in (b + 1)..Len(h)) /\ ~(b \in (a + 1)..Len(h))
          BY <2>3, <3>2, <4>1 DEF IsAssistant
        <5> QED BY <1>2, <2>3, <3>2, <5>1
      <4>3. c \in ids
        <5>1. ~(\E j \in (a + 1)..Len(h) : h[j].role = "results" /\ c \in h[j].ids)
          BY <4>1, <4>2
        <5> QED BY <2>4, <3>2, <4>2, <5>1, AnsweredMember
      <4>4. \A k \in (b + 1)..(Len(h) + 1) : ~IsAssistant(p[k])
        <5>1. \A k \in (b + 1)..(Len(h) + 1) : k = Len(h) + 1 \/ (k \in (b + 1)..Len(h) /\ p[k] = h[k])
          BY <1>2, <2>10, <3>2
        <5> QED BY <2>6, <2>10, <4>1, <5>1 DEF IsAssistant, IsResult
      <4>5. Len(h) + 1 \in (b + 1)..Len(p)
        BY <1>2, <2>10, <3>2
      <4> QED BY <2>6, <2>10, <4>3, <4>4, <4>5 DEF Answered
    <3> QED BY <2>9, <3>2, <3>4, GrownKeeps
  <2> QED BY <2>8, <2>12, <2>13
<1> QED BY <1>3, <1>4

\* pop_last_assistant: an answer with tool uses is never popped from a closed history,
\* and nothing depends on one without.
LEMMA PoppedKeeps ==
  ASSUME NEW C, NEW h \in Seq(Messages(C))
  PROVE  /\ \A L : Closed(h, L) => Closed(pop_last_assistant(h), L)
         /\ \A L : Follow(h, L) => Follow(pop_last_assistant(h), L)
         /\ \A D : First(h, D) => First(pop_last_assistant(h), D)
<1>1. CASE ~(h # <<>> /\ IsAssistant(Last(h)))
  BY <1>1 DEF pop_last_assistant
<1>2. CASE h # <<>> /\ IsAssistant(Last(h))
  <2>1. PICK p : p = pop_last_assistant(h)
    OBVIOUS
  <2>2. /\ Len(h) \in Nat /\ Len(h) > 0 /\ IsAssistant(h[Len(h)])
        /\ Len(p) = Len(h) - 1 /\ \A j \in 1..Len(p) : p[j] = h[j]
    <3>1. p = SubSeq(h, 1, Len(h) - 1) /\ IsAssistant(h[Len(h)])
      BY <1>2, <2>1 DEF pop_last_assistant, Front, Last
    <3>2. Len(h) \in Nat /\ Len(h) > 0
      BY <1>2
    <3>3. Len(p) = Len(h) - 1 /\ \A j \in 1..Len(p) : p[j] = h[j]
      <4>1. PICK n \in Nat : n = Len(h) - 1
        BY <3>2
      <4>2. \A j \in 1..n : h[j] \in Messages(C)
        BY <3>2, <4>1
      <4>3. /\ Len(SubSeq(h, 1, n)) = IF 1 <= n THEN n - 1 + 1 ELSE 0
            /\ \A j \in 1..(n - 1 + 1) : SubSeq(h, 1, n)[j] = h[1 + j - 1]
        BY <4>2, SubSeqProperties
      <4>4. n - 1 + 1 = n /\ \A j \in 1..n : 1 + j - 1 = j
        OBVIOUS
      <4>5. p = SubSeq(h, 1, n)
        BY <3>1, <4>1
      <4>6. Len(p) = n /\ \A j \in 1..n : p[j] = h[j]
        BY <4>3, <4>4, <4>5
      <4> QED BY <4>1, <4>6
    <3> QED BY <3>1, <3>2, <3>3
  <2>3. ASSUME NEW L, Closed(h, L) PROVE Closed(p, L)
    <3> SUFFICES ASSUME NEW i \in 1..Len(p), NEW c \in Uses(p[i]) \ L PROVE Answered(p, i, c)
      BY DEF Closed
    <3>1. i \in 1..Len(h) /\ p[i] = h[i]
      BY <2>2
    <3>2. PICK j \in (i + 1)..Len(h) :
            IsResult(h[j]) /\ c \in h[j].ids /\ \A k \in (i + 1)..j : ~IsAssistant(h[k])
      BY <2>3, <3>1 DEF Closed, Answered
    <3>3. j # Len(h)
      BY <2>2, <3>2
    <3>4. j \in (i + 1)..Len(p)
      <4>1. Len(p) = Len(h) - 1 /\ Len(h) \in Nat
        BY <2>2
      <4> QED BY <3>1, <3>3, <4>1
    <3>5. \A k \in (i + 1)..j : p[k] = h[k]
      BY <2>2, <3>1, <3>4
    <3>6. p[j] = h[j]
      BY <3>4, <3>5
    <3> QED BY <3>2, <3>4, <3>5, <3>6 DEF Answered
  <2>4. \A i \in 1..Len(p) : /\ i \in 1..Len(h) /\ p[i] = h[i] /\ \A j \in 1..i : p[j] = h[j]
                             /\ \A a \in 1..(i - 1) : (Own(h, i, a) => Own(p, i, a))
                             /\ AtHead(h, i) => AtHead(p, i)
    BY <2>2 DEF Own, AtHead
  <2>5. \A i \in 1..Len(p) : \A a \in 1..(i - 1) : \A j \in (a + 1)..i : p[j] = h[j]
    BY <2>2
  <2>6. ASSUME NEW L, Follow(h, L) PROVE Follow(p, L)
    <3> SUFFICES ASSUME NEW i \in 1..Len(p), IsResult(p[i])
                 PROVE  \/ \E a \in 1..(i - 1) : Own(p, i, a) /\ \A j \in (a + 1)..i : ResultOrContext(p[j])
                        \/ AtHead(p, i)
                        \/ p[i].ids \subseteq L
      BY DEF Follow
    <3>1. \/ \E a \in 1..(i - 1) : Own(h, i, a) /\ \A j \in (a + 1)..i : ResultOrContext(h[j])
          \/ AtHead(h, i)
          \/ h[i].ids \subseteq L
      BY <2>4, <2>6 DEF Follow
    <3> QED BY <2>4, <2>5, <3>1
  <2>7. ASSUME NEW D, First(h, D) PROVE First(p, D)
    <3> SUFFICES ASSUME NEW i \in 1..Len(p), IsResult(p[i]), p[i].ids \cap D # {}
                 PROVE  \/ \E a \in 1..(i - 1) : Own(p, i, a) /\ \A j \in (a + 1)..(i - 1) : p[j].role = "context"
                        \/ AtHead(p, i)
      BY DEF First
    <3>1. \/ \E a \in 1..(i - 1) : Own(h, i, a) /\ \A j \in (a + 1)..(i - 1) : h[j].role = "context"
          \/ AtHead(h, i)
      BY <2>4, <2>7 DEF First
    <3>2. \A a \in 1..(i - 1) : \A j \in (a + 1)..(i - 1) : j \in (a + 1)..i
      OBVIOUS
    <3> QED BY <2>4, <2>5, <3>1, <3>2
  <2> QED BY <2>1, <2>3, <2>6, <2>7
<1> QED BY <1>1, <1>2

-----------------------------------------------------------------------------
(* Compaction *)

\* The boundary leaves at least one message to keep.
LEMMA BoundaryFacts ==
  ASSUME NEW M, NEW h \in Seq(M)
  PROVE  /\ find_compaction_boundary(h) \in 0..Len(h)
         /\ find_compaction_boundary(h) = 0 \/ find_compaction_boundary(h) < Len(h)
<1>1. PICK N \in Nat : N = Len(h)
  OBVIOUS
<1>2. PICK s : s = [i \in 1..N |-> i]
  OBVIOUS
<1>3. s \in Seq(1..N)
  BY <1>2
<1> DEFINE P == {i \in DOMAIN h : IsUser(h[i])}
<1>4. PICK users : users = KeepAt(s, P)
  OBVIOUS
<1>5. users \in Seq(1..N)
  BY <1>3, <1>4, KeepAtProperties
<1>6. find_compaction_boundary(h) =
        IF Len(users) <= KeepRecent THEN 0 ELSE users[Len(users) - KeepRecent + 1] - 1
  BY <1>1, <1>2, <1>4 DEF find_compaction_boundary
<1> HIDE DEF P
<1>7. CASE Len(users) <= KeepRecent
  BY <1>1, <1>6, <1>7
<1>8. CASE ~(Len(users) <= KeepRecent)
  <2>1. Len(users) \in Nat /\ KeepRecent \in Nat \ {0}
    BY <1>5, HistoryAssumption
  <2>2. Len(users) - KeepRecent + 1 \in 1..Len(users)
    BY <1>8, <2>1
  <2>3. users[Len(users) - KeepRecent + 1] \in 1..N
    BY <1>5, <2>2
  <2> QED BY <1>1, <1>6, <1>8, <2>3
<1> QED BY <1>7, <1>8

\* g is what is left of h after b messages have been replaced by a summary.
Compacts(g, h, b) ==
  /\ Len(h) \in Nat /\ b \in 1..Len(h) /\ Len(g) = Len(h) - b + 1 /\ g[1] = Note
  /\ \A i \in 2..Len(g) : g[i] = h[b + i - 1]

LEMMA CompactedType ==
  ASSUME NEW C, NEW h \in Seq(Sound(C)), NEW b \in 1..Len(h)
  PROVE  /\ replace_with_compacted(h, b) \in Seq(Sound(C))
         /\ Compacts(replace_with_compacted(h, b), h, b)
<1>1. PICK N \in Nat : N = Len(h)
  OBVIOUS
<1>2. PICK t : t = SubSeq(h, b + 1, N)
  OBVIOUS
<1>3. b \in 1..N /\ b + 1 \in Int /\ \A i \in (b + 1)..N : h[i] \in Sound(C)
  BY <1>1
<1>4. /\ t \in Seq(Sound(C)) /\ Len(t) = IF b + 1 <= N THEN N - (b + 1) + 1 ELSE 0
      /\ \A i \in 1..(N - (b + 1) + 1) : t[i] = h[b + 1 + i - 1]
  BY <1>2, <1>3, SubSeqProperties
<1>5. Len(t) = N - b
  BY <1>3, <1>4
<1>6. PICK g : g = <<Note>> \o t
  OBVIOUS
<1>7. Note \in Sound(C)
  BY MessageFacts
<1>8. <<Note>> \in Seq(Sound(C)) /\ Len(<<Note>>) = 1 /\ <<Note>>[1] = Note
  BY <1>7
<1>9. g \in Seq(Sound(C)) /\ Len(g) = 1 + Len(t) /\ \A i \in 1..Len(g) : g[i] = IF i <= 1 THEN <<Note>>[i] ELSE t[i - 1]
  BY <1>4, <1>6, <1>8
<1>10. ASSUME NEW i \in 2..Len(g) PROVE g[i] = h[b + i - 1]
  <2>1. i - 1 \in 1..(N - (b + 1) + 1) /\ b + 1 + (i - 1) - 1 = b + i - 1
    BY <1>3, <1>5, <1>9
  <2>2. t[i - 1] = h[b + 1 + (i - 1) - 1]
    BY <1>4, <2>1
  <2>3. g[i] = t[i - 1]
    BY <1>5, <1>9, SMTT(30)
  <2> QED BY <2>1, <2>2, <2>3
<1>11. g[1] = Note /\ Len(g) = N - b + 1
  BY <1>3, <1>5, <1>8, <1>9
<1>12. replace_with_compacted(h, b) = g
  BY <1>1, <1>2, <1>6 DEF replace_with_compacted
<1> QED BY <1>1, <1>9, <1>10, <1>11, <1>12 DEF Compacts

\* Compaction: results whose uses are summarised are at the head of what is left.
LEMMA CompactedKeeps ==
  ASSUME NEW g, NEW h, NEW b, Compacts(g, h, b)
  PROVE  /\ \A L : Closed(h, L) => Closed(g, L)
         /\ \A L : Follow(h, L) => Follow(g, L)
         /\ \A D : First(h, D) => First(g, D)
<1>0. /\ Len(h) \in Nat /\ b \in 1..Len(h) /\ Len(g) = Len(h) - b + 1 /\ Len(g) \in Nat /\ g[1] = Note
      /\ \A i \in 2..Len(g) : g[i] = h[b + i - 1] /\ b + i - 1 \in 1..Len(h)
  BY DEF Compacts
<1>1. ~IsAssistant(g[1]) /\ ~IsResult(g[1])
  BY <1>0, RoleFacts DEF IsAssistant, IsResult
<1>2. ASSUME NEW L, Closed(h, L) PROVE Closed(g, L)
  <2> SUFFICES ASSUME NEW i \in 1..Len(g), NEW c \in Uses(g[i]) \ L PROVE Answered(g, i, c)
    BY DEF Closed
  <2>1. i \in 2..Len(g)
    BY <1>0, <1>1 DEF Uses
  <2>2. g[i] = h[b + i - 1] /\ b + i - 1 \in 1..Len(h)
    BY <1>0, <2>1
  <2>3. Answered(h, b + i - 1, c)
    BY <1>2, <2>2 DEF Closed
  <2>4. PICK j \in (b + i - 1 + 1)..Len(h) :
          IsResult(h[j]) /\ c \in h[j].ids /\ \A k \in (b + i - 1 + 1)..j : ~IsAssistant(h[k])
    BY <2>3 DEF Answered
  <2>5. PICK x \in Int : x = j - b + 1
    BY <1>0
  <2>6. x \in (i + 1)..Len(g) /\ j = b + x - 1
    BY <1>0, <2>1, <2>4, <2>5
  <2>7. ASSUME NEW k \in (i + 1)..x PROVE ~IsAssistant(g[k])
    <3>1. /\ Len(g) \in Nat /\ b \in Nat /\ i \in Int /\ 2 <= i /\ k \in Int /\ i + 1 <= k /\ k <= x
          /\ x \in Int /\ x <= Len(g) /\ j = b + x - 1
      BY <1>0, <2>1, <2>6
    <3>2. k \in 2..Len(g) /\ b + k - 1 \in (b + i - 1 + 1)..j
      BY <3>1
    <3> QED BY <1>0, <2>4, <3>2
  <2>8. g[x] = h[j]
    BY <1>0, <2>1, <2>6
  <2> QED BY <2>4, <2>6, <2>7, <2>8 DEF Answered
<1>3. ASSUME NEW i \in 1..Len(g), IsResult(g[i])
      PROVE  i \in 2..Len(g) /\ b + i - 1 \in 2..Len(h) /\ g[i] = h[b + i - 1]
  <2>1. i # 1
    BY <1>1, <1>3
  <2>2. i \in 2..Len(g)
    BY <1>0, <2>1
  <2>3. b + i - 1 \in 2..Len(h)
    BY <1>0, <2>2
  <2> QED BY <1>0, <2>2, <2>3
<1>4. ASSUME NEW i \in 2..Len(g), NEW q \in 2..Len(h), q = b + i - 1, NEW a \in 1..(q - 1), Own(h, q, a), b < a
      PROVE  \E e \in 1..(i - 1) :
               /\ Own(g, i, e) /\ \A j \in (e + 1)..i : g[j] = h[b + j - 1] /\ b + j - 1 \in (a + 1)..q
               /\ \A j \in (e + 1)..(i - 1) : g[j] = h[b + j - 1] /\ b + j - 1 \in (a + 1)..(q - 1)
  <2>1. PICK e \in Int : e = a - b + 1
    BY <1>0
  <2>2. e \in 2..(i - 1) /\ b + e - 1 = a /\ e \in 2..Len(g) /\ e \in 1..(i - 1)
    BY <1>0, <1>4, <2>1
  <2>3. g[e] = h[a] /\ g[i] = h[q]
    BY <1>0, <1>4, <2>2
  <2>4. Own(g, i, e)
    BY <1>4, <2>2, <2>3 DEF Own
  <2>5. ASSUME NEW j \in (e + 1)..i
        PROVE  g[j] = h[b + j - 1] /\ b + j - 1 \in (a + 1)..q /\ (j <= i - 1 => b + j - 1 \in (a + 1)..(q - 1))
    <3>1. j \in 2..Len(g)
      BY <1>0, <2>2
    <3>2. b + j - 1 \in (a + 1)..q /\ (j <= i - 1 => b + j - 1 \in (a + 1)..(q - 1))
      BY <1>0, <1>4, <2>2
    <3> QED BY <1>0, <3>1, <3>2
  <2>6. \A j \in (e + 1)..(i - 1) : j \in (e + 1)..i /\ j <= i - 1
    BY <2>2
  <2> QED BY <2>2, <2>4, <2>5, <2>6
<1>5. ASSUME NEW i \in 2..Len(g), IsResult(g[i]), NEW q \in 2..Len(h), q = b + i - 1,
             NEW a \in 1..Len(h), a <= b, \A j \in (a + 1)..(q - 1) : ResultOrContext(h[j])
      PROVE  AtHead(g, i)
  <2>1. ASSUME NEW j \in 2..i PROVE ResultOrContext(g[j])
    <3>1. CASE j = i
      BY <1>5, <3>1 DEF ResultOrContext, IsResult
    <3>2. CASE j # i
      <4>1. b + j - 1 \in (a + 1)..(q - 1) /\ j \in 2..Len(g)
        BY <1>0, <1>5, <3>2
      <4> QED BY <1>0, <1>5, <4>1
    <3> QED BY <3>1, <3>2
  <2> QED BY <1>0, <2>1 DEF AtHead
<1>6. ASSUME NEW i \in 2..Len(g), NEW q \in 2..Len(h), q = b + i - 1, AtHead(h, q) PROVE AtHead(g, i)
  <2>1. ASSUME NEW j \in 2..i PROVE ResultOrContext(g[j])
    <3>1. j \in 2..Len(g) /\ b + j - 1 \in 2..q
      BY <1>0, <1>6
    <3> QED BY <1>0, <1>6, <3>1 DEF AtHead
  <2> QED BY <1>0, <2>1 DEF AtHead
<1>7. ASSUME NEW L, Follow(h, L) PROVE Follow(g, L)
  <2> SUFFICES ASSUME NEW i \in 1..Len(g), IsResult(g[i])
               PROVE  \/ \E e \in 1..(i - 1) : Own(g, i, e) /\ \A j \in (e + 1)..i : ResultOrContext(g[j])
                      \/ AtHead(g, i)
                      \/ g[i].ids \subseteq L
    BY DEF Follow
  <2>1. PICK q \in 2..Len(h) : q = b + i - 1
    BY <1>3
  <2>2. i \in 2..Len(g) /\ g[i] = h[q] /\ q \in 1..Len(h)
    BY <1>3, <2>1
  <2>3. \/ \E a \in 1..(q - 1) : Own(h, q, a) /\ \A j \in (a + 1)..q : ResultOrContext(h[j])
        \/ AtHead(h, q)
        \/ h[q].ids \subseteq L
    BY <1>7, <2>2 DEF Follow
  <2>4. ASSUME NEW a \in 1..(q - 1), Own(h, q, a), \A j \in (a + 1)..q : ResultOrContext(h[j])
        PROVE  \/ \E e \in 1..(i - 1) : Own(g, i, e) /\ \A j \in (e + 1)..i : ResultOrContext(g[j])
               \/ AtHead(g, i)
    <3>1. CASE b < a
      <4>1. \E e \in 1..(i - 1) :
               Own(g, i, e) /\ \A j \in (e + 1)..i : g[j] = h[b + j - 1] /\ b + j - 1 \in (a + 1)..q
        BY <1>4, <2>1, <2>2, <2>4, <3>1
      <4>2. PICK e \in 1..(i - 1) :
               Own(g, i, e) /\ \A j \in (e + 1)..i : g[j] = h[b + j - 1] /\ b + j - 1 \in (a + 1)..q
        BY <4>1
      <4> QED BY <2>4, <4>2
    <3>2. CASE a <= b
      <4>1. \A j \in (a + 1)..(q - 1) : ResultOrContext(h[j])
        BY <2>4
      <4>2. a \in 1..Len(h)
        BY <1>0
      <4> QED BY <1>5, <2>1, <2>2, <3>2, <4>1, <4>2
    <3> QED BY <1>0, <3>1, <3>2
  <2> QED BY <1>6, <2>1, <2>2, <2>3, <2>4
<1>8. ASSUME NEW D, First(h, D) PROVE First(g, D)
  <2> SUFFICES ASSUME NEW i \in 1..Len(g), IsResult(g[i]), g[i].ids \cap D # {}
               PROVE  \/ \E e \in 1..(i - 1) : Own(g, i, e) /\ \A j \in (e + 1)..(i - 1) : g[j].role = "context"
                      \/ AtHead(g, i)
    BY DEF First
  <2>1. PICK q \in 2..Len(h) : q = b + i - 1
    BY <1>3
  <2>2. i \in 2..Len(g) /\ g[i] = h[q] /\ q \in 1..Len(h)
    BY <1>3, <2>1
  <2>3. \/ \E a \in 1..(q - 1) : Own(h, q, a) /\ \A j \in (a + 1)..(q - 1) : h[j].role = "context"
        \/ AtHead(h, q)
    BY <1>8, <2>2 DEF First
  <2>4. ASSUME NEW a \in 1..(q - 1), Own(h, q, a), \A j \in (a + 1)..(q - 1) : h[j].role = "context"
        PROVE  \/ \E e \in 1..(i - 1) : Own(g, i, e) /\ \A j \in (e + 1)..(i - 1) : g[j].role = "context"
               \/ AtHead(g, i)
    <3>1. CASE b < a
      <4>1. \E e \in 1..(i - 1) :
               Own(g, i, e) /\ \A j \in (e + 1)..(i - 1) : g[j] = h[b + j - 1] /\ b + j - 1 \in (a + 1)..(q - 1)
        BY <1>4, <2>1, <2>2, <2>4, <3>1
      <4>2. PICK e \in 1..(i - 1) :
               Own(g, i, e) /\ \A j \in (e + 1)..(i - 1) : g[j] = h[b + j - 1] /\ b + j - 1 \in (a + 1)..(q - 1)
        BY <4>1
      <4> QED BY <2>4, <4>2
    <3>2. CASE a <= b
      <4>1. \A j \in (a + 1)..(q - 1) : ResultOrContext(h[j])
        BY <2>4 DEF ResultOrContext
      <4>2. a \in 1..Len(h)
        BY <1>0
      <4> QED BY <1>5, <2>1, <2>2, <3>2, <4>1, <4>2
    <3> QED BY <1>0, <3>1, <3>2
  <2> QED BY <1>6, <2>1, <2>2, <2>3, <2>4
<1> QED BY <1>2, <1>7, <1>8

\* The messages that are removed: the assistant messages of pairs and what follows each.
Removed(pairs) == pairs \cup {i + 1 : i \in pairs}

\* g is what is left of h, with the marker in the place of the first pair; p says which
\* message each one was.
Thins(g, h, pairs, p) ==
  /\ Len(h) \in Nat /\ Len(g) \in Nat /\ p \in [1..Len(g) -> 1..Len(h)]
  /\ \A i, j \in 1..Len(g) : i < j => p[i] < p[j]
  /\ \A i \in 1..Len(g) : \/ p[i] \notin Removed(pairs) /\ g[i] = h[p[i]]
                          \/ p[i] \in pairs /\ g[i] = Note
  /\ \A k \in 1..Len(h) : k \notin Removed(pairs) => \E i \in 1..Len(g) : p[i] = k
  /\ \A k \in pairs : /\ k \in 1..(Len(h) - 1) /\ IsAssistant(h[k]) /\ IsResult(h[k + 1])

LEMMA RemovedType ==
  ASSUME NEW C, NEW h \in Seq(Sound(C)), NEW readOnly
  PROVE  /\ remove_read_only_pairs(h, readOnly) \in Seq(Sound(C))
         /\ \E p : Thins(remove_read_only_pairs(h, readOnly), h, ReadOnlyPairs(h, readOnly), p)
<1>1. PICK pairs : pairs = ReadOnlyPairs(h, readOnly)
  OBVIOUS
<1>2. PICK gone : gone = Removed(pairs)
  OBVIOUS
<1>3. PICK N \in Nat : N = Len(h)
  OBVIOUS
<1>4. DOMAIN h = 1..N /\ \A i \in 1..N : h[i] \in Sound(C)
  BY <1>3
<1>5. \A k \in pairs : k \in 1..(N - 1) /\ IsAssistant(h[k]) /\ IsResult(h[k + 1])
  <2>1. find_compaction_boundary(h) \in 0..N
    BY <1>3, BoundaryFacts
  <2> QED BY <1>1, <2>1 DEF ReadOnlyPairs, IsResult
<1>6. remove_read_only_pairs(h, readOnly) = RemoveMarked(h, gone)
  BY <1>1, <1>2 DEF remove_read_only_pairs, Removed
<1>7. gone \in SUBSET (1..N)
  BY <1>2, <1>5 DEF Removed
<1>8. CASE gone = {}
  <2>1. RemoveMarked(h, gone) = h /\ pairs = {}
    BY <1>2, <1>8 DEF RemoveMarked, Removed
  <2>2. Thins(h, h, pairs, [i \in 1..N |-> i])
    BY <1>2, <1>3, <1>8, <2>1 DEF Thins
  <2> QED BY <1>1, <1>6, <2>1, <2>2
<1>9. CASE gone # {}
  <2>1. PICK first : first = Min(gone)
    OBVIOUS
  <2>2. first \in gone /\ \A k \in gone : first <= k
    <3>1. gone \in SUBSET Nat
      BY <1>7
    <3>2. \E x \in gone : \A y \in gone : x <= y
      BY <1>9, <3>1, LeastMember
    <3> QED BY <2>1, <3>2 DEF Min
  <2>3. first \in pairs
    <3>1. first \in pairs \/ \E k \in pairs : first = k + 1
      BY <1>2, <2>2 DEF Removed
    <3>2. \A k \in pairs : k \in Int /\ first <= k
      BY <1>2, <1>5, <2>2 DEF Removed
    <3> QED BY <3>1, <3>2
  <2>4. PICK e : e = [h EXCEPT ![first] = Note]
    OBVIOUS
  <2>5. e \in Seq(Sound(C)) /\ Len(e) = N /\ \A i \in 1..N : e[i] = IF i = first THEN Note ELSE h[i]
    <3>1. Note \in Sound(C) /\ first \in 1..N
      BY <1>7, <2>2, MessageFacts
    <3> QED BY <1>3, <1>4, <2>4, <3>1
  <2>6. PICK P : P = (1..N \ gone) \cup {first}
    OBVIOUS
  <2>7. PICK g : g = KeepAt(e, P)
    OBVIOUS
  <2>8. RemoveMarked(h, gone) = g
    BY <1>4, <1>9, <2>1, <2>4, <2>6, <2>7 DEF RemoveMarked
  <2>9. g \in Seq(Sound(C)) /\ \E p : KeptBy(g, e, P, Len(e), p)
    BY <2>5, <2>7, KeepAtProperties
  <2>10. PICK p : KeptBy(g, e, P, N, p)
    BY <2>5, <2>9
  <2>11. /\ p \in [1..Len(g) -> 1..N]
         /\ \A i, j \in 1..Len(g) : i < j => p[i] < p[j]
         /\ \A i \in 1..Len(g) : p[i] \in P /\ g[i] = e[p[i]]
         /\ \A k \in 1..N : k \in P => \E i \in 1..Len(g) : p[i] = k
    BY <2>10 DEF KeptBy
  <2>12. \A i \in 1..Len(g) : \/ p[i] \notin Removed(pairs) /\ g[i] = h[p[i]]
                              \/ p[i] \in pairs /\ g[i] = Note
    BY <1>2, <2>2, <2>3, <2>5, <2>6, <2>11
  <2>13. Len(g) \in Nat
    BY <2>9
  <2>14. \A k \in 1..N : k \notin Removed(pairs) => \E i \in 1..Len(g) : p[i] = k
    BY <1>2, <2>6, <2>11
  <2>15. Thins(g, h, pairs, p)
    BY <1>3, <1>5, <2>11, <2>12, <2>13, <2>14 DEF Thins
  <2> QED BY <1>1, <1>6, <2>8, <2>9, <2>15
<1> QED BY <1>8, <1>9

\* Positions of what is left and of what was there.
LEMMA ThinsFacts ==
  ASSUME NEW g, NEW h, NEW pairs, NEW p, Thins(g, h, pairs, p)
  PROVE  /\ \A i \in 1..Len(g) : IsAssistant(g[i]) \/ IsResult(g[i]) => p[i] \notin Removed(pairs) /\ g[i] = h[p[i]]
         /\ \A i \in 1..Len(g) : ~IsAssistant(h[p[i]]) => g[i] = h[p[i]]
         /\ \A k \in 1..Len(h) : IsAssistant(h[k]) /\ k \notin pairs => k \notin Removed(pairs)
         /\ \A i, j \in 1..Len(g) : p[i] < p[j] => i < j
         /\ \A i \in 1..Len(g) : AtHead(h, p[i]) => AtHead(g, i)
<1>1. \A i \in 1..Len(g) : /\ p[i] \in 1..Len(h) /\ p[i] \in Int
                           /\ \/ p[i] \notin Removed(pairs) /\ g[i] = h[p[i]]
                              \/ p[i] \in pairs /\ g[i] = Note
  BY DEF Thins
<1>2. ~IsAssistant(Note) /\ ~IsResult(Note)
  BY RoleFacts DEF IsAssistant, IsResult
<1>3. \A k \in pairs : k \in 1..(Len(h) - 1) /\ IsAssistant(h[k]) /\ IsResult(h[k + 1])
  BY DEF Thins
<1>4. \A i \in 1..Len(g) : IsAssistant(g[i]) \/ IsResult(g[i]) => p[i] \notin Removed(pairs) /\ g[i] = h[p[i]]
  BY <1>1, <1>2
<1>5. \A i \in 1..Len(g) : ~IsAssistant(h[p[i]]) => g[i] = h[p[i]]
  BY <1>1, <1>3
<1>6. \A k \in 1..Len(h) : IsAssistant(h[k]) /\ k \notin pairs => k \notin Removed(pairs)
  BY <1>3 DEF Removed, IsAssistant, IsResult
<1>7. \A i, j \in 1..Len(g) : p[i] < p[j] => i < j
  <2> SUFFICES ASSUME NEW i \in 1..Len(g), NEW j \in 1..Len(g), p[i] < p[j], ~(i < j) PROVE FALSE
    OBVIOUS
  <2>1. i = j \/ j < i
    BY DEF Thins
  <2>2. p[j] <= p[i]
    BY <1>1, <2>1 DEF Thins
  <2> QED BY <1>1, <2>2
<1>8. ASSUME NEW i \in 1..Len(g), AtHead(h, p[i]) PROVE AtHead(g, i)
  <2>1. h[1] = Note /\ Len(h) \in Nat /\ Len(g) \in Nat /\ 1 \in 1..Len(h) /\ i \in Nat
    BY <1>1, <1>8 DEF AtHead, Thins
  <2>2. 1 \notin Removed(pairs)
    <3>1. 1 \notin pairs
      BY <1>2, <1>3, <2>1
    <3>2. \A k \in pairs : k \in Nat /\ k # 0
      BY <1>3
    <3> QED BY <3>1, <3>2 DEF Removed
  <2>3. PICK x \in 1..Len(g) : p[x] = 1
    BY <2>1, <2>2 DEF Thins
  <2>4. x = 1
    <3>1. 1 < x => p[1] < 1 /\ 1 \in 1..Len(g)
      BY <2>1, <2>3 DEF Thins
    <3> QED BY <1>1, <2>1, <3>1
  <2>5. g[1] = Note
    BY <1>1, <2>1, <2>3, <2>4
  <2>6. ASSUME NEW j \in 2..i PROVE ResultOrContext(g[j])
    <3>1. j \in 1..Len(g) /\ 1 < j /\ (j = i \/ j < i)
      BY <2>1
    <3>0. \A k, l \in 1..Len(g) : k < l => p[k] < p[l]
      BY DEF Thins
    <3>2. 1 < p[j] /\ p[j] <= p[i]
      <4>1. p[1] < p[j] /\ p[1] = 1
        BY <2>1, <2>3, <2>4, <3>0, <3>1
      <4>2. j = i \/ p[j] < p[i]
        BY <3>0, <3>1
      <4> QED BY <1>1, <3>1, <4>1, <4>2
    <3>3. p[j] \in 2..p[i]
      BY <1>1, <3>1, <3>2
    <3>4. ResultOrContext(h[p[j]])
      BY <1>8, <3>3 DEF AtHead
    <3>5. ~IsAssistant(h[p[j]])
      BY <3>4 DEF ResultOrContext, IsAssistant
    <3> QED BY <1>5, <3>1, <3>4, <3>5
  <2> QED BY <2>5, <2>6 DEF AtHead
<1> QED BY <1>4, <1>5, <1>6, <1>7, <1>8

\* What is between two messages that are left was between them before.
LEMMA ThinsBetween ==
  ASSUME NEW g, NEW h, NEW pairs, NEW p, Thins(g, h, pairs, p),
         NEW e \in 1..Len(g), NEW i \in 1..Len(g), e < i
  PROVE  /\ p[e] \in 1..(p[i] - 1)
         /\ \A k \in (e + 1)..i : k \in 1..Len(g) /\ p[k] \in (p[e] + 1)..p[i]
         /\ \A k \in (e + 1)..(i - 1) : k \in 1..Len(g) /\ p[k] \in (p[e] + 1)..(p[i] - 1)
<1>1. /\ Len(g) \in Nat /\ \A k \in 1..Len(g) : p[k] \in 1..Len(h) /\ p[k] \in Int
      /\ \A k, j \in 1..Len(g) : k < j => p[k] < p[j]
  BY DEF Thins
<1>2. p[e] < p[i]
  BY <1>1
<1>3. ASSUME NEW k \in (e + 1)..i
      PROVE  k \in 1..Len(g) /\ p[k] \in (p[e] + 1)..p[i] /\ (k <= i - 1 => p[k] \in (p[e] + 1)..(p[i] - 1))
  <2>1. k \in 1..Len(g) /\ e < k /\ (k = i \/ k < i)
    BY <1>1
  <2>2. p[e] < p[k] /\ (k < i => p[k] < p[i])
    BY <1>1, <2>1
  <2> QED BY <1>1, <2>1, <2>2
<1>4. \A k \in (e + 1)..(i - 1) : k \in (e + 1)..i /\ k <= i - 1
  OBVIOUS
<1>5. p[e] \in 1..(p[i] - 1)
  BY <1>1, <1>2
<1> QED BY <1>3, <1>4, <1>5

\* Microcompaction removes a call together with its results, which are all in one
\* message, because calls with a recorded kind are answered by one.
LEMMA RemovedKeeps ==
  ASSUME NEW g, NEW h, NEW pairs, NEW p, Thins(g, h, pairs, p), NEW R, NEW L,
         \A k \in pairs : h[k].ids \subseteq R, First(h, R \ L), Follow(h, L), Closed(h, L)
  PROVE  Closed(g, L) /\ Follow(g, L) /\ First(g, R \ L)
<1>1. Len(h) \in Nat /\ Len(g) \in Nat /\ \A k \in 1..Len(g) : p[k] \in 1..Len(h)
  BY DEF Thins
<1>2. \A k \in pairs : k \in 1..(Len(h) - 1) /\ IsAssistant(h[k]) /\ IsResult(h[k + 1])
  BY DEF Thins
<1>3. \A m : ~(IsAssistant(m) /\ IsResult(m)) /\ ~(IsAssistant(m) /\ m.role = "context") /\ ~(IsResult(m) /\ m.role = "context")
             /\ ~(IsAssistant(m) /\ ResultOrContext(m)) /\ (m.role = "context" => ResultOrContext(m))
  BY DEF IsAssistant, IsResult, ResultOrContext
<1>4. Closed(g, L)
  <2> SUFFICES ASSUME NEW i \in 1..Len(g), NEW c \in Uses(g[i]) \ L PROVE Answered(g, i, c)
    BY DEF Closed
  <2>1. IsAssistant(g[i]) /\ p[i] \notin Removed(pairs) /\ g[i] = h[p[i]]
    <3>1. IsAssistant(g[i])
      BY DEF Uses
    <3> QED BY <3>1, ThinsFacts
  <2>2. PICK j \in (p[i] + 1)..Len(h) :
          IsResult(h[j]) /\ c \in h[j].ids /\ \A k \in (p[i] + 1)..j : ~IsAssistant(h[k])
    BY <1>1, <2>1 DEF Closed, Answered
  <2>3. j \notin Removed(pairs)
    <3>1. j \notin pairs
      BY <1>2, <1>3, <2>2
    <3>2. ASSUME NEW k \in pairs, j = k + 1 PROVE FALSE
      <4>1. k = p[i] \/ k \in (p[i] + 1)..j
        BY <1>1, <1>2, <2>2, <3>2
      <4> QED BY <1>2, <2>1, <2>2, <4>1 DEF Removed
    <3> QED BY <3>1, <3>2 DEF Removed
  <2>4. PICK x \in 1..Len(g) : p[x] = j
    BY <1>1, <2>2, <2>3 DEF Thins
  <2>5. i < x
    BY <1>1, <2>2, <2>4, ThinsFacts
  <2>6. g[x] = h[j]
    BY <1>3, <2>2, <2>4, ThinsFacts
  <2>7. ASSUME NEW k \in (i + 1)..x PROVE ~IsAssistant(g[k])
    <3>1. k \in 1..Len(g) /\ p[k] \in (p[i] + 1)..p[x]
      BY <2>5, ThinsBetween
    <3>2. ~IsAssistant(h[p[k]])
      BY <2>2, <2>4, <3>1
    <3> QED BY <3>1, <3>2, ThinsFacts
  <2>8. x \in (i + 1)..Len(g)
    BY <1>1, <2>5
  <2> QED BY <2>2, <2>6, <2>7, <2>8 DEF Answered
\* the position of the uses among what is left
<1>5. ASSUME NEW i \in 1..Len(g), IsResult(g[i]), NEW a \in 1..(p[i] - 1), Own(h, p[i], a), a \notin pairs
      PROVE  \E e \in 1..(i - 1) : p[e] = a /\ e \in 1..Len(g) /\ Own(g, i, e)
  <2>1. a \in 1..Len(h) /\ IsAssistant(h[a]) /\ a \notin Removed(pairs)
    BY <1>1, <1>5, ThinsFacts DEF Own
  <2>2. PICK e \in 1..Len(g) : p[e] = a
    BY <2>1 DEF Thins
  <2>3. e < i
    BY <1>1, <1>5, <2>2, ThinsFacts
  <2>4. g[e] = h[a] /\ g[i] = h[p[i]]
    <3>1. p[e] \notin pairs
      BY <1>5, <2>2
    <3>2. g[e] = h[p[e]]
      BY <3>1 DEF Thins
    <3> QED BY <1>5, <2>2, <3>2, ThinsFacts
  <2>5. e \in 1..(i - 1)
    BY <1>1, <2>3
  <2> QED BY <1>5, <2>2, <2>4, <2>5 DEF Own
\* results for a call with a recorded kind are removed with it
<1>6. ASSUME NEW i \in 1..Len(g), IsResult(g[i]), NEW a \in 1..(p[i] - 1), Own(h, p[i], a), a \in pairs,
             \A j \in (a + 1)..(p[i] - 1) : ResultOrContext(h[j]), h[p[i]].ids \cap (R \ L) # {}
      PROVE  FALSE
  <2>1. p[i] \notin Removed(pairs) /\ IsResult(h[p[i]]) /\ p[i] \in 1..Len(h)
    BY <1>1, <1>6, ThinsFacts
  <2>2. \/ \E b \in 1..(p[i] - 1) : Own(h, p[i], b) /\ \A j \in (b + 1)..(p[i] - 1) : h[j].role = "context"
        \/ AtHead(h, p[i])
    BY <1>6, <2>1 DEF First
  <2>3. ASSUME AtHead(h, p[i]) PROVE FALSE
    <3>1. a = 1 \/ a \in 2..p[i]
      BY <1>1
    <3> QED BY <1>3, <1>6, <2>3, <3>1, RoleFacts DEF AtHead, Own, IsAssistant
  <2>4. ASSUME NEW b \in 1..(p[i] - 1), Own(h, p[i], b), \A j \in (b + 1)..(p[i] - 1) : h[j].role = "context"
        PROVE  FALSE
    <3>1. IsAssistant(h[a]) /\ IsAssistant(h[b])
      BY <1>6, <2>4 DEF Own
    <3>2. ~(a \in (b + 1)..(p[i] - 1)) /\ ~(b \in (a + 1)..(p[i] - 1))
      BY <1>3, <1>6, <2>4, <3>1
    <3>3. a = b
      BY <1>1, <3>2
    <3>4. a + 1 # p[i]
      BY <1>6, <2>1 DEF Removed
    <3>5. a + 1 \in (b + 1)..(p[i] - 1)
      BY <1>1, <3>3, <3>4
    <3> QED BY <1>2, <1>3, <1>6, <2>4, <3>5
  <2> QED BY <2>2, <2>3, <2>4
<1>7. Follow(g, L)
  <2> SUFFICES ASSUME NEW i \in 1..Len(g), IsResult(g[i])
               PROVE  \/ \E e \in 1..(i - 1) : Own(g, i, e) /\ \A j \in (e + 1)..i : ResultOrContext(g[j])
                      \/ AtHead(g, i)
                      \/ g[i].ids \subseteq L
    BY DEF Follow
  <2>1. g[i] = h[p[i]] /\ p[i] \in 1..Len(h)
    BY <1>1, ThinsFacts
  <2>2. \/ \E a \in 1..(p[i] - 1) : Own(h, p[i], a) /\ \A j \in (a + 1)..p[i] : ResultOrContext(h[j])
        \/ AtHead(h, p[i])
        \/ h[p[i]].ids \subseteq L
    BY <2>1 DEF Follow
  <2>3. ASSUME NEW a \in 1..(p[i] - 1), Own(h, p[i], a), \A j \in (a + 1)..p[i] : ResultOrContext(h[j])
        PROVE  \/ \E e \in 1..(i - 1) : Own(g, i, e) /\ \A j \in (e + 1)..i : ResultOrContext(g[j])
               \/ g[i].ids \subseteq L
    <3>1. CASE a \in pairs
      <4>1. \A j \in (a + 1)..(p[i] - 1) : ResultOrContext(h[j])
        <5>1. \A j \in (a + 1)..(p[i] - 1) : j \in (a + 1)..p[i]
          BY <1>1, <2>1
        <5> QED BY <2>3, <5>1
      <4>2. h[p[i]].ids \cap (R \ L) = {}
        BY <1>6, <2>3, <3>1, <4>1
      <4>3. h[p[i]].ids \subseteq R
        BY <2>3, <3>1 DEF Own
      <4> QED BY <2>1, <4>2, <4>3
    <3>2. CASE a \notin pairs
      <4>1. PICK e \in 1..(i - 1) : p[e] = a /\ e \in 1..Len(g) /\ Own(g, i, e)
        BY <1>5, <2>3, <3>2
      <4>2. ASSUME NEW j \in (e + 1)..i PROVE ResultOrContext(g[j])
        <5>1. j \in 1..Len(g) /\ p[j] \in (a + 1)..p[i]
          BY <4>1, ThinsBetween
        <5>2. ResultOrContext(h[p[j]]) /\ ~IsAssistant(h[p[j]])
          BY <1>3, <2>3, <5>1
        <5>3. g[j] = h[p[j]]
          BY <5>1, <5>2, ThinsFacts
        <5> QED BY <5>2, <5>3
      <4> QED BY <4>1, <4>2
    <3> QED BY <3>1, <3>2
  <2>4. AtHead(h, p[i]) => AtHead(g, i)
    BY ThinsFacts
  <2> QED BY <2>1, <2>2, <2>3, <2>4
<1>8. First(g, R \ L)
  <2> SUFFICES ASSUME NEW i \in 1..Len(g), IsResult(g[i]), g[i].ids \cap (R \ L) # {}
               PROVE  \/ \E e \in 1..(i - 1) : Own(g, i, e) /\ \A j \in (e + 1)..(i - 1) : g[j].role = "context"
                      \/ AtHead(g, i)
    BY DEF First
  <2>1. g[i] = h[p[i]] /\ p[i] \in 1..Len(h)
    BY <1>1, ThinsFacts
  <2>2. \/ \E a \in 1..(p[i] - 1) : Own(h, p[i], a) /\ \A j \in (a + 1)..(p[i] - 1) : h[j].role = "context"
        \/ AtHead(h, p[i])
    BY <2>1 DEF First
  <2>3. ASSUME NEW a \in 1..(p[i] - 1), Own(h, p[i], a), \A j \in (a + 1)..(p[i] - 1) : h[j].role = "context"
        PROVE  \E e \in 1..(i - 1) : Own(g, i, e) /\ \A j \in (e + 1)..(i - 1) : g[j].role = "context"
    <3>1. a \notin pairs
      <4>1. \A j \in (a + 1)..(p[i] - 1) : ResultOrContext(h[j])
        BY <1>3, <2>3
      <4> QED BY <1>6, <2>1, <2>3, <4>1
    <3>2. PICK e \in 1..(i - 1) : p[e] = a /\ e \in 1..Len(g) /\ Own(g, i, e)
      BY <1>5, <2>3, <3>1
    <3>3. ASSUME NEW j \in (e + 1)..(i - 1) PROVE g[j].role = "context"
      <4>1. j \in 1..Len(g) /\ p[j] \in (a + 1)..(p[i] - 1)
        BY <3>2, ThinsBetween
      <4>2. h[p[j]].role = "context" /\ ~IsAssistant(h[p[j]])
        BY <1>3, <2>3, <4>1
      <4>3. g[j] = h[p[j]]
        BY <4>1, <4>2, ThinsFacts
      <4> QED BY <4>2, <4>3
    <3> QED BY <3>2, <3>3
  <2>4. AtHead(h, p[i]) => AtHead(g, i)
    BY ThinsFacts
  <2> QED BY <2>2, <2>3, <2>4
<1> QED BY <1>4, <1>7, <1>8

-----------------------------------------------------------------------------
(* Repairing *)

\* A paired history is closed, and all its results follow their uses.
LEMMA PairedCloses ==
  ASSUME NEW C, NEW h \in Seq(Messages(C)), Paired(h)
  PROVE  /\ \A L : Closed(h, L) /\ Follow(h, L)
         /\ \A D : Settled(h, D)
<1>0. Len(h) \in Nat
  OBVIOUS
<1>1. \A i \in 1..Len(h) : (IsAssistant(h[i]) => UsesAnswered(h, i)) /\ (IsResult(h[i]) => ResultFollows(h, i))
  BY PairedMeaning
<1>2. \A m : (IsResult(m) => ~IsAssistant(m) /\ ResultOrContext(m))
  BY DEF IsResult, IsAssistant, ResultOrContext
<1>3. ASSUME NEW i \in 1..Len(h), IsAssistant(h[i])
      PROVE  \E n \in i..Len(h) : /\ \A j \in (i + 1)..n : IsResult(h[j])
                                  /\ AnsweredIn(h, i + 1, n) = h[i].ids
                                  /\ n < Len(h) => ~IsResult(h[n + 1])
  BY <1>1, <1>3 DEF UsesAnswered
<1>4. ASSUME NEW i \in 1..Len(h), IsAssistant(h[i]), NEW c \in h[i].ids PROVE Answered(h, i, c)
  <2>1. PICK n \in i..Len(h) : (\A j \in (i + 1)..n : IsResult(h[j])) /\ AnsweredIn(h, i + 1, n) = h[i].ids
    BY <1>3, <1>4
  <2>2. PICK j \in (i + 1)..n : h[j].role = "results" /\ c \in h[j].ids
    BY <1>4, <2>1, AnsweredMember
  <2>3. j \in (i + 1)..Len(h) /\ \A k \in (i + 1)..j : ~IsAssistant(h[k])
    BY <1>0, <1>2, <2>1
  <2> QED BY <2>2, <2>3 DEF Answered, IsResult
<1>5. ASSUME NEW L PROVE Closed(h, L)
  BY <1>4 DEF Closed, Uses
<1>6. ASSUME NEW i \in 1..Len(h), IsResult(h[i])
      PROVE  \E a \in 1..(i - 1) : Own(h, i, a) /\ \A j \in (a + 1)..i : ResultOrContext(h[j])
  <2>1. PICK a \in 1..(i - 1) : IsAssistant(h[a]) /\ \A j \in (a + 1)..i : IsResult(h[j])
    BY <1>1, <1>6 DEF ResultFollows
  <2>2. a \in 1..Len(h)
    BY <1>0
  <2>3. PICK n \in a..Len(h) : /\ \A j \in (a + 1)..n : IsResult(h[j])
                               /\ AnsweredIn(h, a + 1, n) = h[a].ids
                               /\ n < Len(h) => ~IsResult(h[n + 1])
    BY <1>3, <2>1, <2>2
  <2>4. i <= n
    <3> SUFFICES ASSUME n < i PROVE FALSE
      BY <1>0
    <3>1. n + 1 \in (a + 1)..i /\ n < Len(h)
      BY <1>0
    <3> QED BY <2>1, <2>3, <3>1
  <2>5. h[i].ids \subseteq h[a].ids
    <3>1. i \in (a + 1)..n
      BY <1>0, <2>4
    <3>2. \A c \in h[i].ids : c \in AnsweredIn(h, a + 1, n)
      BY <1>6, <3>1, AnsweredMember DEF IsResult
    <3> QED BY <2>3, <3>2
  <2> QED BY <1>2, <2>1, <2>5 DEF Own
<1>7. ASSUME NEW L PROVE Follow(h, L)
  BY <1>6 DEF Follow
<1>8. ASSUME NEW D PROVE Settled(h, D)
  BY <1>4 DEF Settled
<1> QED BY <1>5, <1>7, <1>8

\* After n messages of h the pass still waits for X.
Pending(h, n, X) ==
  X # {} => \E a \in 1..n : /\ IsAssistant(h[a]) /\ \A j \in (a + 1)..n : IsResult(h[j])
                            /\ X = h[a].ids \ AnsweredIn(h, a + 1, n)

\* What the pass waits for of D is all there is to wait for: the last message is the
\* assistant message itself.
LEMMA PendingFirst ==
  ASSUME NEW h, Len(h) \in Nat, NEW D, First(h, D), Settled(h, D), NEW n \in 0..Len(h), NEW X,
         Pending(h, n, X), X \cap D # {},
         \/ n = Len(h) \/ ~IsResult(h[n + 1]) \/ h[n + 1].ids \cap X \cap D # {}
  PROVE  n \in 1..Len(h) /\ IsAssistant(h[n]) /\ X = h[n].ids
<1>0. \A m : /\ ~(IsAssistant(m) /\ IsResult(m)) /\ ~(IsAssistant(m) /\ m.role = "context")
             /\ ~(IsResult(m) /\ m.role = "context") /\ ~(IsAssistant(m) /\ ResultOrContext(m))
  BY DEF IsAssistant, IsResult, ResultOrContext
<1>1. PICK a \in 1..n : /\ IsAssistant(h[a]) /\ \A j \in (a + 1)..n : IsResult(h[j])
                        /\ X = h[a].ids \ AnsweredIn(h, a + 1, n)
  BY DEF Pending
<1>2. a \in 1..Len(h)
  OBVIOUS
\* the results for a call in D stand next to the uses
<1>3. ASSUME NEW j \in (a + 1)..Len(h), IsResult(h[j]), h[j].ids \cap D # {},
             \A k \in (a + 1)..(j - 1) : ~IsAssistant(h[k])
      PROVE  \A k \in (a + 1)..(j - 1) : h[k].role = "context"
  <2>1. \/ \E b \in 1..(j - 1) : Own(h, j, b) /\ \A k \in (b + 1)..(j - 1) : h[k].role = "context"
        \/ AtHead(h, j)
    BY <1>2, <1>3 DEF First
  <2>2. ~AtHead(h, j)
    <3>1. a = 1 \/ a \in 2..j
      BY <1>2
    <3> QED BY <1>0, <1>1, <3>1, RoleFacts DEF AtHead, IsAssistant
  <2>3. PICK b \in 1..(j - 1) : Own(h, j, b) /\ \A k \in (b + 1)..(j - 1) : h[k].role = "context"
    BY <2>1, <2>2
  <2>4. IsAssistant(h[b])
    BY <2>3 DEF Own
  <2>5. ~(a \in (b + 1)..(j - 1)) /\ ~(b \in (a + 1)..(j - 1))
    BY <1>0, <1>1, <1>3, <2>3, <2>4
  <2>6. a = b
    BY <1>2, <2>5
  <2> QED BY <2>3, <2>6
<1>4. n = a
  <2> SUFFICES ASSUME n # a PROVE FALSE
    OBVIOUS
  <2>1. a + 1 \in (a + 1)..n /\ IsResult(h[a + 1])
    BY <1>1
  <2>2. CASE n + 1 \in 1..Len(h) /\ IsResult(h[n + 1]) /\ h[n + 1].ids \cap X \cap D # {}
    <3>1. n + 1 \in (a + 1)..Len(h) /\ \A k \in (a + 1)..(n + 1 - 1) : ~IsAssistant(h[k])
      BY <1>0, <1>1, <1>2, <2>2
    <3>2. \A k \in (a + 1)..(n + 1 - 1) : h[k].role = "context"
      BY <1>3, <2>2, <3>1
    <3>3. a + 1 \in (a + 1)..(n + 1 - 1)
      BY <2>1
    <3> QED BY <1>0, <2>1, <3>2, <3>3
  <2>3. CASE n = Len(h) \/ ~IsResult(h[n + 1])
    <3>1. PICK c \in X : c \in D
      OBVIOUS
    <3>2. c \in h[a].ids \cap D /\ c \notin AnsweredIn(h, a + 1, n)
      BY <1>1, <3>1
    <3>3. Answered(h, a, c) \/ \A j \in (a + 1)..Len(h) : h[j].role = "context"
      BY <1>1, <1>2, <3>2 DEF Settled
    <3>4. a + 1 \in (a + 1)..Len(h)
      BY <2>1
    <3>5. Answered(h, a, c)
      BY <1>0, <2>1, <3>3, <3>4
    <3>6. PICK j \in (a + 1)..Len(h) :
            IsResult(h[j]) /\ c \in h[j].ids /\ \A k \in (a + 1)..j : ~IsAssistant(h[k])
      BY <3>5 DEF Answered
    <3>7. \A k \in (a + 1)..(j - 1) : h[k].role = "context"
      <4>1. \A k \in (a + 1)..(j - 1) : ~IsAssistant(h[k])
        BY <3>6
      <4> QED BY <1>3, <3>2, <3>6, <4>1
    <3>8. ~(j \in (a + 1)..n)
      <4>1. j \in (a + 1)..n => c \in AnsweredIn(h, a + 1, n)
        BY <3>6, AnsweredMember DEF IsResult
      <4> QED BY <3>2, <4>1
    <3>9. a + 1 \in (a + 1)..(j - 1)
      BY <1>2, <2>1, <3>8
    <3> QED BY <1>0, <2>1, <3>7, <3>9
  <2>4. n = Len(h) \/ n + 1 \in 1..Len(h)
    OBVIOUS
  <2> QED BY <2>2, <2>3, <2>4
<1>5. X = h[n].ids
  <2>1. AnsweredIn(h, a + 1, n) = {}
    BY <1>4, AnsweredNone
  <2> QED BY <1>1, <1>4, <2>1
<1> QED BY <1>1, <1>2, <1>4, <1>5

\* Results for what is waited for go to the end of the outcome.
LEMMA FirstResults ==
  ASSUME NEW C, NEW o \in Seq(Messages(C)), NEW Y \in SUBSET C, NEW D, First(o, D),
         Y \cap D # {} => /\ o # <<>> /\ IsAssistant(o[Len(o)]) /\ Y \subseteq o[Len(o)].ids
  PROVE  First(append_tool_results(o, Y), D)
<1>1. CASE Y = {}
  BY <1>1 DEF append_tool_results
<1>2. CASE Y # {}
  <2>1. PICK m : m = Results(Y)
    OBVIOUS
  <2>2. m \in Messages(C) /\ IsResult(m) /\ m.ids = Y
    BY <2>1, RoleFacts DEF Messages, Results, IsResult
  <2>3. PICK p : p = Append(o, m)
    OBVIOUS
  <2>4. append_tool_results(o, Y) = p /\ Grown(p, o, m)
    BY <1>2, <2>1, <2>2, <2>3, AppendGrown DEF append_tool_results
  <2>5. CASE Y \cap D # {}
    <3>1. Len(o) \in 1..Len(o) /\ \A j \in (Len(o) + 1)..Len(o) : o[j].role = "context"
      BY <2>5
    <3> QED BY <2>2, <2>4, <2>5, <3>1, GrownFollow
  <2>6. CASE Y \cap D = {}
    <3> SUFFICES ASSUME NEW i \in 1..Len(p), IsResult(p[i]), p[i].ids \cap D # {}
                 PROVE  \/ \E b \in 1..(i - 1) : Own(p, i, b) /\ \A j \in (b + 1)..(i - 1) : p[j].role = "context"
                        \/ AtHead(p, i)
      BY <2>4 DEF First
    <3>1. i \in 1..Len(o) /\ p[i] = o[i] /\ \A j \in 1..i : p[j] = o[j]
      BY <2>2, <2>4, <2>6 DEF Grown
    <3>2. \/ \E b \in 1..(i - 1) : Own(o, i, b) /\ \A j \in (b + 1)..(i - 1) : o[j].role = "context"
          \/ AtHead(o, i)
      BY <3>1 DEF First
    <3>3. \A b \in 1..(i - 1) : \A j \in (b + 1)..(i - 1) : p[j] = o[j]
      BY <3>1
    <3> QED BY <2>4, <3>1, <3>2, <3>3, GrownKeeps
  <2> QED BY <2>5, <2>6
<1> QED BY <1>1, <1>2

\* Repairing keeps results for a call in D next to their uses.
LEMMA RepairFirst ==
  ASSUME NEW C, NEW h \in Seq(Sound(C)), NEW D, First(h, D), Settled(h, D)
  PROVE  First(repair_orphan_tool_results(h), D)
<1>1. PICK f : f = RepairPass(h)
  OBVIOUS
<1>2. Len(h) \in Nat /\ \A n \in 1..Len(h) : h[n] \in Sound(C) /\ h[n] \in Messages(C) /\ h[n].ids \subseteq C
  <2>1. Len(h) \in Nat /\ \A n \in 1..Len(h) : h[n] \in Sound(C) /\ h[n] \in Messages(C)
    BY DEF Sound
  <2> QED BY <2>1, MessageFacts
<1>3. /\ f[0] = [out |-> <<>>, pending |-> {}]
      /\ \A n \in 0..(Len(h) - 1) : f[n + 1] = RepairStep(f[n], h[n + 1])
  BY <1>1, <1>2, RepairPassSteps
<1> DEFINE S == {n \in 0..Len(h) : /\ f[n].out \in Seq(Messages(C)) /\ f[n].pending \in SUBSET C
                                   /\ First(f[n].out, D) /\ Pending(h, n, f[n].pending)
                                   /\ (n # 0 /\ IsAssistant(h[n])) => f[n].out # <<>> /\ f[n].out[Len(f[n].out)] = h[n]}
<1>4. 0 \in S
  <2>1. f[0].out = <<>> /\ f[0].pending = {} /\ 0 \in 0..Len(h)
    BY <1>2, <1>3
  <2>2. First(<<>>, D) /\ Pending(h, 0, {}) /\ <<>> \in Seq(Messages(C))
    BY DEF First, Pending
  <2> QED BY <2>1, <2>2
<1>5. ASSUME NEW n \in 0..(Len(h) - 1), n \in S PROVE n + 1 \in S
  <2>1. PICK m : m = h[n + 1]
    OBVIOUS
  <2>2. PICK o : o = f[n].out
    OBVIOUS
  <2>3. PICK X : X = f[n].pending
    OBVIOUS
  <2>4. /\ o \in Seq(Messages(C)) /\ X \in SUBSET C /\ First(o, D) /\ Pending(h, n, X)
        /\ (n # 0 /\ IsAssistant(h[n])) => o # <<>> /\ o[Len(o)] = h[n]
    BY <1>5, <2>2, <2>3
  <2>5. m \in Messages(C) /\ m.ids \subseteq C /\ n + 1 \in 0..Len(h) /\ n \in 0..Len(h) /\ n + 1 # 0 /\ n # Len(h)
    BY <1>2, <2>1
  <2>6. f[n + 1] = RepairStep(f[n], m)
    BY <1>3, <2>1
  <2>7. ASSUME NEW Y \in SUBSET X, Y \cap D # {}, ~IsResult(m) \/ Y \subseteq m.ids
        PROVE  o # <<>> /\ IsAssistant(o[Len(o)]) /\ Y \subseteq o[Len(o)].ids
    <3>1. X \cap D # {} /\ (~IsResult(h[n + 1]) \/ h[n + 1].ids \cap X \cap D # {})
      BY <2>1, <2>7
    <3>2. n \in 1..Len(h) /\ IsAssistant(h[n]) /\ X = h[n].ids
      BY <1>2, <2>4, <2>5, <3>1, PendingFirst
    <3> QED BY <2>4, <3>2
  <2>8. CASE IsResult(m)
    <3>1. f[n + 1].out = append_tool_results(o, m.ids \cap X) /\ f[n + 1].pending = X \ m.ids
      BY <2>2, <2>3, <2>6, <2>8 DEF RepairStep, IsResult
    <3>2. m.ids \cap X \in SUBSET X /\ m.ids \cap X \in SUBSET C /\ m.ids \cap X \subseteq m.ids
      BY <2>4
    <3>3. First(append_tool_results(o, m.ids \cap X), D)
      BY <2>4, <2>7, <3>2, FirstResults
    <3>4. append_tool_results(o, m.ids \cap X) \in Seq(Messages(C))
      BY <2>4, <3>2 DEF append_tool_results, Messages, Results
    <3>5. Pending(h, n + 1, X \ m.ids)
      <4> SUFFICES ASSUME X \ m.ids # {}
                   PROVE  \E a \in 1..(n + 1) : /\ IsAssistant(h[a]) /\ \A j \in (a + 1)..(n + 1) : IsResult(h[j])
                                                /\ X \ m.ids = h[a].ids \ AnsweredIn(h, a + 1, n + 1)
        BY DEF Pending
      <4>1. PICK a \in 1..n : /\ IsAssistant(h[a]) /\ \A j \in (a + 1)..n : IsResult(h[j])
                              /\ X = h[a].ids \ AnsweredIn(h, a + 1, n)
        BY <2>4 DEF Pending
      <4>2. AnsweredIn(h, a + 1, n + 1) = AnsweredIn(h, a + 1, n) \cup Answers(h[n + 1])
        <5>1. a + 1 \in Int /\ n \in Int /\ a + 1 <= n + 1
          OBVIOUS
        <5> QED BY <5>1, AnsweredNext
      <4>3. Answers(h[n + 1]) = m.ids
        BY <2>1, <2>8 DEF Answers, IsResult
      <4>4. X \ m.ids = h[a].ids \ AnsweredIn(h, a + 1, n + 1)
        BY <4>1, <4>2, <4>3
      <4>5. a \in 1..(n + 1) /\ \A j \in (a + 1)..(n + 1) : IsResult(h[j])
        <5>1. \A j \in (a + 1)..(n + 1) : j = n + 1 \/ j \in (a + 1)..n
          OBVIOUS
        <5> QED BY <2>1, <2>8, <4>1, <5>1
      <4> QED BY <4>1, <4>4, <4>5
    <3>6. ~IsAssistant(h[n + 1])
      BY <2>1, <2>8 DEF IsResult, IsAssistant
    <3> QED BY <2>4, <2>5, <3>1, <3>3, <3>4, <3>5, <3>6
  <2>9. CASE ~IsResult(m)
    <3>1. PICK q : q = append_tool_results(o, X)
      OBVIOUS
    <3>2. f[n + 1].out = Append(q, m) /\ f[n + 1].pending = Uses(m)
      BY <2>2, <2>3, <2>6, <2>9, <3>1 DEF RepairStep, IsResult
    <3>3. First(q, D) /\ q \in Seq(Messages(C))
      <4>1. First(q, D)
        BY <2>4, <2>7, <2>9, <3>1, FirstResults
      <4>2. q \in Seq(Messages(C))
        BY <2>4, <3>1 DEF append_tool_results, Messages, Results
      <4> QED BY <4>1, <4>2
    <3>4. First(Append(q, m), D)
      BY <2>5, <2>9, <3>3, AppendGrown, GrownFollow
    <3>5. Append(q, m) \in Seq(Messages(C)) /\ Append(q, m) # <<>> /\ Append(q, m)[Len(Append(q, m))] = m
      BY <2>5, <3>3
    <3>6. Pending(h, n + 1, Uses(m))
      <4>1. AnsweredIn(h, n + 1 + 1, n + 1) = {}
        BY AnsweredNone
      <4>2. n + 1 \in 1..(n + 1) /\ \A j \in (n + 1 + 1)..(n + 1) : IsResult(h[j])
        OBVIOUS
      <4>3. Uses(m) # {} => IsAssistant(h[n + 1]) /\ Uses(m) = h[n + 1].ids
        BY <2>1 DEF Uses
      <4> QED BY <4>1, <4>2, <4>3 DEF Pending
    <3>7. Uses(m) \in SUBSET C
      BY <2>5 DEF Uses
    <3> QED BY <2>1, <2>5, <3>2, <3>4, <3>5, <3>6, <3>7
  <2> QED BY <2>8, <2>9
<1>6. Len(h) \in S
  <2>1. \A n \in 0..(Len(h) - 1) : n \in S => n + 1 \in S
    BY <1>5
  <2> HIDE DEF S
  <2>2. 0..Len(h) \subseteq S
    BY <1>2, <1>4, <2>1, Positions
  <2> QED BY <1>2, <2>2
<1>7. PICK o : o = f[Len(h)].out
  OBVIOUS
<1>8. PICK X : X = f[Len(h)].pending
  OBVIOUS
<1>9. /\ o \in Seq(Messages(C)) /\ X \in SUBSET C /\ First(o, D) /\ Pending(h, Len(h), X)
      /\ (Len(h) # 0 /\ IsAssistant(h[Len(h)])) => o # <<>> /\ o[Len(o)] = h[Len(h)]
  BY <1>6, <1>7, <1>8
<1>10. X \cap D # {} => o # <<>> /\ IsAssistant(o[Len(o)]) /\ X \subseteq o[Len(o)].ids
  <2> SUFFICES ASSUME X \cap D # {} PROVE o # <<>> /\ IsAssistant(o[Len(o)]) /\ X \subseteq o[Len(o)].ids
    OBVIOUS
  <2>1. Len(h) \in 0..Len(h)
    BY <1>2
  <2>2. Len(h) \in 1..Len(h) /\ IsAssistant(h[Len(h)]) /\ X = h[Len(h)].ids
    BY <1>2, <1>9, <2>1, PendingFirst
  <2> QED BY <1>9, <2>2
<1>11. repair_orphan_tool_results(h) = append_tool_results(o, X)
  BY <1>1, <1>7, <1>8 DEF repair_orphan_tool_results
<1> QED BY <1>9, <1>10, <1>11, FirstResults

-----------------------------------------------------------------------------
(* Types *)

\* The remaining operators stay within histories.
LEMMA PendingType ==
  ASSUME NEW C, NEW h \in Seq(Messages(C))
  PROVE  pending_tool_use_ids(h) \in SUBSET C
<1>1. PICK a : a = AssistantBefore(h, Len(h) + 1)
  OBVIOUS
<1>2. Len(h) + 1 \in Nat /\ Len(h) + 1 - 1 = Len(h)
  OBVIOUS
<1>3. a # 0 => a \in 1..Len(h)
  BY <1>1, <1>2, AssistantBeforeFacts
<1>4. a # 0 => h[a].ids \subseteq C
  BY <1>3, MessageFacts
<1> QED BY <1>1, <1>4 DEF pending_tool_use_ids, Uses

LEMMA PopType ==
  ASSUME NEW M, NEW h \in Seq(M)
  PROVE  pop_last_assistant(h) \in Seq(M)
<1>1. CASE h # <<>> /\ IsAssistant(Last(h))
  <2>1. pop_last_assistant(h) = SubSeq(h, 1, Len(h) - 1)
    BY <1>1 DEF pop_last_assistant, Front
  <2>2. Len(h) - 1 \in Int /\ \A j \in 1..(Len(h) - 1) : h[j] \in M
    OBVIOUS
  <2> QED BY <2>1, <2>2, SubSeqProperties
<1>2. CASE ~(h # <<>> /\ IsAssistant(Last(h)))
  BY <1>2 DEF pop_last_assistant
<1> QED BY <1>1, <1>2

LEMMA ReplayedType ==
  ASSUME NEW M, NEW d \in Seq(M), NEW m \in M
  PROVE  _append_history_message(d, m) \in Seq(M)
<1>1. CASE d # <<>> /\ IsAssistant(Last(d)) /\ IsAssistant(m)
  <2>1. _append_history_message(d, m) = Append(SubSeq(d, 1, Len(d) - 1), m)
    BY <1>1 DEF _append_history_message, Front
  <2>2. Len(d) - 1 \in Int /\ \A j \in 1..(Len(d) - 1) : d[j] \in M
    OBVIOUS
  <2>3. SubSeq(d, 1, Len(d) - 1) \in Seq(M)
    BY <2>2, SubSeqProperties
  <2> QED BY <2>1, <2>3
<1>2. CASE ~(d # <<>> /\ IsAssistant(Last(d)) /\ IsAssistant(m))
  BY <1>2 DEF _append_history_message
<1> QED BY <1>1, <1>2
-----------------------------------------------------------------------------
(* What a log holds of a history *)

\* e says where in g each message of h stands that is neither summary nor marker.
Embeds(e, h, g) ==
  /\ \A i \in 1..Len(h) : h[i] # Note => e[i] \in 1..Len(g) /\ g[e[i]] = h[i]
  /\ \A i, j \in 1..Len(h) : i < j /\ h[i] # Note /\ h[j] # Note => e[i] < e[j]

\* g holds, in order, all of h but its summaries and markers.
Part(h, g) == \E e : Embeds(e, h, g)

Ends(h) == Len(h) # 0 /\ IsAssistant(h[Len(h)])

\* A part of a history, an initial one for one, and the part of a part.
LEMMA PartPrefix ==
  ASSUME NEW f, NEW h, Len(f) \in Nat, Len(h) \in Nat, Len(f) <= Len(h), \A j \in 1..Len(f) : f[j] = h[j]
  PROVE  Part(f, h)
<1>1. PICK e : e = [i \in 1..Len(f) |-> i]
  OBVIOUS
<1>2. \A i \in 1..Len(f) : e[i] = i /\ i \in 1..Len(h)
  BY <1>1
<1>3. Embeds(e, f, h)
  BY <1>2 DEF Embeds
<1> QED BY <1>3 DEF Part

LEMMA PartTrans ==
  ASSUME NEW f, NEW g, NEW h, Part(f, g), Part(g, h)
  PROVE  Part(f, h)
<1>1. PICK d : Embeds(d, f, g)
  BY DEF Part
<1>2. PICK e : Embeds(e, g, h)
  BY DEF Part
<1>3. PICK r : r = [i \in 1..Len(f) |-> e[d[i]]]
  OBVIOUS
<1>4. \A i \in 1..Len(f) : r[i] = e[d[i]]
  BY <1>3
<1>5. \A i \in 1..Len(f) : f[i] # Note => /\ d[i] \in 1..Len(g) /\ g[d[i]] = f[i] /\ g[d[i]] # Note
                                         /\ e[d[i]] \in 1..Len(h) /\ h[e[d[i]]] = f[i]
  BY <1>1, <1>2 DEF Embeds
<1>6. ASSUME NEW i \in 1..Len(f), NEW j \in 1..Len(f), i < j, f[i] # Note, f[j] # Note
      PROVE  e[d[i]] < e[d[j]]
  <2>1. d[i] < d[j]
    BY <1>1, <1>6 DEF Embeds
  <2> QED BY <1>2, <1>5, <1>6, <2>1 DEF Embeds
<1>7. Embeds(r, f, h)
  BY <1>4, <1>5, <1>6 DEF Embeds
<1> QED BY <1>7 DEF Part

\* The same message is appended to both.
LEMMA PartGrown ==
  ASSUME NEW h, NEW g, Part(h, g), NEW m, NEW p, NEW q, Grown(p, h, m), Grown(q, g, m)
  PROVE  Part(p, q)
<1>0. /\ Len(h) \in Nat /\ Len(p) = Len(h) + 1 /\ p[Len(h) + 1] = m /\ \A j \in 1..Len(h) : p[j] = h[j]
      /\ Len(g) \in Nat /\ Len(q) = Len(g) + 1 /\ q[Len(g) + 1] = m /\ \A j \in 1..Len(g) : q[j] = g[j]
  BY DEF Grown
<1>1. PICK e : Embeds(e, h, g)
  BY DEF Part
<1>2. PICK r : r = [i \in 1..Len(p) |-> IF i = Len(h) + 1 THEN Len(g) + 1 ELSE e[i]]
  OBVIOUS
<1>3. /\ \A i \in 1..Len(p) : i \in 1..Len(h) \/ i = Len(h) + 1
      /\ r[Len(h) + 1] = Len(g) + 1 /\ \A i \in 1..Len(h) : r[i] = e[i]
  BY <1>0, <1>2
<1>4. \A i \in 1..Len(h) : h[i] # Note => e[i] \in 1..Len(g) /\ g[e[i]] = h[i]
  BY <1>1 DEF Embeds
<1>5. \A i \in 1..Len(h) : h[i] # Note => e[i] \in 1..Len(q) /\ q[e[i]] = h[i] /\ e[i] < Len(g) + 1
  BY <1>0, <1>4
<1>6. \A i \in 1..Len(p) : p[i] # Note => r[i] \in 1..Len(q) /\ q[r[i]] = p[i]
  BY <1>0, <1>3, <1>5
<1>7. ASSUME NEW i \in 1..Len(p), NEW j \in 1..Len(p), i < j, p[i] # Note, p[j] # Note
      PROVE  r[i] < r[j]
  <2>1. i \in 1..Len(h)
    BY <1>0, <1>7
  <2>2. CASE j = Len(h) + 1
    BY <1>0, <1>3, <1>5, <1>7, <2>1, <2>2
  <2>3. CASE j \in 1..Len(h)
    BY <1>0, <1>1, <1>3, <1>7, <2>1, <2>3 DEF Embeds
  <2> QED BY <1>3, <2>2, <2>3
<1>8. Embeds(r, p, q)
  BY <1>6, <1>7 DEF Embeds
<1> QED BY <1>8 DEF Part

\* What a retry drops, and what replaying its log drops.
LEMMA PoppedFacts ==
  ASSUME NEW M, NEW h \in Seq(M)
  PROVE  /\ ~Ends(h) => pop_last_assistant(h) = h
         /\ Part(pop_last_assistant(h), h)
         /\ \A m \in M : /\ IsAssistant(m) => pop_last_assistant(Append(h, m)) = h
                         /\ ~IsAssistant(m) => pop_last_assistant(Append(h, m)) = Append(h, m)
                         /\ ~IsAssistant(m) => ~Ends(Append(h, m))
         /\ \A m : _append_history_message(h, m) =
                     IF IsAssistant(m) THEN Append(pop_last_assistant(h), m) ELSE Append(h, m)
<1>1. Len(h) \in Nat /\ (h # <<>> <=> Len(h) # 0)
  OBVIOUS
<1>2. ~Ends(h) => pop_last_assistant(h) = h
  BY <1>1 DEF Ends, pop_last_assistant, Last
<1>3. Part(pop_last_assistant(h), h)
  <2>1. CASE h # <<>> /\ IsAssistant(Last(h))
    <3>1. PICK p : p = SubSeq(h, 1, Len(h) - 1)
      OBVIOUS
    <3>2. p = pop_last_assistant(h)
      BY <2>1, <3>1 DEF pop_last_assistant, Front
    <3>3. Len(h) - 1 \in Int /\ 1 <= Len(h) - 1 + 1 /\ \A j \in 1..(Len(h) - 1) : h[j] \in M
      BY <1>1, <2>1
    <3>4. Len(p) = Len(h) - 1 /\ \A j \in 1..Len(p) : p[j] = h[j]
      <4>1. PICK N \in Nat : N = Len(h) /\ N > 0
        BY <1>1, <2>1
      <4>2. N - 1 \in Int /\ \A j \in 1..(N - 1) : h[j] \in M
        BY <3>3, <4>1
      <4>3. p = SubSeq(h, 1, N - 1)
        BY <3>1, <4>1
      <4>4. /\ Len(p) = IF 1 <= N - 1 THEN N - 1 - 1 + 1 ELSE 0
            /\ \A i \in 1..(N - 1 - 1 + 1) : p[i] = h[1 + i - 1]
        BY <4>2, <4>3, SubSeqProperties
      <4>5. Len(p) = N - 1
        BY <4>1, <4>4
      <4>6. N - 1 - 1 + 1 = N - 1 /\ \A i \in 1..(N - 1) : 1 + i - 1 = i
        OBVIOUS
      <4>7. \A i \in 1..(N - 1) : p[i] = h[i]
        BY <4>4, <4>6
      <4> QED BY <4>1, <4>5, <4>7
    <3>5. Len(p) \in Nat /\ Len(p) <= Len(h)
      BY <1>1, <2>1, <3>4
    <3> QED BY <1>1, <3>2, <3>4, <3>5, PartPrefix
  <2>2. CASE ~(h # <<>> /\ IsAssistant(Last(h)))
    <3>1. pop_last_assistant(h) = h
      BY <2>2 DEF pop_last_assistant
    <3> QED BY <1>1, <3>1, PartPrefix
  <2> QED BY <2>1, <2>2
<1>4. ASSUME NEW m \in M
      PROVE  /\ IsAssistant(m) => pop_last_assistant(Append(h, m)) = h
             /\ ~IsAssistant(m) => pop_last_assistant(Append(h, m)) = Append(h, m)
             /\ ~IsAssistant(m) => ~Ends(Append(h, m))
  <2>1. PICK p : p = Append(h, m)
    OBVIOUS
  <2>2. p # <<>> /\ p[Len(p)] = m /\ Len(p) = Len(h) + 1
    BY <2>1
  <2>3. SubSeq(p, 1, Len(p) - 1) = h
    BY <1>1, <2>1, <2>2
  <2> QED BY <2>1, <2>2, <2>3 DEF pop_last_assistant, Last, Front, Ends
<1>5. ASSUME NEW m
      PROVE  _append_history_message(h, m) = IF IsAssistant(m) THEN Append(pop_last_assistant(h), m) ELSE Append(h, m)
  BY DEF _append_history_message, pop_last_assistant
<1> QED BY <1>2, <1>3, <1>4, <1>5

\* A compacted history is part of the one before, and ends the same way or with the summary.
LEMMA CompactedPart ==
  ASSUME NEW g, NEW h, NEW b, Compacts(g, h, b)
  PROVE  Part(g, h) /\ (Ends(g) => Ends(h))
<1>0. /\ Len(h) \in Nat /\ b \in 1..Len(h) /\ Len(g) = Len(h) - b + 1 /\ Len(g) \in Nat /\ g[1] = Note
      /\ \A i \in 2..Len(g) : g[i] = h[b + i - 1] /\ b + i - 1 \in 1..Len(h)
  BY DEF Compacts
<1>1. PICK e : e = [i \in 1..Len(g) |-> b + i - 1]
  OBVIOUS
<1>2. \A i \in 1..Len(g) : e[i] = b + i - 1 /\ (i = 1 \/ i \in 2..Len(g))
  BY <1>0, <1>1
<1>3. \A i \in 1..Len(g) : g[i] # Note => e[i] \in 1..Len(h) /\ h[e[i]] = g[i]
  BY <1>0, <1>2
<1>4. \A i, j \in 1..Len(g) : i < j => e[i] < e[j]
  BY <1>0, <1>2
<1>5. Part(g, h)
  BY <1>3, <1>4 DEF Embeds, Part
<1>6. ASSUME Ends(g) PROVE Ends(h)
  <2>1. g[Len(g)] # Note
    BY <1>6, RoleFacts DEF Ends, IsAssistant
  <2>2. Len(g) \in 2..Len(g) /\ b + Len(g) - 1 = Len(h) /\ Len(h) # 0
    BY <1>0, <2>1
  <2>3. g[Len(g)] = h[b + Len(g) - 1]
    BY <1>0, <2>2
  <2> QED BY <1>6, <2>2, <2>3 DEF Ends
<1> QED BY <1>5, <1>6

\* So is one without its old read-only calls: the last message is too recent for them.
LEMMA RemovedPart ==
  ASSUME NEW C, NEW h \in Seq(Sound(C)), NEW readOnly
  PROVE  /\ Part(remove_read_only_pairs(h, readOnly), h)
         /\ Ends(remove_read_only_pairs(h, readOnly)) => Ends(h)
<1>1. PICK g : g = remove_read_only_pairs(h, readOnly)
  OBVIOUS
<1>2. PICK pairs : pairs = ReadOnlyPairs(h, readOnly)
  OBVIOUS
<1>3. PICK p : Thins(g, h, pairs, p)
  BY <1>1, <1>2, RemovedType
<1>4. /\ Len(h) \in Nat /\ Len(g) \in Nat /\ \A i \in 1..Len(g) : p[i] \in 1..Len(h)
      /\ \A i \in 1..Len(g) : g[i] # Note => p[i] \notin Removed(pairs) /\ g[i] = h[p[i]]
      /\ \A i, j \in 1..Len(g) : i < j => p[i] < p[j]
      /\ \A k \in 1..Len(h) : k \notin Removed(pairs) => \E i \in 1..Len(g) : p[i] = k
  BY <1>3 DEF Thins
<1>5. Part(g, h)
  BY <1>4 DEF Embeds, Part
<1>6. Len(h) \notin Removed(pairs)
  <2>1. PICK b : b = find_compaction_boundary(h)
    OBVIOUS
  <2>2. b \in 0..Len(h) /\ (b = 0 \/ b < Len(h))
    BY <2>1, BoundaryFacts
  <2>3. pairs \subseteq 1..(b - 1)
    BY <1>2, <2>1 DEF ReadOnlyPairs
  <2>4. \A k \in pairs : k \in Nat /\ k # Len(h) /\ k + 1 # Len(h)
    BY <1>4, <2>2, <2>3
  <2> QED BY <2>4 DEF Removed
<1>7. ASSUME Ends(g) PROVE Ends(h)
  <2>1. Len(g) \in 1..Len(g) /\ g[Len(g)] # Note
    BY <1>4, <1>7, RoleFacts DEF Ends, IsAssistant
  <2>2. g[Len(g)] = h[p[Len(g)]] /\ p[Len(g)] \in 1..Len(h)
    BY <1>4, <2>1
  <2>3. Len(h) \in 1..Len(h)
    BY <1>4, <2>2
  <2>4. PICK x \in 1..Len(g) : p[x] = Len(h)
    BY <1>4, <1>6, <2>3
  <2>5. ~(x < Len(g))
    <3>1. x < Len(g) => p[x] < p[Len(g)]
      BY <1>4, <2>1
    <3> QED BY <1>4, <2>2, <2>4, <3>1
  <2>6. x = Len(g)
    BY <1>4, <2>5
  <2> QED BY <1>7, <2>2, <2>3, <2>4, <2>6 DEF Ends
<1> QED BY <1>1, <1>5, <1>7
-----------------------------------------------------------------------------
(* Finding a part of a history, and the end of a repaired one *)

\* q says where in s the elements of t are, in order.
Finds(q, t, s) ==
  /\ Len(t) \in Nat /\ Len(s) \in Nat
  /\ \A i \in 1..Len(t) : q[i] \in 1..Len(s) /\ t[i] = s[q[i]]
  /\ \A i, j \in 1..Len(t) : i < j => q[i] < q[j]

\* Whatever is in s in order is found by Matching, which takes the first that fits.
LEMMA MatchingFinds ==
  ASSUME NEW t, NEW s, NEW q, Finds(q, t, s)
  PROVE  IsSubsequence(t, s)
<1> USE DEF Finds
<1>1. PICK f : f = Matching(t, s)
  OBVIOUS
<1> DEFINE e(n) == IF n = 0 THEN 0
                   ELSE IF f[n - 1] < Len(t) /\ t[f[n - 1] + 1] = s[n] THEN f[n - 1] + 1 ELSE f[n - 1]
<1>2. f = [n \in 0..Len(s) |-> e(n)]
  BY <1>1, MatchingDef
<1> HIDE DEF e
<1>3. \A n \in 0..Len(s) : f[n] = e(n)
  BY <1>2
<1> USE DEF e
<1>4. f[0] = 0
  BY <1>3
<1>5. ASSUME NEW n \in 0..(Len(s) - 1)
      PROVE  f[n + 1] = IF f[n] < Len(t) /\ t[f[n] + 1] = s[n + 1] THEN f[n] + 1 ELSE f[n]
  <2>1. n + 1 \in 0..Len(s) /\ n + 1 # 0 /\ n + 1 - 1 = n
    OBVIOUS
  <2> QED BY <2>1, <1>3
<1> HIDE DEF e
<1> DEFINE S == {n \in 0..Len(s) : f[n] \in 0..Len(t) /\ \A i \in 1..Len(t) : q[i] <= n => i <= f[n]}
<1>6. 0 \in S
  BY <1>4
<1>7. ASSUME NEW n \in 0..(Len(s) - 1), n \in S PROVE n + 1 \in S
  <2>1. f[n] \in 0..Len(t) /\ \A i \in 1..Len(t) : q[i] <= n => i <= f[n]
    BY <1>7
  <2>2. f[n + 1] \in 0..Len(t) /\ f[n] <= f[n + 1]
    BY <1>5, <2>1
  <2>3. ASSUME NEW i \in 1..Len(t), q[i] <= n + 1 PROVE i <= f[n + 1]
    <3>1. CASE q[i] <= n
      BY <2>1, <2>2, <3>1
    <3>2. CASE ~(q[i] <= n)
      <4>1. q[i] = n + 1 /\ t[i] = s[n + 1]
        BY <2>3, <3>2
      <4>2. i - 1 <= f[n]
        <5>1. CASE i = 1
          BY <2>1, <5>1
        <5>2. CASE i # 1
          <6>1. i - 1 \in 1..Len(t) /\ i - 1 < i
            BY <5>2
          <6>2. q[i - 1] < q[i] /\ q[i - 1] \in 1..Len(s)
            BY <6>1
          <6>3. q[i - 1] <= n
            BY <4>1, <6>2
          <6> QED BY <2>1, <6>1, <6>3
        <5> QED BY <5>1, <5>2
      <4>3. CASE i <= f[n]
        BY <2>1, <2>2, <4>3
      <4>4. CASE ~(i <= f[n])
        <5>1. i = f[n] + 1 /\ f[n] < Len(t)
          BY <2>1, <4>2, <4>4
        <5>2. f[n + 1] = f[n] + 1
          BY <1>5, <4>1, <5>1
        <5> QED BY <5>1, <5>2
      <4> QED BY <4>3, <4>4
    <3> QED BY <3>1, <3>2
  <2> QED BY <2>2, <2>3
<1>8. Len(s) \in S
  <2>1. \A n \in 0..(Len(s) - 1) : n \in S => n + 1 \in S
    BY <1>7
  <2> HIDE DEF S
  <2>2. 0..Len(s) \subseteq S
    BY <1>6, <2>1, Positions
  <2> QED BY <2>2
<1>9. f[Len(s)] \in 0..Len(t) /\ \A i \in 1..Len(t) : i <= f[Len(s)]
  BY <1>8
<1>10. f[Len(s)] = Len(t)
  BY <1>9
<1> QED BY <1>1, <1>10 DEF IsSubsequence

\* What HistoryReloads asks for.
LEMMA PartIsSubsequence ==
  ASSUME NEW M, NEW h \in Seq(M), NEW g \in Seq(M), Part(h, g)
  PROVE  IsSubsequence(KeepAt(h, {i \in DOMAIN h : h[i] # Note}), g)
<1>1. PICK P : P = {i \in DOMAIN h : h[i] # Note}
  OBVIOUS
<1>2. PICK t : t = KeepAt(h, P)
  OBVIOUS
<1>3. t \in Seq(M)
  BY <1>2, KeepAtProperties
<1>4. PICK p : KeptBy(t, h, P, Len(h), p)
  BY <1>2, KeepAtProperties
<1>5. PICK e : Embeds(e, h, g)
  BY DEF Part
<1>6. PICK q : q = [i \in 1..Len(t) |-> e[p[i]]]
  OBVIOUS
<1>7. \A i \in 1..Len(t) : q[i] = e[p[i]] /\ p[i] \in 1..Len(h) /\ h[p[i]] # Note /\ t[i] = h[p[i]]
  BY <1>1, <1>4, <1>6 DEF KeptBy
<1>8. \A i \in 1..Len(t) : q[i] \in 1..Len(g) /\ t[i] = g[q[i]]
  BY <1>5, <1>7 DEF Embeds
<1>9. ASSUME NEW i \in 1..Len(t), NEW j \in 1..Len(t), i < j PROVE q[i] < q[j]
  <2>1. p[i] < p[j]
    BY <1>4, <1>9 DEF KeptBy
  <2> QED BY <1>5, <1>7, <2>1 DEF Embeds
<1>10. Len(t) \in Nat /\ Len(g) \in Nat
  BY <1>3
<1>11. \A i, j \in 1..Len(t) : i < j => q[i] < q[j]
  BY <1>9
<1>12. Finds(q, t, g)
  BY <1>8, <1>10, <1>11 DEF Finds
<1>13. IsSubsequence(t, g)
  BY <1>12, MatchingFinds
<1> QED BY <1>1, <1>2, <1>13

\* The last of what KeepAt keeps.
LEMMA KeepAtLast ==
  ASSUME NEW M, NEW s \in Seq(M), NEW P, NEW k \in 1..Len(s), k \in P, \A j \in (k + 1)..Len(s) : j \notin P
  PROVE  KeepAt(s, P) \in Seq(M) /\ Len(KeepAt(s, P)) > 0 /\ KeepAt(s, P)[Len(KeepAt(s, P))] = s[k]
<1>1. PICK t : t = KeepAt(s, P)
  OBVIOUS
<1>2. t \in Seq(M)
  BY <1>1, KeepAtProperties
<1>3. PICK p : KeptBy(t, s, P, Len(s), p)
  BY <1>1, KeepAtProperties
<1>4. PICK x \in 1..Len(t) : p[x] = k
  BY <1>3 DEF KeptBy
<1>5. Len(t) \in Nat /\ Len(s) \in Nat /\ Len(t) \in 1..Len(t)
  BY <1>2, <1>4
<1>6. p[Len(t)] \in 1..Len(s) /\ p[Len(t)] \in P /\ t[Len(t)] = s[p[Len(t)]]
  BY <1>3, <1>5 DEF KeptBy
<1>7. p[Len(t)] <= k
  BY <1>5, <1>6
<1>8. ~(x < Len(t))
  <2>1. x < Len(t) => p[x] < p[Len(t)]
    BY <1>3, <1>5 DEF KeptBy
  <2> QED BY <1>4, <1>6, <1>7, <2>1
<1>9. x = Len(t)
  BY <1>5, <1>8
<1> QED BY <1>1, <1>2, <1>4, <1>5, <1>6, <1>9

\* Repairing does not uncover an assistant message: one that is left last asked for
\* nothing, so that no result can have followed it.
LEMMA RepairedEnds ==
  ASSUME NEW C, NEW h \in Seq(Sound(C)), Follow(h, {}), ~Ends(h)
  PROVE  ~Ends(repair_orphan_tool_results(h))
<1>1. PICK r : r = repair_orphan_tool_results(h)
  OBVIOUS
<1>2. r \in Seq(Sound(C)) /\ Paired(r) /\ Rest(r) = Rest(h)
  BY <1>1, RepairCorrect
<1> SUFFICES ASSUME Ends(r) PROVE FALSE
  BY <1>1
<1>3. Len(r) \in Nat /\ Len(r) \in 1..Len(r) /\ IsAssistant(r[Len(r)]) /\ DOMAIN r = 1..Len(r)
  BY <1>2 DEF Ends
<1>4. r[Len(r)].ids = {}
  <2>1. r \in Seq(Messages(C))
    BY <1>2, SeqMonotonic DEF Sound
  <2>2. PICK n \in Len(r)..Len(r) : AnsweredIn(r, Len(r) + 1, n) = r[Len(r)].ids
    BY <1>2, <1>3 DEF Paired
  <2>3. n < Len(r) + 1 /\ n \in Int /\ Len(r) + 1 \in Int
    BY <1>3, <2>2
  <2> QED BY <2>2, <2>3, AnsweredNone
<1>5. Len(Rest(r)) > 0 /\ Rest(r)[Len(Rest(r))] = r[Len(r)]
  <2>1. PICK P : P = {i \in DOMAIN r : r[i].role # "results"}
    OBVIOUS
  <2>2. Len(r) \in P /\ \A j \in (Len(r) + 1)..Len(r) : j \notin P
    BY <1>3, <2>1 DEF IsAssistant
  <2>3. Len(KeepAt(r, P)) > 0 /\ KeepAt(r, P)[Len(KeepAt(r, P))] = r[Len(r)]
    BY <1>2, <1>3, <2>2, KeepAtLast
  <2>4. Rest(r) = KeepAt(r, P)
    BY <2>1 DEF Rest
  <2> QED BY <2>3, <2>4
<1>6. Len(h) \in Nat /\ DOMAIN h = 1..Len(h) /\ \A i \in 1..Len(h) : h[i] \in Sound(C)
  OBVIOUS
<1>7. PICK a \in 1..Len(h) : h[a] = r[Len(r)] /\ \A j \in (a + 1)..Len(h) : IsResult(h[j])
  <2>1. PICK P : P = {i \in DOMAIN h : h[i].role # "results"}
    OBVIOUS
  <2>2. P \subseteq 1..Len(h)
    BY <1>6, <2>1
  <2>3. P # {}
    <3>1. PICK t : t = KeepAt(h, P)
      OBVIOUS
    <3>2. PICK p : KeptBy(t, h, P, Len(h), p)
      BY <3>1, KeepAtProperties
    <3>3. t \in Seq(Sound(C))
      BY <3>1, KeepAtProperties
    <3>4. Len(t) > 0
      BY <1>2, <1>5, <2>1, <3>1 DEF Rest
    <3>5. Len(t) \in 1..Len(t)
      BY <3>3, <3>4
    <3> QED BY <3>2, <3>5 DEF KeptBy
  <2>4. PICK a : a = Max(P)
    OBVIOUS
  <2>5. a \in P /\ \A y \in P : y <= a
    BY <1>6, <2>2, <2>3, <2>4, LastMember
  <2>6. \A j \in (a + 1)..Len(h) : j \notin P
    BY <1>6, <2>2, <2>5
  <2>7. Rest(h)[Len(Rest(h))] = h[a]
    <3>1. KeepAt(h, P)[Len(KeepAt(h, P))] = h[a]
      BY <2>2, <2>5, <2>6, KeepAtLast
    <3>2. Rest(h) = KeepAt(h, P)
      BY <2>1 DEF Rest
    <3> QED BY <3>1, <3>2
  <2>8. \A j \in (a + 1)..Len(h) : j \in DOMAIN h
    BY <1>6, <2>2, <2>5
  <2>9. \A j \in (a + 1)..Len(h) : IsResult(h[j])
    BY <2>1, <2>6, <2>8 DEF IsResult
  <2> QED BY <1>2, <1>5, <2>2, <2>5, <2>7, <2>9
<1>8. IsAssistant(h[a]) /\ h[a].ids = {}
  BY <1>3, <1>4, <1>7
<1>9. Len(h) \in (a + 1)..Len(h) /\ IsResult(h[Len(h)]) /\ Len(h) \in 1..Len(h)
  <2>1. PICK N \in Nat : N = Len(h)
    BY <1>6
  <2>2. a \in 1..N
    BY <2>1
  <2>3. N # 0 => ~IsAssistant(h[N])
    BY <2>1 DEF Ends
  <2>4. a # N
    BY <1>8, <2>2, <2>3
  <2>5. N \in (a + 1)..N /\ N \in 1..N
    BY <2>2, <2>4
  <2> QED BY <1>7, <2>1, <2>5
<1>10. h[Len(h)].ids # {}
  <2>1. h[Len(h)] \in Messages(C) /\ h[Len(h)] # Results({})
    BY <1>6, <1>9 DEF Sound
  <2> QED BY <1>9, <2>1, MessageFacts DEF IsResult
<1>11. \/ \E b \in 1..(Len(h) - 1) : Own(h, Len(h), b) /\ \A j \in (b + 1)..Len(h) : ResultOrContext(h[j])
       \/ AtHead(h, Len(h))
  BY <1>9, <1>10 DEF Follow
<1>12. \A m : ~(IsAssistant(m) /\ IsResult(m)) /\ ~(IsAssistant(m) /\ ResultOrContext(m)) /\ ~(IsAssistant(m) /\ m = Note)
  BY RoleFacts DEF IsAssistant, IsResult, ResultOrContext
<1>13. ASSUME NEW b \in 1..(Len(h) - 1), Own(h, Len(h), b), \A j \in (b + 1)..Len(h) : ResultOrContext(h[j])
       PROVE  FALSE
  <2>1. IsAssistant(h[b]) /\ h[Len(h)].ids \subseteq h[b].ids
    BY <1>13 DEF Own
  <2>2. ~(a \in (b + 1)..Len(h)) /\ ~(b \in (a + 1)..Len(h))
    BY <1>7, <1>8, <1>12, <1>13, <2>1
  <2>3. a = b
    BY <1>6, <2>2
  <2> QED BY <1>8, <1>10, <2>1, <2>3
<1>14. ASSUME AtHead(h, Len(h)) PROVE FALSE
  <2>1. a = 1 \/ a \in 2..Len(h)
    BY <1>6
  <2> QED BY <1>8, <1>12, <1>14, <2>1 DEF AtHead
<1> QED BY <1>11, <1>13, <1>14
=============================================================================
