-------------------------- MODULE SqlBuilderProofs --------------------------
(***************************************************************************)
(* Theorems about SqlBuilder, for any number of columns, arguments,        *)
(* conditions and chains.  The first part is about FlattenSeq, the fold    *)
(* the statement and its placeholders are put together with.               *)
(***************************************************************************)
EXTENDS SqlBuilder, FiniteSetTheorems, SequenceTheorems, TLAPS

-----------------------------------------------------------------------------
(* Induction, and what FlattenSeq returns *)

\* The set of the numbers a claim holds for: adding one maps its part up to a number
\* it lacks into that part, so onto it, and leaves 0 out.
LEMMA StepsReach ==
  ASSUME NEW S, 0 \in S, \A n \in Nat : n \in S => n + 1 \in S
  PROVE  Nat \subseteq S
<1> SUFFICES ASSUME NEW n \in Nat, n \notin S PROVE FALSE
  OBVIOUS
<1> DEFINE T == S \cap (0 .. n)
           f == [x \in T |-> x + 1]
<1>1. IsFiniteSet(0 .. n)
  BY FS_Interval
<1>2. IsFiniteSet(T)
  BY <1>1, FS_Subset
<1>3. f \in Injection(T, T)
  BY DEF Injection, IsInjective
<1>4. f \in Surjection(T, T)
  BY <1>2, <1>3, FS_Injection
<1>5. 0 \in T
  OBVIOUS
<1>6. PICK x \in T : f[x] = 0
  BY <1>4, <1>5 DEF Surjection
<1>7. QED
  BY <1>6

\* The fold of FlattenSeq has a value at every place.
LEMMA FlattenRun ==
  ASSUME NEW s, NEW n \in Nat
  PROVE  \E f : f = [i \in 1 .. n |-> IF i = 1 THEN s[i] ELSE f[i-1] \o s[i]]
<1> DEFINE Run(f, m) == \A i \in 1 .. m : f[i] = IF i = 1 THEN s[i] ELSE f[i-1] \o s[i]
           S == {m \in Nat : \E f : Run(f, m)}
<1>1. 0 \in S
  OBVIOUS
<1>2. ASSUME NEW m \in Nat, m \in S PROVE m + 1 \in S
  <2>1. PICK f : Run(f, m)
    BY <1>2
  <2> DEFINE g == [i \in 1 .. (m + 1) |->
                     IF i <= m THEN f[i] ELSE IF i = 1 THEN s[i] ELSE f[i-1] \o s[i]]
  <2>2. \A i \in 1 .. m : g[i] = f[i]
    OBVIOUS
  <2>3. g[m + 1] = IF m + 1 = 1 THEN s[m + 1] ELSE f[m] \o s[m + 1]
    OBVIOUS
  <2> HIDE DEF g
  <2>4. ASSUME NEW i \in 1 .. (m + 1)
        PROVE  g[i] = IF i = 1 THEN s[i] ELSE g[i-1] \o s[i]
    <3>1. CASE i = m + 1
      <4>1. i # 1 => g[i-1] = f[m]
        BY <2>2, <3>1
      <4>2. QED
        BY <2>3, <3>1, <4>1
    <3>2. CASE i # m + 1
      <4>1. i \in 1 .. m /\ g[i] = f[i]
        BY <2>2, <3>2
      <4>2. i # 1 => g[i-1] = f[i-1]
        BY <2>2, <4>1
      <4>3. f[i] = IF i = 1 THEN s[i] ELSE f[i-1] \o s[i]
        BY <2>1, <4>1
      <4>4. QED
        BY <4>1, <4>2, <4>3
    <3>3. QED
      BY <3>1, <3>2
  <2>5. QED
    BY <2>4
<1>3. n \in S
  BY <1>1, <1>2, StepsReach
<1>4. PICK f : Run(f, n)
  BY <1>3
<1> DEFINE g == [i \in 1 .. n |-> f[i]]
           h == [i \in 1 .. n |-> IF i = 1 THEN s[i] ELSE g[i-1] \o s[i]]
<1>5. ASSUME NEW i \in 1 .. n PROVE g[i] = h[i]
  <2>1. i # 1 => g[i-1] = f[i-1]
    OBVIOUS
  <2>2. f[i] = IF i = 1 THEN s[i] ELSE f[i-1] \o s[i]
    BY <1>4
  <2>3. g[i] = f[i] /\ h[i] = IF i = 1 THEN s[i] ELSE g[i-1] \o s[i]
    OBVIOUS
  <2>4. QED
    BY <2>1, <2>2, <2>3
<1>6. g = h
  <2>1. DOMAIN g = DOMAIN h /\ g = [i \in DOMAIN g |-> g[i]] /\ h = [i \in DOMAIN h |-> h[i]]
    OBVIOUS
  <2>2. \A i \in DOMAIN g : g[i] = h[i]
    BY <1>5
  <2> HIDE DEF g, h
  <2>3. QED
    BY <2>1, <2>2
<1>7. QED
  BY <1>6

\* What FlattenSeq returns is the last value of that fold.
LEMMA FlattenSteps ==
  ASSUME NEW T, NEW s \in Seq(T), s # <<>>
  PROVE  \E f : /\ \A i \in 1 .. Len(s) : f[i] = IF i = 1 THEN s[i] ELSE f[i-1] \o s[i]
                /\ FlattenSeq(s) = f[Len(s)]
<1> DEFINE F == CHOOSE f : f = [i \in 1 .. Len(s) |-> IF i = 1 THEN s[i] ELSE f[i-1] \o s[i]]
<1>1. Len(s) \in Nat
  OBVIOUS
<1>2. \E f : f = [i \in 1 .. Len(s) |-> IF i = 1 THEN s[i] ELSE f[i-1] \o s[i]]
  BY <1>1, FlattenRun, Zenon
<1>3. F = [i \in 1 .. Len(s) |-> IF i = 1 THEN s[i] ELSE F[i-1] \o s[i]]
  BY <1>2, Zenon
<1>4. FlattenSeq(s) = F[Len(s)]
  BY DEF FlattenSeq
<1> HIDE DEF F
<1>5. \A i \in 1 .. Len(s) : F[i] = IF i = 1 THEN s[i] ELSE F[i-1] \o s[i]
  BY <1>3, Zenon
<1>6. QED
  BY <1>4, <1>5

LEMMA FlattenTypes ==
  ASSUME NEW T, NEW s \in Seq(Seq(T))
  PROVE  FlattenSeq(s) \in Seq(T)
<1>1. CASE s = <<>>
  BY <1>1 DEF FlattenSeq
<1>2. CASE s # <<>>
  <2>1. PICK f : /\ \A i \in 1 .. Len(s) : f[i] = IF i = 1 THEN s[i] ELSE f[i-1] \o s[i]
                 /\ FlattenSeq(s) = f[Len(s)]
    BY <1>2, FlattenSteps
  <2> DEFINE S == {m \in Nat : m \in 1 .. Len(s) => f[m] \in Seq(T)}
  <2>2. ASSUME NEW m \in Nat, m \in S PROVE m + 1 \in S
    <3> SUFFICES ASSUME m + 1 \in 1 .. Len(s) PROVE f[m + 1] \in Seq(T)
      OBVIOUS
    <3>1. s[m + 1] \in Seq(T) /\ (m + 1) - 1 = m
      OBVIOUS
    <3>2. f[m + 1] = IF m = 0 THEN s[m + 1] ELSE f[m] \o s[m + 1]
      BY <2>1, <3>1
    <3>3. CASE m = 0
      BY <3>1, <3>2, <3>3
    <3>4. CASE m # 0
      <4>1. f[m] \in Seq(T)
        BY <2>2, <3>4
      <4>2. QED
        BY <3>1, <3>2, <3>4, <4>1, ConcatProperties
    <3>5. QED
      BY <3>3, <3>4
  <2>3. Len(s) \in S
    <3>1. 0 \in S /\ Len(s) \in Nat
      OBVIOUS
    <3> HIDE DEF S
    <3>2. QED
      BY <2>2, <3>1, StepsReach
  <2>4. QED
    BY <1>2, <2>1, <2>3
<1>3. QED
  BY <1>1, <1>2

LEMMA FlattenAppend ==
  ASSUME NEW T, NEW s \in Seq(Seq(T)), NEW x \in Seq(T)
  PROVE  FlattenSeq(Append(s, x)) = FlattenSeq(s) \o x
<1> DEFINE t == Append(s, x)
<1>1. /\ t \in Seq(Seq(T)) /\ t # <<>> /\ Len(t) = Len(s) + 1 /\ t[Len(s) + 1] = x
      /\ \A i \in 1 .. Len(s) : t[i] = s[i]
  BY AppendProperties
<1> HIDE DEF t
<1>2. PICK g : /\ \A i \in 1 .. Len(t) : g[i] = IF i = 1 THEN t[i] ELSE g[i-1] \o t[i]
               /\ FlattenSeq(t) = g[Len(t)]
  BY <1>1, FlattenSteps
<1>3. CASE s = <<>>
  <2>1. FlattenSeq(t) = x
    BY <1>1, <1>2, <1>3
  <2>2. FlattenSeq(s) \o x = x
    BY <1>3 DEF FlattenSeq
  <2>3. QED
    BY <2>1, <2>2 DEF t
<1>4. CASE s # <<>>
  <2>1. PICK f : /\ \A i \in 1 .. Len(s) : f[i] = IF i = 1 THEN s[i] ELSE f[i-1] \o s[i]
                 /\ FlattenSeq(s) = f[Len(s)]
    BY <1>4, FlattenSteps
  <2> DEFINE S == {m \in Nat : m \in 1 .. Len(s) => g[m] = f[m]}
  <2>2. ASSUME NEW m \in Nat, m \in S PROVE m + 1 \in S
    <3> SUFFICES ASSUME m + 1 \in 1 .. Len(s) PROVE g[m + 1] = f[m + 1]
      OBVIOUS
    <3>1. /\ m + 1 \in 1 .. Len(t) /\ t[m + 1] = s[m + 1]
          /\ (m + 1) - 1 = m
      BY <1>1
    <3>2. g[m + 1] = IF m = 0 THEN s[m + 1] ELSE g[m] \o s[m + 1]
      BY <1>2, <3>1
    <3>3. f[m + 1] = IF m = 0 THEN s[m + 1] ELSE f[m] \o s[m + 1]
      BY <2>1, <3>1
    <3>4. QED
      BY <2>2, <3>2, <3>3
  <2>3. Len(s) \in S
    <3>1. 0 \in S /\ Len(s) \in Nat
      OBVIOUS
    <3> HIDE DEF S
    <3>2. QED
      BY <2>2, <3>1, StepsReach
  <2>4. Len(s) \in 1 .. Len(s) /\ Len(t) \in 1 .. Len(t) /\ Len(t) # 1 /\ Len(t) - 1 = Len(s)
    BY <1>1, <1>4
  <2>5. g[Len(s)] = FlattenSeq(s)
    BY <2>1, <2>3, <2>4
  <2>6. g[Len(t)] = g[Len(s)] \o x
    BY <1>1, <1>2, <2>4
  <2>7. QED
    BY <1>2, <2>5, <2>6 DEF t
<1>5. QED
  BY <1>3, <1>4

LEMMA PrefixGrows ==
  ASSUME NEW T, NEW t \in Seq(T), NEW m \in Nat, m + 1 \in 1 .. Len(t)
  PROVE  /\ [i \in 1 .. m |-> t[i]] \in Seq(T) /\ t[m + 1] \in T
         /\ [i \in 1 .. (m + 1) |-> t[i]] = Append([i \in 1 .. m |-> t[i]], t[m + 1])
<1> DEFINE p == [i \in 1 .. m |-> t[i]]
           q == [i \in 1 .. (m + 1) |-> t[i]]
<1>1. p \in Seq(T) /\ q \in Seq(T) /\ Len(p) = m /\ Len(q) = m + 1 /\ t[m + 1] \in T
  OBVIOUS
<1>2. \A i \in 1 .. (m + 1) : q[i] = IF i <= m THEN p[i] ELSE t[m + 1]
  OBVIOUS
<1> HIDE DEF p, q
<1>3. /\ Append(p, t[m + 1]) \in Seq(T) /\ Len(Append(p, t[m + 1])) = m + 1
      /\ \A i \in 1 .. (m + 1) : Append(p, t[m + 1])[i] = IF i <= m THEN p[i] ELSE t[m + 1]
  BY <1>1, AppendProperties
<1>4. q = Append(p, t[m + 1])
  BY <1>1, <1>2, <1>3, SeqEqual
<1>5. QED
  BY <1>1, <1>4 DEF p, q

LEMMA PrefixAll ==
  ASSUME NEW T, NEW t \in Seq(T)
  PROVE  [i \in 1 .. Len(t) |-> t[i]] = t
OBVIOUS

LEMMA ConcatGroups == \A T : \A a, b, c \in Seq(T) : (a \o b) \o c = a \o (b \o c)
BY ConcatAssociative

LEMMA FlattenConcat ==
  ASSUME NEW T, NEW s \in Seq(Seq(T)), NEW t \in Seq(Seq(T))
  PROVE  FlattenSeq(s \o t) = FlattenSeq(s) \o FlattenSeq(t)
<1> DEFINE p(m) == [i \in 1 .. m |-> t[i]]
           S == {m \in Nat : m \in 0 .. Len(t) =>
                               FlattenSeq(s \o p(m)) = FlattenSeq(s) \o FlattenSeq(p(m))}
<1>1. \A a, b, c \in Seq(T) : (a \o b) \o c = a \o (b \o c)
  BY ConcatGroups, SMTT(60)
<1>2. \A a, b, c \in Seq(Seq(T)) : (a \o b) \o c = a \o (b \o c)
  BY ConcatGroups, SMTT(60)
<1>3. 0 \in S
  <2>1. p(0) = <<>>
    OBVIOUS
  <2>2. s \o <<>> = s /\ FlattenSeq(s) \o <<>> = FlattenSeq(s)
    BY FlattenTypes, ConcatEmptySeq
  <2>3. FlattenSeq(<<>>) = <<>>
    BY DEF FlattenSeq
  <2>4. FlattenSeq(s \o p(0)) = FlattenSeq(s) \o FlattenSeq(p(0))
    BY <2>1, <2>2, <2>3
  <2>5. QED
    BY <2>4
<1>4. ASSUME NEW m \in Nat, m \in S PROVE m + 1 \in S
  <2> SUFFICES ASSUME m + 1 \in 0 .. Len(t)
               PROVE  FlattenSeq(s \o p(m + 1)) = FlattenSeq(s) \o FlattenSeq(p(m + 1))
    OBVIOUS
  <2>1. /\ p(m) \in Seq(Seq(T)) /\ t[m + 1] \in Seq(T)
        /\ p(m + 1) = Append(p(m), t[m + 1])
    BY PrefixGrows
  <2>2. FlattenSeq(s \o p(m)) = FlattenSeq(s) \o FlattenSeq(p(m))
    BY <1>4
  <2> HIDE DEF p
  <2>3. /\ s \o Append(p(m), t[m + 1]) = Append(s \o p(m), t[m + 1])
        /\ s \o p(m) \in Seq(Seq(T))
    <3>1. <<t[m + 1]>> \in Seq(Seq(T))
      BY <2>1
    <3>2. (s \o p(m)) \o <<t[m + 1]>> = s \o (p(m) \o <<t[m + 1]>>)
      BY <1>2, <2>1, <3>1, Zenon
    <3>3. QED
      BY <2>1, <3>2, AppendIsConcat, ConcatProperties
  <2>4. FlattenSeq(s \o p(m + 1)) = FlattenSeq(s \o p(m)) \o t[m + 1]
    BY <2>1, <2>3, FlattenAppend
  <2>5. FlattenSeq(p(m + 1)) = FlattenSeq(p(m)) \o t[m + 1]
    BY <2>1, FlattenAppend
  <2>6. FlattenSeq(s) \in Seq(T) /\ FlattenSeq(p(m)) \in Seq(T)
    BY <2>1, FlattenTypes
  <2>7. (FlattenSeq(s) \o FlattenSeq(p(m))) \o t[m + 1] = FlattenSeq(s) \o (FlattenSeq(p(m)) \o t[m + 1])
    BY <1>1, <2>1, <2>6, Zenon
  <2>8. QED
    BY <2>2, <2>4, <2>5, <2>7
<1>5. Len(t) \in S
  <2>1. Len(t) \in Nat
    OBVIOUS
  <2> HIDE DEF S
  <2>2. QED
    BY <1>3, <1>4, <2>1, StepsReach
<1>6. p(Len(t)) = t
  BY PrefixAll
<1> HIDE DEF p
<1>7. QED
  BY <1>5, <1>6

-----------------------------------------------------------------------------
(* Pieces and their placeholders *)

ArgSet == [chain : Nat, place : Nat, i : Nat, sql : BOOLEAN]
Words == Kinds \cup Conditions \cup Joints \cup {"WHERE"}
Pieces == [word : Words, slots : Seq(ArgSet)]
NodeRecs == [column : Seq(ArgSet), operator : Conditions, args : Seq(ArgSet),
             joint : Joints \cup {Unjoined}]

LEMMA FlattenOne ==
  ASSUME NEW T, NEW x \in Seq(T)
  PROVE  FlattenSeq(<<x>>) = x
<1>1. <<x>> \in Seq(Seq(T)) /\ <<x>> # <<>> /\ Len(<<x>>) = 1 /\ <<x>>[1] = x
  OBVIOUS
<1>2. PICK f : /\ \A i \in 1 .. 1 : f[i] = IF i = 1 THEN <<x>>[i] ELSE f[i-1] \o <<x>>[i]
               /\ FlattenSeq(<<x>>) = f[1]
  BY <1>1, FlattenSteps
<1>3. QED
  BY <1>2

LEMMA FlattenNone == FlattenSeq(<<>>) = <<>>
BY DEF FlattenSeq

LEMMA SlotsTypes ==
  ASSUME NEW a \in Seq(Pieces)
  PROVE  /\ [i \in DOMAIN a |-> a[i].slots] \in Seq(Seq(ArgSet))
         /\ Slots(a) \in Seq(ArgSet)
<1>1. ASSUME NEW i \in 1 .. Len(a) PROVE a[i].slots \in Seq(ArgSet)
  <2>1. a[i] \in Pieces
    OBVIOUS
  <2>2. QED
    BY <2>1 DEF Pieces
<1>2. DOMAIN a = 1 .. Len(a) /\ Len(a) \in Nat
  OBVIOUS
<1>3. [i \in 1 .. Len(a) |-> a[i].slots] \in Seq(Seq(ArgSet))
  BY <1>1, <1>2
<1>4. QED
  BY <1>2, <1>3, FlattenTypes DEF Slots

LEMMA ConcatPointwise ==
  ASSUME NEW T, NEW a \in Seq(T), NEW b \in Seq(T), NEW c \in Seq(T), Len(c) = Len(a) + Len(b),
         \A i \in 1 .. Len(a) : c[i] = a[i], \A i \in 1 .. Len(b) : c[Len(a) + i] = b[i]
  PROVE  c = a \o b
<1>1. /\ a \o b \in Seq(T) /\ Len(a \o b) = Len(a) + Len(b)
      /\ \A i \in 1 .. Len(a) + Len(b) : (a \o b)[i] = IF i <= Len(a) THEN a[i] ELSE b[i - Len(a)]
  BY ConcatProperties
<1>2. ASSUME NEW i \in 1 .. Len(c) PROVE c[i] = (a \o b)[i]
  <2>1. CASE i <= Len(a)
    BY <1>1, <2>1
  <2>2. CASE ~(i <= Len(a))
    <3>1. i - Len(a) \in 1 .. Len(b) /\ Len(a) + (i - Len(a)) = i
      BY <2>2
    <3>2. c[i] = b[i - Len(a)]
      BY <3>1
    <3>3. QED
      BY <1>1, <2>2, <3>2
  <2>3. QED
    BY <2>1, <2>2
<1>3. QED
  BY <1>1, <1>2, SeqEqual

LEMMA ConcatParts ==
  ASSUME NEW T, NEW a \in Seq(T), NEW b \in Seq(T)
  PROVE  /\ a \o b \in Seq(T) /\ Len(a \o b) = Len(a) + Len(b)
         /\ \A i \in 1 .. Len(a) : (a \o b)[i] = a[i]
         /\ \A i \in 1 .. Len(b) : (a \o b)[Len(a) + i] = b[i]
<1>1. /\ a \o b \in Seq(T) /\ Len(a \o b) = Len(a) + Len(b)
      /\ \A i \in 1 .. Len(a) + Len(b) : (a \o b)[i] = IF i <= Len(a) THEN a[i] ELSE b[i - Len(a)]
  BY ConcatProperties
<1>2. ASSUME NEW i \in 1 .. Len(b) PROVE (a \o b)[Len(a) + i] = b[i]
  <2>1. Len(a) + i \in 1 .. Len(a) + Len(b) /\ ~(Len(a) + i <= Len(a)) /\ (Len(a) + i) - Len(a) = i
    OBVIOUS
  <2>2. QED
    BY <1>1, <2>1
<1>3. ASSUME NEW i \in 1 .. Len(a) PROVE (a \o b)[i] = a[i]
  <2>1. i \in 1 .. Len(a) + Len(b) /\ i <= Len(a)
    OBVIOUS
  <2>2. QED
    BY <1>1, <2>1
<1>4. QED
  BY <1>1, <1>2, <1>3

LEMMA SlotsConcat ==
  ASSUME NEW a \in Seq(Pieces), NEW b \in Seq(Pieces)
  PROVE  Slots(a \o b) = Slots(a) \o Slots(b)
<1>1. PICK ab \in Seq(Pieces) :
        /\ ab = a \o b /\ Len(ab) = Len(a) + Len(b)
        /\ \A i \in 1 .. Len(a) : ab[i] = a[i]
        /\ \A i \in 1 .. Len(b) : ab[Len(a) + i] = b[i]
  <2>1. /\ a \o b \in Seq(Pieces) /\ Len(a \o b) = Len(a) + Len(b)
        /\ \A i \in 1 .. Len(a) : (a \o b)[i] = a[i]
        /\ \A i \in 1 .. Len(b) : (a \o b)[Len(a) + i] = b[i]
    BY ConcatParts
  <2>2. QED
    BY <2>1, Zenon
<1>2. PICK sa \in Seq(Seq(ArgSet)) :
        sa = [i \in DOMAIN a |-> a[i].slots]
  BY SlotsTypes
<1>3. PICK sb \in Seq(Seq(ArgSet)) :
        sb = [i \in DOMAIN b |-> b[i].slots]
  BY SlotsTypes
<1>4. PICK sab \in Seq(Seq(ArgSet)) :
        sab = [i \in DOMAIN ab |-> ab[i].slots]
  BY SlotsTypes
<1>5. Len(sa) = Len(a) /\ \A i \in 1 .. Len(a) : sa[i] = a[i].slots
  BY <1>2
<1>6. Len(sb) = Len(b) /\ \A i \in 1 .. Len(b) : sb[i] = b[i].slots
  BY <1>3
<1>7. Len(sab) = Len(ab) /\ \A i \in 1 .. Len(ab) : sab[i] = ab[i].slots
  BY <1>4
<1>8. ASSUME NEW i \in 1 .. Len(sa) PROVE sab[i] = sa[i]
  <2>1. i \in 1 .. Len(a) /\ i \in 1 .. Len(ab)
    BY <1>1, <1>5
  <2>2. QED
    BY <1>1, <1>5, <1>7, <2>1, Zenon
<1>9. ASSUME NEW i \in 1 .. Len(sb) PROVE sab[Len(sa) + i] = sb[i]
  <2>1. i \in 1 .. Len(b) /\ Len(a) + i \in 1 .. Len(ab)
    BY <1>1, <1>6
  <2>2. QED
    BY <1>1, <1>5, <1>6, <1>7, <2>1, Zenon
<1>10. sab = sa \o sb
  <2>1. Len(sab) = Len(sa) + Len(sb)
    BY <1>1, <1>5, <1>6, <1>7, Zenon
  <2>2. QED
    BY <1>8, <1>9, <2>1, ConcatPointwise, Zenon
<1>11. FlattenSeq(sa \o sb) = FlattenSeq(sa) \o FlattenSeq(sb)
  BY FlattenConcat
<1>12. QED
  BY <1>1, <1>2, <1>3, <1>4, <1>10, <1>11 DEF Slots

LEMMA SlotsOne ==
  ASSUME NEW p \in Pieces
  PROVE  <<p>> \in Seq(Pieces) /\ Slots(<<p>>) = p.slots
<1>1. <<p>> \in Seq(Pieces) /\ p.slots \in Seq(ArgSet)
  BY DEF Pieces
<1>2. [i \in DOMAIN <<p>> |-> <<p>>[i].slots] = <<p.slots>>
  OBVIOUS
<1>3. QED
  BY <1>1, <1>2, FlattenOne DEF Slots

LEMMA SlotsNone == Slots(<<>>) = <<>>
BY FlattenNone DEF Slots

\* The placeholders of pieces put together are theirs put together.
LEMMA SlotsOfFlatten ==
  ASSUME NEW b \in Seq(Seq(Pieces))
  PROVE  Slots(FlattenSeq(b)) = FlattenSeq([i \in DOMAIN b |-> Slots(b[i])])
<1> DEFINE t == [i \in 1 .. Len(b) |-> Slots(b[i])]
           p(m) == [i \in 1 .. m |-> b[i]]
           q(m) == [i \in 1 .. m |-> t[i]]
           S == {m \in Nat : m \in 0 .. Len(b) => Slots(FlattenSeq(p(m))) = FlattenSeq(q(m))}
<1>1. t \in Seq(Seq(ArgSet)) /\ Len(t) = Len(b) /\ \A i \in 1 .. Len(b) : t[i] = Slots(b[i])
  <2>1. ASSUME NEW i \in 1 .. Len(b) PROVE Slots(b[i]) \in Seq(ArgSet)
    <3>1. b[i] \in Seq(Pieces)
      OBVIOUS
    <3>2. QED
      BY <3>1, SlotsTypes
  <2>2. QED
    BY <2>1
<1> HIDE DEF t
<1>2. 0 \in S
  <2>1. p(0) = <<>> /\ q(0) = <<>>
    OBVIOUS
  <2> HIDE DEF p, q
  <2>2. QED
    BY <2>1, FlattenNone, SlotsNone
<1>3. ASSUME NEW m \in Nat, m \in S PROVE m + 1 \in S
  <2> SUFFICES ASSUME m + 1 \in 0 .. Len(b)
               PROVE  Slots(FlattenSeq(p(m + 1))) = FlattenSeq(q(m + 1))
    OBVIOUS
  <2>1. m + 1 \in 1 .. Len(b) /\ Slots(FlattenSeq(p(m))) = FlattenSeq(q(m))
    BY <1>3
  <2>2. /\ p(m) \in Seq(Seq(Pieces)) /\ b[m + 1] \in Seq(Pieces)
        /\ p(m + 1) = Append(p(m), b[m + 1])
    BY <2>1, PrefixGrows
  <2>3. /\ q(m) \in Seq(Seq(ArgSet)) /\ t[m + 1] \in Seq(ArgSet)
        /\ q(m + 1) = Append(q(m), t[m + 1])
    BY <1>1, <2>1, PrefixGrows
  <2> HIDE DEF p, q
  <2>4. FlattenSeq(p(m + 1)) = FlattenSeq(p(m)) \o b[m + 1]
    BY <2>2, FlattenAppend
  <2>5. FlattenSeq(q(m + 1)) = FlattenSeq(q(m)) \o t[m + 1]
    BY <2>3, FlattenAppend
  <2>6. FlattenSeq(p(m)) \in Seq(Pieces)
    BY <2>2, FlattenTypes
  <2>7. Slots(FlattenSeq(p(m)) \o b[m + 1]) = Slots(FlattenSeq(p(m))) \o Slots(b[m + 1])
    BY <2>2, <2>6, SlotsConcat
  <2>8. QED
    BY <1>1, <2>1, <2>4, <2>5, <2>7
<1>4. Len(b) \in S
  <2>1. Len(b) \in Nat
    OBVIOUS
  <2> HIDE DEF S
  <2>2. QED
    BY <1>2, <1>3, <2>1, StepsReach
<1>5. p(Len(b)) = b /\ q(Len(b)) = t
  BY <1>1, PrefixAll
<1>6. t = [i \in DOMAIN b |-> Slots(b[i])]
  BY DEF t
<1> HIDE DEF p, q
<1>7. QED
  BY <1>4, <1>5, <1>6

-----------------------------------------------------------------------------
(* The conditions of a clause *)

LEMMA PieceTypes ==
  ASSUME NEW w \in Words, NEW t \in Seq(ArgSet)
  PROVE  Piece(w, t) \in Pieces /\ Piece(w, t).word = w /\ Piece(w, t).slots = t
BY DEF Piece, Pieces

LEMMA NoSlots == <<>> \in Seq(ArgSet)
OBVIOUS

LEMMA NodeTypes ==
  ASSUME NEW nd \in NodeRecs
  PROVE  /\ NodeQuery(nd) \in Pieces /\ NodeQuery(nd).word \in Conditions
         /\ nd.joint # Unjoined => /\ Piece(nd.joint, <<>>) \in Pieces
                                   /\ Piece(nd.joint, <<>>).word \in Joints
                                   /\ Piece(nd.joint, <<>>).slots = <<>>
<1>1. /\ nd.operator \in Conditions /\ nd.column \in Seq(ArgSet) /\ nd.args \in Seq(ArgSet)
      /\ nd.joint # Unjoined => nd.joint \in Joints
  BY DEF NodeRecs
<1>2. Conditions \subseteq Words /\ Joints \subseteq Words
  BY DEF Words
<1>3. PICK t \in Seq(ArgSet) : NodeQuery(nd) = Piece(nd.operator, t)
  BY <1>1, NoSlots DEF NodeQuery
<1>4. NodeQuery(nd) \in Pieces /\ NodeQuery(nd).word \in Conditions
  BY <1>1, <1>2, <1>3, PieceTypes
<1>5. QED
  BY <1>1, <1>2, <1>4, NoSlots, PieceTypes

\* The placeholders of the conditions, in their order.
NodeSlots(ns) == FlattenSeq([k \in DOMAIN ns |-> NodeQuery(ns[k]).slots])

\* What stands in the clause for one node.
Bits(i) == <<NodeQuery(nodes[i])>> \o IF Joined(i) THEN <<Piece(nodes[i].joint, <<>>)>> ELSE <<>>

LEMMA BitShapes ==
  ASSUME nodes \in Seq(NodeRecs), NEW i \in 1 .. Len(nodes)
  PROVE  /\ Bits(i) \in Seq(Pieces) /\ Slots(Bits(i)) = NodeQuery(nodes[i]).slots
         /\ NodeQuery(nodes[i]).slots \in Seq(ArgSet)
         /\ Len(Bits(i)) = IF Joined(i) THEN 2 ELSE 1
         /\ Bits(i)[1].word \in Conditions
         /\ Joined(i) => Bits(i)[2].word \in Joints
<1> DEFINE p == NodeQuery(nodes[i])
           j == Piece(nodes[i].joint, <<>>)
<1>1. nodes[i] \in NodeRecs
  OBVIOUS
<1>2. p \in Pieces /\ p.word \in Conditions /\ p.slots \in Seq(ArgSet)
  BY <1>1, NodeTypes DEF Pieces
<1>3. Joined(i) => j \in Pieces /\ j.word \in Joints /\ j.slots = <<>>
  BY <1>1, NodeTypes DEF Joined
<1>4. Bits(i) = IF Joined(i) THEN <<p>> \o <<j>> ELSE <<p>> \o <<>>
  BY DEF Bits
<1> HIDE DEF p, j
<1>5. CASE Joined(i)
  <2>1. Bits(i) = <<p>> \o <<j>> /\ j \in Pieces /\ j.word \in Joints /\ j.slots = <<>>
    BY <1>3, <1>4, <1>5
  <2>2. <<p>> \in Seq(Pieces) /\ <<j>> \in Seq(Pieces)
    BY <1>2, <2>1, SlotsOne
  <2>3. Slots(<<p>>) = p.slots /\ Slots(<<j>>) = <<>>
    BY <1>2, <2>1, SlotsOne
  <2>4. Slots(<<p>> \o <<j>>) = Slots(<<p>>) \o Slots(<<j>>)
    BY <2>2, SlotsConcat
  <2>5. Slots(Bits(i)) = p.slots
    BY <1>2, <2>1, <2>3, <2>4, ConcatEmptySeq
  <2>6. /\ <<p>> \o <<j>> \in Seq(Pieces) /\ Len(<<p>> \o <<j>>) = 2
        /\ (<<p>> \o <<j>>)[1] = p /\ (<<p>> \o <<j>>)[2] = j
    BY <1>2, <2>1
  <2>7. QED
    BY <1>2, <1>5, <2>1, <2>5, <2>6 DEF p
<1>6. CASE ~Joined(i)
  <2>1. Bits(i) = <<p>>
    BY <1>2, <1>4, <1>6
  <2>2. <<p>> \in Seq(Pieces) /\ Slots(<<p>>) = p.slots /\ Len(<<p>>) = 1 /\ <<p>>[1] = p
    BY <1>2, SlotsOne
  <2>3. QED
    BY <1>2, <1>6, <2>1, <2>2 DEF p
<1>7. QED
  BY <1>5, <1>6

\* The clause's placeholders are the conditions', whatever joins them.
LEMMA ConditionSlots ==
  ASSUME nodes \in Seq(NodeRecs)
  PROVE  ConditionString \in Seq(Pieces) /\ Slots(ConditionString) = NodeSlots(nodes)
<1> DEFINE b == [i \in DOMAIN nodes |-> Bits(i)]
<1>1. ConditionString = FlattenSeq(b)
  BY DEF ConditionString, Bits
<1>2. b \in Seq(Seq(Pieces)) /\ DOMAIN b = DOMAIN nodes /\ \A i \in DOMAIN nodes : b[i] = Bits(i)
  <2>1. \A i \in 1 .. Len(nodes) : Bits(i) \in Seq(Pieces)
    BY BitShapes
  <2>2. DOMAIN nodes = 1 .. Len(nodes) /\ Len(nodes) \in Nat
    OBVIOUS
  <2>3. QED
    BY <2>1, <2>2
<1> HIDE DEF b
<1>3. ASSUME NEW i \in DOMAIN nodes PROVE Slots(b[i]) = NodeQuery(nodes[i]).slots
  <2>1. i \in 1 .. Len(nodes)
    OBVIOUS
  <2>2. QED
    BY <1>2, <2>1, BitShapes
<1>4. [i \in DOMAIN b |-> Slots(b[i])] = [k \in DOMAIN nodes |-> NodeQuery(nodes[k]).slots]
  BY <1>2, <1>3
<1>5. Slots(FlattenSeq(b)) = FlattenSeq([i \in DOMAIN b |-> Slots(b[i])])
  BY <1>2, SlotsOfFlatten
<1>6. FlattenSeq(b) \in Seq(Pieces)
  BY <1>2, FlattenTypes
<1>7. QED
  BY <1>1, <1>4, <1>5, <1>6 DEF NodeSlots

\* Conditions at odd places, what joins them at even ones.
Alternates(q) == \A j \in 1 .. Len(q) : q[j].word \in (IF j % 2 = 1 THEN Conditions ELSE Joints)

LEMMA AlternatesOn ==
  ASSUME NEW q \in Seq(Pieces), Alternates(q), Len(q) % 2 = 0, NEW t \in Seq(Pieces),
         Len(t) \in {1, 2}, t[1].word \in Conditions, Len(t) = 2 => t[2].word \in Joints
  PROVE  q \o t \in Seq(Pieces) /\ Alternates(q \o t) /\ Len(q \o t) = Len(q) + Len(t)
<1>1. /\ q \o t \in Seq(Pieces) /\ Len(q \o t) = Len(q) + Len(t)
      /\ \A i \in 1 .. Len(q) + Len(t) : (q \o t)[i] = IF i <= Len(q) THEN q[i] ELSE t[i - Len(q)]
  BY ConcatProperties
<1>2. ASSUME NEW j \in 1 .. Len(q) + Len(t)
      PROVE  (q \o t)[j].word \in (IF j % 2 = 1 THEN Conditions ELSE Joints)
  <2>1. CASE j <= Len(q)
    BY <1>1, <2>1 DEF Alternates
  <2>2. CASE j = Len(q) + 1
    <3>1. (q \o t)[j] = t[1] /\ j % 2 = 1
      BY <1>1, <2>2
    <3>2. QED
      BY <3>1
  <2>3. CASE j = Len(q) + 2
    <3>1. (q \o t)[j] = t[2] /\ j % 2 = 0 /\ Len(t) = 2
      BY <1>1, <2>3
    <3>2. QED
      BY <3>1
  <2>4. QED
    BY <2>1, <2>2, <2>3
<1>3. QED
  BY <1>1, <1>2 DEF Alternates

\* Every condition but the last is joined to the next.
LEMMA ConditionsAlternate ==
  ASSUME nodes \in Seq(NodeRecs), nodes # <<>>,
         \A i \in 1 .. Len(nodes) : i < Len(nodes) => nodes[i].joint # Unjoined
  PROVE  Alternates(ConditionString) /\ Len(ConditionString) = 2 * Len(nodes) - 1
<1> DEFINE b == [i \in DOMAIN nodes |-> Bits(i)]
           n == Len(nodes)
           p(m) == [i \in 1 .. m |-> b[i]]
           q(m) == FlattenSeq(p(m))
           S == {m \in Nat : m \in 0 .. (n - 1) => Alternates(q(m)) /\ Len(q(m)) = 2 * m}
<1>1. ConditionString = FlattenSeq(b)
  BY DEF ConditionString, Bits
<1>2. b \in Seq(Seq(Pieces)) /\ Len(b) = n /\ \A i \in 1 .. n : b[i] = Bits(i)
  <2>1. \A i \in 1 .. Len(nodes) : Bits(i) \in Seq(Pieces)
    BY BitShapes
  <2>2. DOMAIN nodes = 1 .. Len(nodes) /\ Len(nodes) \in Nat
    OBVIOUS
  <2>3. QED
    BY <2>1, <2>2
<1> HIDE DEF b
<1>3. ASSUME NEW i \in 1 .. n
      PROVE  /\ b[i] \in Seq(Pieces) /\ Len(b[i]) = (IF i < n THEN 2 ELSE 1)
             /\ b[i][1].word \in Conditions /\ (i < n => b[i][2].word \in Joints)
  <2>1. Joined(i) <=> i < n
    BY DEF Joined
  <2>2. b[i] = Bits(i)
    BY <1>2
  <2>3. QED
    BY <2>1, <2>2, BitShapes
<1>4. ASSUME NEW m \in Nat, m + 1 \in 1 .. n
      PROVE  /\ p(m) \in Seq(Seq(Pieces)) /\ q(m) \in Seq(Pieces)
             /\ q(m + 1) = q(m) \o b[m + 1]
  <2>1. /\ p(m) \in Seq(Seq(Pieces)) /\ b[m + 1] \in Seq(Pieces)
        /\ p(m + 1) = Append(p(m), b[m + 1])
    BY <1>2, <1>4, PrefixGrows
  <2> HIDE DEF p
  <2>2. QED
    BY <2>1, FlattenTypes, FlattenAppend
<1>5. 0 \in S
  <2>1. p(0) = <<>>
    OBVIOUS
  <2>2. q(0) = <<>>
    BY <2>1, FlattenNone
  <2> HIDE DEF q
  <2>3. Alternates(q(0)) /\ Len(q(0)) = 0
    BY <2>2 DEF Alternates
  <2>4. QED
    BY <2>3
<1>6. n \in Nat \ {0} /\ p(n) = b
  BY <1>2, PrefixAll
<1> HIDE DEF p
<1>7. ASSUME NEW m \in Nat, m \in S PROVE m + 1 \in S
  <2> SUFFICES ASSUME m + 1 \in 0 .. (n - 1)
               PROVE  Alternates(q(m + 1)) /\ Len(q(m + 1)) = 2 * (m + 1)
    OBVIOUS
  <2>1. m + 1 \in 1 .. n /\ m + 1 < n /\ m \in 0 .. (n - 1)
    BY <1>6
  <2>2. Alternates(q(m)) /\ Len(q(m)) = 2 * m
    BY <1>7, <2>1
  <2>3. q(m) \in Seq(Pieces) /\ q(m + 1) = q(m) \o b[m + 1]
    BY <1>4, <2>1
  <2>4. /\ b[m + 1] \in Seq(Pieces) /\ Len(b[m + 1]) = 2
        /\ b[m + 1][1].word \in Conditions /\ b[m + 1][2].word \in Joints
    BY <1>3, <2>1
  <2> HIDE DEF q
  <2>5. Len(q(m)) % 2 = 0
    BY <2>2
  <2>6. Len(b[m + 1]) \in {1, 2}
    BY <2>4
  <2>7. Alternates(q(m) \o b[m + 1]) /\ Len(q(m) \o b[m + 1]) = Len(q(m)) + Len(b[m + 1])
    BY <2>2, <2>3, <2>4, <2>5, <2>6, AlternatesOn, Zenon
  <2>8. Alternates(q(m + 1)) /\ Len(q(m + 1)) = Len(q(m)) + Len(b[m + 1])
    BY <2>3, <2>7, Zenon
  <2>9. QED
    BY <2>2, <2>4, <2>8
<1>8. n - 1 \in S
  <2>1. n - 1 \in Nat
    BY <1>6
  <2> HIDE DEF S
  <2>2. QED
    BY <1>5, <1>7, <2>1, StepsReach
<1>9. Alternates(q(n - 1)) /\ Len(q(n - 1)) = 2 * (n - 1)
  BY <1>6, <1>8
<1>10. q(n - 1) \in Seq(Pieces) /\ q(n) = q(n - 1) \o b[n]
  <2>1. n - 1 \in Nat /\ (n - 1) + 1 = n /\ (n - 1) + 1 \in 1 .. n
    BY <1>6
  <2>2. QED
    BY <1>4, <2>1
<1>11. /\ b[n] \in Seq(Pieces) /\ Len(b[n]) = 1 /\ b[n][1].word \in Conditions
  <2>1. n \in 1 .. n /\ ~(n < n)
    BY <1>6
  <2>2. QED
    BY <1>3, <2>1, Zenon
<1>12. ConditionString = q(n)
  BY <1>1, <1>6
<1> HIDE DEF q, n
<1>13. Len(q(n - 1)) % 2 = 0
  BY <1>6, <1>9
<1>14. Alternates(q(n)) /\ Len(q(n)) = Len(q(n - 1)) + 1
  <2>1. Len(b[n]) \in {1, 2} /\ Len(b[n]) # 2
    BY <1>11
  <2>2. Alternates(q(n - 1) \o b[n]) /\ Len(q(n - 1) \o b[n]) = Len(q(n - 1)) + Len(b[n])
    BY <1>9, <1>10, <1>11, <1>13, <2>1, AlternatesOn, Zenon
  <2>3. QED
    BY <1>10, <1>11, <2>2
<1>15. QED
  BY <1>6, <1>9, <1>12, <1>14 DEF n
-----------------------------------------------------------------------------
(* Values *)

LEMMA ValuesTypes ==
  ASSUME NEW a \in Seq(ArgSet)
  PROVE  /\ [k \in DOMAIN a |-> IF a[k].sql THEN <<>> ELSE <<a[k]>>] \in Seq(Seq(ArgSet))
         /\ Values(a) \in Seq(ArgSet)
<1>1. ASSUME NEW k \in 1 .. Len(a) PROVE (IF a[k].sql THEN <<>> ELSE <<a[k]>>) \in Seq(ArgSet)
  <2>1. a[k] \in ArgSet
    OBVIOUS
  <2>2. QED
    BY <2>1
<1>2. DOMAIN a = 1 .. Len(a) /\ Len(a) \in Nat
  OBVIOUS
<1>3. [k \in 1 .. Len(a) |-> IF a[k].sql THEN <<>> ELSE <<a[k]>>] \in Seq(Seq(ArgSet))
  BY <1>1, <1>2
<1>4. QED
  BY <1>2, <1>3, FlattenTypes DEF Values

LEMMA ValuesConcat ==
  ASSUME NEW a \in Seq(ArgSet), NEW b \in Seq(ArgSet)
  PROVE  Values(a \o b) = Values(a) \o Values(b)
<1> DEFINE one(x) == IF x.sql THEN <<>> ELSE <<x>>
<1>1. PICK ab \in Seq(ArgSet) :
        /\ ab = a \o b /\ Len(ab) = Len(a) + Len(b)
        /\ \A i \in 1 .. Len(a) : ab[i] = a[i]
        /\ \A i \in 1 .. Len(b) : ab[Len(a) + i] = b[i]
  <2>1. /\ a \o b \in Seq(ArgSet) /\ Len(a \o b) = Len(a) + Len(b)
        /\ \A i \in 1 .. Len(a) : (a \o b)[i] = a[i]
        /\ \A i \in 1 .. Len(b) : (a \o b)[Len(a) + i] = b[i]
    BY ConcatParts
  <2>2. QED
    BY <2>1, Zenon
<1>2. PICK va \in Seq(Seq(ArgSet)) : va = [k \in DOMAIN a |-> one(a[k])]
  BY ValuesTypes
<1>3. PICK vb \in Seq(Seq(ArgSet)) : vb = [k \in DOMAIN b |-> one(b[k])]
  BY ValuesTypes
<1>4. PICK vab \in Seq(Seq(ArgSet)) : vab = [k \in DOMAIN ab |-> one(ab[k])]
  BY ValuesTypes
<1> HIDE DEF one
<1>5. Len(va) = Len(a) /\ \A i \in 1 .. Len(a) : va[i] = one(a[i])
  BY <1>2
<1>6. Len(vb) = Len(b) /\ \A i \in 1 .. Len(b) : vb[i] = one(b[i])
  BY <1>3
<1>7. Len(vab) = Len(ab) /\ \A i \in 1 .. Len(ab) : vab[i] = one(ab[i])
  BY <1>4
<1>8. ASSUME NEW i \in 1 .. Len(va) PROVE vab[i] = va[i]
  <2>1. i \in 1 .. Len(a) /\ i \in 1 .. Len(ab)
    BY <1>1, <1>5
  <2>2. QED
    BY <1>1, <1>5, <1>7, <2>1, Zenon
<1>9. ASSUME NEW i \in 1 .. Len(vb) PROVE vab[Len(va) + i] = vb[i]
  <2>1. i \in 1 .. Len(b) /\ Len(a) + i \in 1 .. Len(ab)
    BY <1>1, <1>6
  <2>2. QED
    BY <1>1, <1>5, <1>6, <1>7, <2>1, Zenon
<1>10. vab = va \o vb
  <2>1. Len(vab) = Len(va) + Len(vb)
    BY <1>1, <1>5, <1>6, <1>7, Zenon
  <2>2. QED
    BY <1>8, <1>9, <2>1, ConcatPointwise, Zenon
<1>11. FlattenSeq(va \o vb) = FlattenSeq(va) \o FlattenSeq(vb)
  BY FlattenConcat
<1>12. QED
  BY <1>1, <1>2, <1>3, <1>4, <1>10, <1>11 DEF Values, one

LEMMA ValuesNone == Values(<<>>) = <<>>
BY FlattenNone DEF Values

LEMMA ValuesPlain ==
  ASSUME NEW a \in Seq(ArgSet), \A k \in 1 .. Len(a) : ~a[k].sql
  PROVE  Values(a) = a
<1> DEFINE t == [k \in 1 .. Len(a) |-> <<a[k]>>]
           p(m) == [i \in 1 .. m |-> t[i]]
           q(m) == [i \in 1 .. m |-> a[i]]
           S == {m \in Nat : m \in 0 .. Len(a) => FlattenSeq(p(m)) = q(m)}
<1>1. t \in Seq(Seq(ArgSet)) /\ Len(t) = Len(a) /\ \A i \in 1 .. Len(a) : t[i] = <<a[i]>>
  <2>1. \A i \in 1 .. Len(a) : <<a[i]>> \in Seq(ArgSet)
    OBVIOUS
  <2>2. QED
    BY <2>1
<1>2. Values(a) = FlattenSeq(t)
  <2>1. DOMAIN a = 1 .. Len(a)
    OBVIOUS
  <2>2. t = [k \in DOMAIN a |-> IF a[k].sql THEN <<>> ELSE <<a[k]>>]
    BY <2>1
  <2>3. QED
    BY <2>2 DEF Values
<1> HIDE DEF t
<1>3. 0 \in S
  <2>1. p(0) = <<>> /\ q(0) = <<>>
    OBVIOUS
  <2> HIDE DEF p, q
  <2>2. QED
    BY <2>1, FlattenNone
<1>4. ASSUME NEW m \in Nat, m \in S PROVE m + 1 \in S
  <2> SUFFICES ASSUME m + 1 \in 0 .. Len(a) PROVE FlattenSeq(p(m + 1)) = q(m + 1)
    OBVIOUS
  <2>1. m + 1 \in 1 .. Len(a) /\ FlattenSeq(p(m)) = q(m)
    BY <1>4
  <2>2. /\ p(m) \in Seq(Seq(ArgSet)) /\ t[m + 1] \in Seq(ArgSet)
        /\ p(m + 1) = Append(p(m), t[m + 1])
    BY <1>1, <2>1, PrefixGrows
  <2>3. q(m) \in Seq(ArgSet) /\ a[m + 1] \in ArgSet /\ q(m + 1) = Append(q(m), a[m + 1])
    BY <2>1, PrefixGrows
  <2> HIDE DEF p, q
  <2>4. FlattenSeq(p(m + 1)) = FlattenSeq(p(m)) \o t[m + 1]
    BY <2>2, FlattenAppend
  <2>5. t[m + 1] = <<a[m + 1]>>
    BY <1>1, <2>1
  <2>6. Append(q(m), a[m + 1]) = q(m) \o <<a[m + 1]>>
    BY <2>3, AppendIsConcat
  <2>7. QED
    BY <2>1, <2>3, <2>4, <2>5, <2>6
<1>5. Len(a) \in S
  <2>1. Len(a) \in Nat
    OBVIOUS
  <2> HIDE DEF S
  <2>2. QED
    BY <1>3, <1>4, <2>1, StepsReach
<1>6. p(Len(a)) = t /\ q(Len(a)) = a
  BY <1>1, PrefixAll
<1> HIDE DEF p, q
<1>7. QED
  BY <1>2, <1>5, <1>6

\* The values of Args, for the chain of number c.
Own(c, m) == [i \in 1 .. m |-> [chain |-> c, place |-> 0, i |-> i, sql |-> FALSE]]

\* No argument of s was given to Args of that chain.
Foreign(c, s) == \A k \in 1 .. Len(s) : s[k].chain # c \/ s[k].place # 0

LEMMA OwnShape ==
  ASSUME NEW c \in Nat, NEW m \in Nat
  PROVE  /\ Own(c, m) \in Seq(ArgSet) /\ Len(Own(c, m)) = m /\ Values(Own(c, m)) = Own(c, m)
         /\ \A k \in 1 .. m : Own(c, m)[k].chain = c /\ Own(c, m)[k].place = 0
<1>1. ASSUME NEW i \in 1 .. m PROVE [chain |-> c, place |-> 0, i |-> i, sql |-> FALSE] \in ArgSet
  BY DEF ArgSet
<1>2. Own(c, m) \in Seq(ArgSet) /\ Len(Own(c, m)) = m
  BY <1>1 DEF Own
<1>3. ASSUME NEW k \in 1 .. m
      PROVE  Own(c, m)[k].chain = c /\ Own(c, m)[k].place = 0 /\ ~Own(c, m)[k].sql
  BY DEF Own
<1>4. Values(Own(c, m)) = Own(c, m)
  BY <1>2, <1>3, ValuesPlain
<1>5. QED
  BY <1>2, <1>3, <1>4

LEMMA OwnNone == \A c : Own(c, 0) = <<>>
BY DEF Own

LEMMA OwnIs == ASSUME NEW n PROVE Arguments(0, n) = Own(number, n)
BY DEF Arguments, Argument, Own

\* They are what Given counts.
FirstOf(c, s) == {k \in DOMAIN s : s[k].chain = c /\ s[k].place = 0}

LEMMA OwnCounted ==
  ASSUME NEW c \in Nat, NEW m \in Nat, NEW rest \in Seq(ArgSet), Foreign(c, rest)
  PROVE  Cardinality(FirstOf(c, Own(c, m) \o rest)) = m
<1> DEFINE own == Own(c, m)
<1>1. PICK s : s = Own(c, m) \o rest
  OBVIOUS
<1>2. own \in Seq(ArgSet) /\ Len(own) = m /\ \A k \in 1 .. m : own[k].chain = c /\ own[k].place = 0
  BY OwnShape
<1> HIDE DEF own
<1>3. /\ s \in Seq(ArgSet) /\ Len(s) = m + Len(rest) /\ DOMAIN s = 1 .. Len(s)
      /\ \A i \in 1 .. m + Len(rest) : s[i] = IF i <= m THEN own[i] ELSE rest[i - m]
  <2>1. /\ own \o rest \in Seq(ArgSet) /\ Len(own \o rest) = m + Len(rest)
        /\ \A i \in 1 .. m + Len(rest) : (own \o rest)[i] = IF i <= m THEN own[i] ELSE rest[i - m]
    BY <1>2, ConcatProperties
  <2>2. s = own \o rest
    BY <1>1 DEF own
  <2>3. QED
    BY <2>1, <2>2
<1>4. ASSUME NEW k \in 1 .. m PROVE k \in DOMAIN s /\ s[k].chain = c /\ s[k].place = 0
  <2>1. k \in 1 .. m + Len(rest) /\ k <= m
    OBVIOUS
  <2>2. QED
    BY <1>2, <1>3, <2>1
<1>5. ASSUME NEW k \in DOMAIN s, k \notin 1 .. m PROVE s[k].chain # c \/ s[k].place # 0
  <2>1. k \in 1 .. m + Len(rest) /\ ~(k <= m) /\ k - m \in 1 .. Len(rest)
    BY <1>3, <1>5
  <2>2. s[k] = rest[k - m]
    BY <1>3, <2>1
  <2>3. QED
    BY <2>1, <2>2 DEF Foreign
<1>6. FirstOf(c, s) = 1 .. m
  BY <1>4, <1>5, Zenon DEF FirstOf
<1>7. Cardinality(1 .. m) = m
  BY FS_Interval
<1>8. QED
  BY <1>6, <1>7, <1>1

LEMMA NodeSlotsTypes ==
  ASSUME NEW ns \in Seq(NodeRecs)
  PROVE  /\ [k \in DOMAIN ns |-> NodeQuery(ns[k]).slots] \in Seq(Seq(ArgSet))
         /\ NodeSlots(ns) \in Seq(ArgSet)
<1>1. ASSUME NEW k \in 1 .. Len(ns) PROVE NodeQuery(ns[k]).slots \in Seq(ArgSet)
  <2>1. ns[k] \in NodeRecs
    OBVIOUS
  <2>2. NodeQuery(ns[k]) \in Pieces
    BY <2>1, NodeTypes
  <2>3. QED
    BY <2>2 DEF Pieces
<1>2. DOMAIN ns = 1 .. Len(ns) /\ Len(ns) \in Nat
  OBVIOUS
<1>3. [k \in 1 .. Len(ns) |-> NodeQuery(ns[k]).slots] \in Seq(Seq(ArgSet))
  BY <1>1, <1>2
<1>4. QED
  BY <1>2, <1>3, FlattenTypes DEF NodeSlots

LEMMA NodeSlotsNone == NodeSlots(<<>>) = <<>>
BY FlattenNone DEF NodeSlots

LEMMA AppendParts ==
  ASSUME NEW T, NEW s \in Seq(T), NEW e \in T
  PROVE  /\ Append(s, e) \in Seq(T) /\ Len(Append(s, e)) = Len(s) + 1
         /\ \A k \in 1 .. Len(s) : Append(s, e)[k] = s[k]
         /\ Append(s, e)[Len(s) + 1] = e
BY AppendProperties

LEMMA NodeSlotsAppend ==
  ASSUME NEW ns \in Seq(NodeRecs), NEW nd \in NodeRecs
  PROVE  NodeSlots(Append(ns, nd)) = NodeSlots(ns) \o NodeQuery(nd).slots
<1>1. PICK x \in Seq(ArgSet) : x = NodeQuery(nd).slots
  BY NodeTypes DEF Pieces
<1>2. PICK more \in Seq(NodeRecs) :
        /\ more = Append(ns, nd) /\ Len(more) = Len(ns) + 1 /\ more[Len(ns) + 1] = nd
        /\ \A k \in 1 .. Len(ns) : more[k] = ns[k]
  <2>1. /\ Append(ns, nd) \in Seq(NodeRecs) /\ Len(Append(ns, nd)) = Len(ns) + 1
        /\ \A k \in 1 .. Len(ns) : Append(ns, nd)[k] = ns[k]
        /\ Append(ns, nd)[Len(ns) + 1] = nd
    BY AppendParts
  <2>2. QED
    BY <2>1, Zenon
<1>3. PICK a \in Seq(Seq(ArgSet)) : a = [k \in DOMAIN ns |-> NodeQuery(ns[k]).slots]
  BY NodeSlotsTypes
<1>4. PICK b \in Seq(Seq(ArgSet)) : b = [k \in DOMAIN more |-> NodeQuery(more[k]).slots]
  BY NodeSlotsTypes
<1>5. PICK c \in Seq(Seq(ArgSet)) :
        /\ c = Append(a, x) /\ Len(c) = Len(a) + 1
        /\ \A k \in 1 .. Len(a) : c[k] = a[k]
        /\ c[Len(a) + 1] = x
  <2>1. /\ Append(a, x) \in Seq(Seq(ArgSet)) /\ Len(Append(a, x)) = Len(a) + 1
        /\ \A k \in 1 .. Len(a) : Append(a, x)[k] = a[k]
        /\ Append(a, x)[Len(a) + 1] = x
    BY AppendParts
  <2>2. QED
    BY <2>1, Zenon
<1>6. Len(a) = Len(ns) /\ \A k \in 1 .. Len(ns) : a[k] = NodeQuery(ns[k]).slots
  BY <1>3
<1>7. Len(b) = Len(ns) + 1 /\ \A k \in 1 .. Len(ns) + 1 : b[k] = NodeQuery(more[k]).slots
  BY <1>2, <1>4
<1>8. ASSUME NEW k \in 1 .. Len(b) PROVE b[k] = c[k]
  <2>1. CASE k = Len(ns) + 1
    BY <1>1, <1>2, <1>5, <1>6, <1>7, <2>1, Zenon
  <2>2. CASE k # Len(ns) + 1
    <3>1. k \in 1 .. Len(ns) /\ k \in 1 .. Len(ns) + 1
      BY <1>7, <2>2
    <3>2. QED
      BY <1>2, <1>5, <1>6, <1>7, <3>1, Zenon
  <2>3. QED
    BY <2>1, <2>2
<1>9. b = c
  <2>1. Len(b) = Len(c)
    BY <1>5, <1>6, <1>7, Zenon
  <2>2. QED
    BY <1>8, <2>1, SeqEqual
<1>10. FlattenSeq(Append(a, x)) = FlattenSeq(a) \o x
  BY FlattenAppend
<1>11. QED
  BY <1>1, <1>2, <1>3, <1>4, <1>5, <1>9, <1>10 DEF NodeSlots

-----------------------------------------------------------------------------
(* The invariant *)

Statements == [query : Seq(Pieces), args : Seq(ArgSet)]

ChainTypes ==
  /\ number \in 0 .. MaxBuilders
  /\ kind \in Kinds /\ columns \in 0 .. MaxColumns
  /\ chain \in {"none", "args", "builder", "clause"}
  /\ args \in Seq(ArgSet) /\ nodes \in Seq(NodeRecs)
  /\ built \in Statements /\ select \in Statements

\* Every argument of s is of a chain before the one of number c.
Before(c, s) == \A k \in 1 .. Len(s) : s[k].chain < c

\* What the calls so far allow, and whose arguments are where.
ChainOrder ==
  /\ kind = "INSERT INTO" => chain # "clause"
  /\ chain # "clause" => nodes = <<>>
  /\ chain = "args" => args = <<>> /\ kind # "SELECT"
  /\ \A i \in 1 .. Len(nodes) : i < Len(nodes) => nodes[i].joint # Unjoined
  /\ Before(number + 1, built.args) /\ Before(number, select.args)

\* The arguments are the values of Args, then those of the conditions.
ArgsSplit(c, k, ch, a, ns) ==
  \E m \in Nat, rest \in Seq(ArgSet) :
    /\ a = Own(c, m) \o rest /\ Foreign(c, rest) /\ Before(c + 1, rest)
    /\ Values(rest) = NodeSlots(ns)
    /\ k = "SELECT" => m = 0
    /\ ch # "clause" => rest = <<>>

\* So are the placeholders, for as many values as the statement has room for.
BuiltSplit(c, k, n, b) ==
  b # Nothing =>
    \E m \in Nat, room \in Nat, rest \in Seq(ArgSet) :
      /\ b.args = Own(c, m) \o rest /\ Foreign(c, rest)
      /\ Slots(b.query) = Own(c, room) \o Values(rest)
      /\ k = "SELECT" => m = 0 /\ room = 0
      /\ k = "UPDATE" => room = n
      /\ k = "INSERT INTO" /\ m > 0 => room = m

InPlace(s) == Values(s.args) = Slots(s.query)

AlternatesAfterWhere(q) ==
  Len(q) > 1 =>
    /\ q[2].word = "WHERE" /\ Len(q) % 2 = 1
    /\ \A i \in 3 .. Len(q) : q[i].word \in (IF i % 2 = 1 THEN Conditions ELSE Joints)

BuilderInv ==
  /\ ChainTypes
  /\ ChainOrder
  /\ ArgsSplit(number, kind, chain, args, nodes)
  /\ BuiltSplit(number, kind, columns, built)
  /\ InPlace(select)
  /\ AlternatesAfterWhere(built.query)

LEMMA NothingIs ==
  Nothing \in Statements /\ Nothing.args = <<>> /\ Nothing.query = <<>> /\ InPlace(Nothing)
<1>1. <<>> \in Seq(Pieces) /\ <<>> \in Seq(ArgSet)
  OBVIOUS
<1>2. QED
  BY <1>1, SlotsNone, ValuesNone DEF Nothing, Statements, InPlace

LEMMA NoNodes ==
  ASSUME NEW c \in Nat, NEW k, NEW ch
  PROVE  ArgsSplit(c, k, ch, <<>>, <<>>)
<1>1. Own(c, 0) \o <<>> = <<>>
  BY OwnNone
<1>2. Values(<<>>) = NodeSlots(<<>>)
  BY ValuesNone, NodeSlotsNone
<1>3. Foreign(c, <<>>) /\ Before(c + 1, <<>>)
  BY DEF Foreign, Before
<1>4. <<>> \in Seq(ArgSet) /\ 0 \in Nat
  OBVIOUS
<1>5. QED
  BY <1>1, <1>2, <1>3, <1>4, Zenon DEF ArgsSplit

LEMMA InvInit == BuilderInit => BuilderInv
<1> SUFFICES ASSUME BuilderInit PROVE BuilderInv
  OBVIOUS
<1>1. 0 \in Nat /\ <<>> \in Seq(ArgSet) /\ <<>> \in Seq(NodeRecs)
  OBVIOUS
<1>2. ChainTypes
  BY <1>1, NothingIs, BuilderAssumption DEF BuilderInit, ChainTypes, Kinds
<1>3. Before(number + 1, built.args) /\ Before(number, select.args)
  BY NothingIs DEF BuilderInit, Before
<1>4. ChainOrder
  BY <1>3 DEF BuilderInit, ChainOrder
<1>5. ArgsSplit(number, kind, chain, args, nodes)
  BY <1>1, NoNodes DEF BuilderInit
<1>6. BuiltSplit(number, kind, columns, built) /\ InPlace(select) /\ AlternatesAfterWhere(built.query)
  BY NothingIs DEF BuilderInit, BuiltSplit, AlternatesAfterWhere
<1>7. QED
  BY <1>2, <1>4, <1>5, <1>6 DEF BuilderInv

\* What a SELECT was built to is in place on its own.
LEMMA SelectInPlace ==
  ASSUME ChainTypes, BuiltSplit(number, "SELECT", columns, built)
  PROVE  InPlace(built)
<1>1. CASE built = Nothing
  BY <1>1, NothingIs
<1>2. CASE built # Nothing
  <2>1. PICK rest \in Seq(ArgSet) :
          /\ built.args = Own(number, 0) \o rest
          /\ Slots(built.query) = Own(number, 0) \o Values(rest)
    BY <1>2, Zenon DEF BuiltSplit
  <2>2. Values(rest) \in Seq(ArgSet)
    BY ValuesTypes
  <2>3. Own(number, 0) = <<>>
    BY OwnNone
  <2>4. built.args = rest /\ Slots(built.query) = Values(rest)
    BY <2>1, <2>2, <2>3
  <2>5. QED
    BY <2>4 DEF InPlace
<1>3. QED
  BY <1>1, <1>2

LEMMA BeginKeeps ==
  ASSUME BuilderInv, NEW k \in Kinds, NEW n \in 0 .. MaxColumns, Begin(k, n)
  PROVE  BuilderInv'
<1> USE DEF Begin
<1>1. number' \in 0 .. MaxBuilders /\ number' \in Nat /\ number' = number + 1 /\ number \in Nat
  BY BuilderAssumption DEF BuilderInv, ChainTypes
<1>2. /\ <<>> \in Seq(ArgSet) /\ <<>> \in Seq(NodeRecs)
      /\ chain' \in {"args", "builder"} /\ (k = "SELECT" => chain' = "builder")
  OBVIOUS
<1>3. select' \in Statements /\ InPlace(select') /\ Before(number + 1, select'.args)
  <2>1. CASE select' = Nothing
    BY <2>1, NothingIs DEF Before
  <2>2. CASE kind = "SELECT" /\ select' = built
    BY <2>2, SelectInPlace DEF BuilderInv, ChainTypes, ChainOrder
  <2>3. QED
    BY <2>1, <2>2
<1>4. ChainTypes'
  BY <1>1, <1>2, <1>3, NothingIs DEF ChainTypes
<1>5. ChainOrder'
  <2>1. Before(number' + 1, built'.args)
    BY NothingIs DEF Before
  <2>2. Before(number', select'.args)
    BY <1>1, <1>3
  <2>3. QED
    BY <1>2, <2>1, <2>2 DEF ChainOrder
<1>6. ArgsSplit(number', kind', chain', args', nodes')
  BY <1>1, NoNodes
<1>7. BuiltSplit(number', kind', columns', built') /\ AlternatesAfterWhere(built'.query)
  BY NothingIs DEF BuiltSplit, AlternatesAfterWhere
<1>8. QED
  BY <1>3, <1>4, <1>5, <1>6, <1>7 DEF BuilderInv

LEMMA ArgsKeeps ==
  ASSUME BuilderInv, NEW n \in 0 .. MaxArgs, Args(n)
  PROVE  BuilderInv'
<1> USE DEF Args, Write
<1>1. number \in Nat /\ n \in Nat /\ MaxArgs \in Nat
  BY BuilderAssumption DEF BuilderInv, ChainTypes
<1>2. args = <<>> /\ kind # "SELECT" /\ nodes = <<>>
  BY DEF BuilderInv, ChainOrder
<1>3. Arguments(0, n) = Own(number, n)
  BY OwnIs
<1>4. Own(number, n) \in Seq(ArgSet)
  BY <1>1, OwnShape
<1>5. args' = Own(number, n) /\ Own(number, n) \o <<>> = Own(number, n)
  BY <1>2, <1>3, <1>4
<1>6. ArgsSplit(number', kind', chain', args', nodes')
  <2>1. Foreign(number, <<>>) /\ Before(number + 1, <<>>) /\ <<>> \in Seq(ArgSet)
    BY DEF Foreign, Before
  <2>2. Values(<<>>) = NodeSlots(<<>>)
    BY ValuesNone, NodeSlotsNone
  <2>3. number' = number /\ kind' # "SELECT" /\ nodes' = <<>>
    BY <1>2
  <2>4. QED
    BY <1>1, <1>5, <2>1, <2>2, <2>3, Zenon DEF ArgsSplit
<1>7. ChainTypes' /\ ChainOrder'
  BY <1>2, <1>4, <1>5 DEF BuilderInv, ChainTypes, ChainOrder
<1>8. QED
  BY <1>6, <1>7 DEF BuilderInv

LEMMA WhereKeeps ==
  ASSUME BuilderInv, Where
  PROVE  BuilderInv'
<1> USE DEF Where
<1>1. ArgsSplit(number', kind', chain', args', nodes')
  BY DEF BuilderInv, ArgsSplit
<1>2. ChainTypes' /\ ChainOrder'
  BY DEF BuilderInv, ChainTypes, ChainOrder
<1>3. QED
  BY <1>1, <1>2 DEF BuilderInv

-----------------------------------------------------------------------------
(* Conditions keep it *)

LEMMA ForeignConcat ==
  ASSUME NEW c \in Nat, NEW s \in Seq(ArgSet), NEW t \in Seq(ArgSet),
         Foreign(c, s), Before(c + 1, s), Foreign(c, t), Before(c + 1, t)
  PROVE  s \o t \in Seq(ArgSet) /\ Foreign(c, s \o t) /\ Before(c + 1, s \o t)
<1>1. /\ s \o t \in Seq(ArgSet) /\ Len(s \o t) = Len(s) + Len(t)
      /\ \A i \in 1 .. Len(s) + Len(t) : (s \o t)[i] = IF i <= Len(s) THEN s[i] ELSE t[i - Len(s)]
  BY ConcatProperties
<1>2. ASSUME NEW i \in 1 .. Len(s) + Len(t)
      PROVE  /\ (s \o t)[i].chain # c \/ (s \o t)[i].place # 0
             /\ (s \o t)[i].chain < c + 1
  <2>1. CASE i <= Len(s)
    BY <1>1, <2>1 DEF Foreign, Before
  <2>2. CASE ~(i <= Len(s))
    <3>1. (s \o t)[i] = t[i - Len(s)] /\ i - Len(s) \in 1 .. Len(t)
      BY <1>1, <2>2
    <3>2. QED
      BY <3>1 DEF Foreign, Before
  <2>3. QED
    BY <2>1, <2>2
<1>3. QED
  BY <1>1, <1>2 DEF Foreign, Before

\* A new condition's values are what its placeholders stand for.
Fits(nd, more) ==
  /\ nd \in NodeRecs /\ nd.joint = Unjoined
  /\ more \in Seq(ArgSet) /\ Foreign(number, more) /\ Before(number + 1, more)
  /\ Values(more) = NodeQuery(nd).slots

LEMMA AddKeeps ==
  ASSUME BuilderInv, NEW column, NEW operator, NEW more,
         Fits([column |-> column, operator |-> operator, args |-> more, joint |-> Unjoined], more),
         AddNewNode(column, operator, more)
  PROVE  BuilderInv'
<1> DEFINE nd == [column |-> column, operator |-> operator, args |-> more, joint |-> Unjoined]
<1>1. Fits(nd, more)
  OBVIOUS
<1>2. /\ chain = "clause"
      /\ nodes # <<>> => Last(nodes).joint # Unjoined
      /\ nodes' = Append(nodes, nd) /\ args' = args \o more
      /\ UNCHANGED <<number, kind, columns, chain, built, select>>
  BY DEF AddNewNode, Write
<1> HIDE DEF nd
<1>3. number \in Nat /\ nodes \in Seq(NodeRecs) /\ args \in Seq(ArgSet)
  BY BuilderAssumption DEF BuilderInv, ChainTypes
<1>4. /\ nd \in NodeRecs /\ more \in Seq(ArgSet) /\ Foreign(number, more)
      /\ Before(number + 1, more) /\ Values(more) = NodeQuery(nd).slots
  BY <1>1 DEF Fits
<1>5. /\ nodes' \in Seq(NodeRecs) /\ Len(nodes') = Len(nodes) + 1
      /\ \A k \in 1 .. Len(nodes) : nodes'[k] = nodes[k]
  <2>1. /\ Append(nodes, nd) \in Seq(NodeRecs) /\ Len(Append(nodes, nd)) = Len(nodes) + 1
        /\ \A k \in 1 .. Len(nodes) : Append(nodes, nd)[k] = nodes[k]
    BY <1>3, <1>4, AppendParts
  <2>2. QED
    BY <1>2, <2>1
<1>6. args' \in Seq(ArgSet)
  BY <1>2, <1>3, <1>4, ConcatProperties
<1>7. ChainTypes'
  BY <1>2, <1>5, <1>6 DEF BuilderInv, ChainTypes
<1>8. ChainOrder'
  <2>1. ASSUME NEW i \in 1 .. Len(nodes'), i < Len(nodes')
        PROVE  nodes'[i].joint # Unjoined
    <3>1. i \in 1 .. Len(nodes) /\ nodes'[i] = nodes[i]
      BY <1>3, <1>5, <2>1
    <3>2. CASE i < Len(nodes)
      BY <3>1, <3>2 DEF BuilderInv, ChainOrder
    <3>3. CASE i = Len(nodes)
      BY <1>2, <1>3, <3>1, <3>3 DEF Last
    <3>4. QED
      BY <1>3, <3>1, <3>2, <3>3
  <2>2. QED
    BY <1>2, <2>1 DEF BuilderInv, ChainOrder
<1>9. ArgsSplit(number', kind', chain', args', nodes')
  <2>1. PICK m \in Nat, rest \in Seq(ArgSet) :
          /\ args = Own(number, m) \o rest /\ Foreign(number, rest) /\ Before(number + 1, rest)
          /\ Values(rest) = NodeSlots(nodes)
          /\ kind = "SELECT" => m = 0
    BY DEF BuilderInv, ArgsSplit
  <2>2. rest \o more \in Seq(ArgSet) /\ Foreign(number, rest \o more) /\ Before(number + 1, rest \o more)
    BY <1>3, <1>4, <2>1, ForeignConcat
  <2>3. args' = Own(number, m) \o (rest \o more)
    <3>1. Own(number, m) \in Seq(ArgSet)
      BY <1>3, OwnShape
    <3>2. (Own(number, m) \o rest) \o more = Own(number, m) \o (rest \o more)
      BY <1>4, <3>1, ConcatAssociative
    <3>3. QED
      BY <1>2, <2>1, <3>2
  <2>4. Values(rest \o more) = NodeSlots(nodes')
    <3>1. Values(rest \o more) = Values(rest) \o Values(more)
      BY <1>4, ValuesConcat
    <3>2. NodeSlots(Append(nodes, nd)) = NodeSlots(nodes) \o NodeQuery(nd).slots
      BY <1>3, <1>4, NodeSlotsAppend
    <3>3. QED
      BY <1>2, <1>4, <2>1, <3>1, <3>2
  <2>5. number' = number /\ (kind' = "SELECT" => m = 0) /\ chain' = "clause"
    BY <1>2, <2>1
  <2>6. QED
    BY <2>2, <2>3, <2>4, <2>5, Zenon DEF ArgsSplit
<1>10. BuiltSplit(number', kind', columns', built') /\ InPlace(select') /\ AlternatesAfterWhere(built'.query)
  BY <1>2 DEF BuilderInv
<1>11. QED
  BY <1>7, <1>8, <1>9, <1>10 DEF BuilderInv

LEMMA NodeShape ==
  ASSUME NEW nd \in NodeRecs
  PROVE  /\ nd.operator \in {"=", "IN"} => NodeQuery(nd).slots = nd.args
         /\ nd.operator = "IS" => NodeQuery(nd).slots = <<>>
         /\ nd.operator = "EXISTS" => NodeQuery(nd).slots = nd.column
<1>1. nd.operator \in {"=", "IN"} => NodeQuery(nd).slots = nd.args
  BY DEF NodeQuery, Piece
<1>2. nd.operator = "IS" => NodeQuery(nd).slots = <<>>
  BY DEF NodeQuery, Piece
<1>3. nd.operator = "EXISTS" => NodeQuery(nd).slots = nd.column
  BY DEF NodeQuery, Piece
<1>4. QED
  BY <1>1, <1>2, <1>3

\* The values of one call after Where.
LEMMA PlaceArguments ==
  ASSUME ChainTypes, NEW n \in Nat
  PROVE  /\ Arguments(Place, n) \in Seq(ArgSet) /\ Foreign(number, Arguments(Place, n))
         /\ Before(number + 1, Arguments(Place, n))
         /\ Values(Arguments(Place, n)) = Arguments(Place, n)
<1> DEFINE a == Arguments(Place, n)
<1>1. number \in Nat /\ Place \in Nat \ {0}
  BY BuilderAssumption DEF ChainTypes, Place
<1>2. a = [i \in 1 .. n |-> [chain |-> number, place |-> Place, i |-> i, sql |-> FALSE]]
  BY DEF Arguments, Argument
<1> HIDE DEF a
<1>3. ASSUME NEW k \in 1 .. n
      PROVE  [chain |-> number, place |-> Place, i |-> k, sql |-> FALSE] \in ArgSet
  BY <1>1 DEF ArgSet
<1>4. a \in Seq(ArgSet) /\ Len(a) = n
  BY <1>2, <1>3
<1>5. ASSUME NEW k \in 1 .. n
      PROVE  a[k].chain = number /\ a[k].place = Place /\ ~a[k].sql
  BY <1>2
<1>6. Values(a) = a
  BY <1>4, <1>5, ValuesPlain
<1>7. Foreign(number, a) /\ Before(number + 1, a)
  <2>1. ASSUME NEW k \in 1 .. Len(a) PROVE a[k].chain < number + 1 /\ a[k].place # 0
    BY <1>1, <1>4, <1>5
  <2>2. QED
    BY <2>1 DEF Foreign, Before
<1>8. QED
  BY <1>4, <1>6, <1>7 DEF a

LEMMA ListKeeps ==
  ASSUME BuilderInv, NEW operator \in {"=", "IN"}, NEW n \in Nat,
         AddNewNode(<<>>, operator, Arguments(Place, n))
  PROVE  BuilderInv'
<1> DEFINE more == Arguments(Place, n)
<1>1. /\ more \in Seq(ArgSet) /\ Foreign(number, more)
      /\ Before(number + 1, more) /\ Values(more) = more
  BY PlaceArguments DEF BuilderInv
<1> HIDE DEF more
<1>2. PICK nd : nd = [column |-> <<>>, operator |-> operator, args |-> more, joint |-> Unjoined]
  OBVIOUS
<1>3. nd \in NodeRecs /\ nd.joint = Unjoined /\ NodeQuery(nd).slots = more
  <2>1. nd \in NodeRecs /\ nd.operator \in {"=", "IN"} /\ nd.args = more /\ nd.joint = Unjoined
    BY <1>1, <1>2, NoSlots DEF NodeRecs, Conditions
  <2>2. QED
    BY <2>1, NodeShape
<1>4. Fits(nd, more)
  BY <1>1, <1>3 DEF Fits
<1>5. AddNewNode(<<>>, operator, more)
  BY DEF more
<1>6. QED
  BY <1>4, <1>5, <1>2, AddKeeps, Zenon

LEMMA IsKeeps ==
  ASSUME BuilderInv, Is
  PROVE  BuilderInv'
<1> DEFINE more == <<Argument(Place, 1, TRUE)>>
<1>1. number \in Nat /\ Place \in Nat \ {0}
  BY BuilderAssumption DEF BuilderInv, ChainTypes, Place
<1>2. [chain |-> number, place |-> Place, i |-> 1, sql |-> TRUE] \in ArgSet
  BY <1>1 DEF ArgSet
<1>3. PICK x \in ArgSet :
        x = [chain |-> number, place |-> Place, i |-> 1, sql |-> TRUE] /\ more = <<x>>
  BY <1>2, Zenon DEF Argument
<1> HIDE DEF more
<1>4. more \in Seq(ArgSet) /\ Foreign(number, more) /\ Before(number + 1, more)
  <2>1. x.chain = number /\ x.place # 0
    BY <1>1, <1>3
  <2>2. more \in Seq(ArgSet) /\ Len(more) = 1 /\ more[1] = x
    BY <1>3
  <2>3. QED
    BY <1>1, <2>1, <2>2 DEF Foreign, Before
<1>5. Values(more) = <<>>
  <2>1. x.sql
    BY <1>3
  <2>2. DOMAIN more = {1} /\ more[1] = x /\ Len(more) = 1 /\ DOMAIN << <<>> >> = {1}
    BY <1>3
  <2>3. PICK v : v = [k \in DOMAIN more |-> IF more[k].sql THEN <<>> ELSE <<more[k]>>]
    OBVIOUS
  <2>4. v = [k \in {1} |-> <<>>]
    BY <2>1, <2>2, <2>3
  <2>5. v = << <<>> >>
    BY <2>4
  <2>6. FlattenSeq(<< <<>> >>) = <<>>
    BY NoSlots, FlattenOne
  <2>7. QED
    BY <2>3, <2>5, <2>6 DEF Values
<1>6. PICK nd : nd = [column |-> <<>>, operator |-> "IS", args |-> more, joint |-> Unjoined]
  OBVIOUS
<1>7. nd \in NodeRecs /\ nd.joint = Unjoined /\ NodeQuery(nd).slots = <<>>
  <2>1. nd \in NodeRecs /\ nd.operator = "IS" /\ nd.joint = Unjoined
    BY <1>4, <1>6, NoSlots DEF NodeRecs, Conditions
  <2>2. QED
    BY <2>1, NodeShape
<1>8. Fits(nd, more)
  BY <1>4, <1>5, <1>7 DEF Fits
<1>9. AddNewNode(<<>>, "IS", more)
  BY DEF Is, more
<1>10. QED
  BY <1>8, <1>9, <1>6, AddKeeps, Zenon

LEMMA ExistsKeeps ==
  ASSUME BuilderInv, Exists
  PROVE  BuilderInv'
<1> DEFINE column == Slots(select.query)
           more == select.args
           nd == [column |-> column, operator |-> "EXISTS", args |-> more, joint |-> Unjoined]
<1>1. more \in Seq(ArgSet) /\ column \in Seq(ArgSet) /\ Values(more) = column
  BY SlotsTypes DEF BuilderInv, ChainTypes, Statements, InPlace
<1>2. Foreign(number, more) /\ Before(number + 1, more)
  <2>1. number \in Nat /\ Before(number, more)
    <3>1. number \in Nat
      BY BuilderAssumption DEF BuilderInv, ChainTypes
    <3>2. Before(number, select.args)
      BY DEF BuilderInv, ChainOrder
    <3>3. QED
      BY <3>1, <3>2
  <2>2. ASSUME NEW k \in 1 .. Len(more)
        PROVE  more[k].chain < number + 1 /\ more[k].chain # number
    <3>1. more[k].chain < number
      BY <2>1 DEF Before
    <3>2. more[k] \in ArgSet
      BY <1>1
    <3>3. QED
      BY <2>1, <3>1, <3>2 DEF ArgSet
  <2>3. QED
    BY <2>2 DEF Foreign, Before
<1>3. AddNewNode(column, "EXISTS", more)
  BY DEF Exists
<1> HIDE DEF column, more
<1>4. nd \in NodeRecs /\ nd.joint = Unjoined /\ NodeQuery(nd).slots = column
  <2>1. nd \in NodeRecs /\ nd.operator = "EXISTS" /\ nd.column = column /\ nd.joint = Unjoined
    BY <1>1 DEF NodeRecs, Conditions
  <2> HIDE DEF nd
  <2>2. QED
    BY <2>1, NodeShape
<1>5. Fits(nd, more)
  BY <1>1, <1>2, <1>4 DEF Fits
<1>6. QED
  BY <1>3, <1>5, AddKeeps

LEMMA JoinKeeps ==
  ASSUME BuilderInv, NEW joint \in Joints, Join(joint)
  PROVE  BuilderInv'
<1>1. chain = "clause" /\ UNCHANGED <<number, kind, columns, chain, args, built, select>>
  BY DEF Join
<1>2. CASE nodes' = nodes
  <2>1. ChainTypes' /\ ChainOrder' /\ ArgsSplit(number', kind', chain', args', nodes')
    BY <1>1, <1>2 DEF BuilderInv, ChainTypes, ChainOrder
  <2>2. QED
    BY <1>1, <2>1 DEF BuilderInv
<1>3. CASE nodes # <<>> /\ nodes' = [nodes EXCEPT ![Len(nodes)].joint = joint]
  <2>1. nodes \in Seq(NodeRecs)
    BY DEF BuilderInv, ChainTypes
  <2>2. /\ nodes' \in Seq(NodeRecs) /\ DOMAIN nodes' = DOMAIN nodes /\ Len(nodes') = Len(nodes)
        /\ \A k \in 1 .. Len(nodes) :
             nodes'[k] = IF k = Len(nodes) THEN [nodes[k] EXCEPT !.joint = joint] ELSE nodes[k]
    <3>1. ASSUME NEW k \in 1 .. Len(nodes)
          PROVE  nodes[k] \in NodeRecs /\ [nodes[k] EXCEPT !.joint = joint] \in NodeRecs
      <4>1. nodes[k] \in NodeRecs
        BY <2>1
      <4>2. QED
        BY <4>1 DEF NodeRecs
    <3>2. QED
      BY <1>3, <2>1, <3>1
  <2>3. ASSUME NEW k \in DOMAIN nodes
        PROVE  NodeQuery(nodes'[k]).slots = NodeQuery(nodes[k]).slots
    <3>1. k \in 1 .. Len(nodes) /\ nodes[k] \in NodeRecs
      BY <2>1
    <3>2. /\ nodes'[k].operator = nodes[k].operator /\ nodes'[k].column = nodes[k].column
          /\ nodes'[k].args = nodes[k].args
      BY <2>2, <3>1 DEF NodeRecs
    <3>3. QED
      BY <3>2 DEF NodeQuery
  <2>4. [k \in DOMAIN nodes' |-> NodeQuery(nodes'[k]).slots]
          = [k \in DOMAIN nodes |-> NodeQuery(nodes[k]).slots]
    BY <2>2, <2>3
  <2>5. NodeSlots(nodes') = NodeSlots(nodes)
    BY <2>4 DEF NodeSlots
  <2>6. ArgsSplit(number', kind', chain', args', nodes')
    BY <1>1, <2>5 DEF BuilderInv, ArgsSplit
  <2>7. ASSUME NEW i \in 1 .. Len(nodes'), i < Len(nodes')
        PROVE  nodes'[i].joint # Unjoined
    <3>1. i \in 1 .. Len(nodes) /\ i < Len(nodes) /\ nodes'[i] = nodes[i]
      <4>1. i \in 1 .. Len(nodes) /\ i < Len(nodes) /\ i # Len(nodes)
        BY <2>1, <2>2, <2>7
      <4>2. QED
        BY <2>2, <4>1, Zenon
    <3>2. nodes[i].joint # Unjoined
      BY <3>1 DEF BuilderInv, ChainOrder
    <3>3. QED
      BY <3>1, <3>2
  <2>8. ChainTypes' /\ ChainOrder'
    BY <1>1, <2>2, <2>7 DEF BuilderInv, ChainTypes, ChainOrder
  <2>9. QED
    BY <1>1, <2>6, <2>8 DEF BuilderInv
<1>4. QED
  BY <1>2, <1>3 DEF Join

-----------------------------------------------------------------------------
(* Build keeps it *)

LEMMA WholeRows ==
  ASSUME NEW a \in Nat, NEW b \in Nat \ {0}, a % b = 0
  PROVE  a \div b \in Nat /\ a = b * (a \div b)
OBVIOUS

\* The statement up to its condition has the room Build counts.
LEMMA MainRoom ==
  ASSUME ChainTypes, ~Refused
  PROVE  /\ MainQuery \in Pieces /\ MainQuery.word \in Kinds
         /\ \E room \in Nat :
              /\ MainQuery.slots = Own(number, room)
              /\ kind = "SELECT" => room = 0
              /\ kind = "UPDATE" => room = columns
              /\ kind = "INSERT INTO" /\ Len(args) > 0 => room = Len(args)
<1>1. number \in Nat /\ columns \in Nat /\ Len(args) \in Nat /\ kind \in Words /\ kind \in Kinds
  BY BuilderAssumption DEF ChainTypes, Words
<1>2. PICK room \in Nat :
        /\ MainQuery = Piece(kind, Own(number, room))
        /\ kind = "SELECT" => room = 0
        /\ kind = "UPDATE" => room = columns
        /\ kind = "INSERT INTO" /\ Len(args) > 0 => room = Len(args)
  <2>1. CASE kind = "SELECT"
    <3>1. MainQuery = Piece(kind, <<>>)
      BY <2>1 DEF MainQuery
    <3>2. QED
      BY <2>1, <3>1, OwnNone
  <2>2. CASE kind = "UPDATE"
    <3>1. MainQuery = Piece(kind, Arguments(0, columns))
      BY <2>2 DEF MainQuery
    <3>2. QED
      BY <1>1, <2>2, <3>1, OwnIs
  <2>3. CASE kind = "INSERT INTO"
    <3>1. MainQuery = Piece(kind, Own(number, columns * Rows))
      BY <2>3, OwnIs DEF MainQuery
    <3>2. columns \in Nat \ {0} /\ Len(args) % columns = 0
      BY <1>1, <2>3 DEF Refused
    <3>3. PICK n \in Nat : n = Len(args) \div columns /\ Len(args) = columns * n
      BY <1>1, <3>2, WholeRows
    <3>4. Rows = IF n < 1 THEN 1 ELSE n
      BY <3>3 DEF Rows
    <3>5. CASE n < 1
      <4>1. n = 0 /\ Rows = 1 /\ Len(args) = 0
        <5>1. n = 0
          BY <3>5
        <5>2. columns * n = 0
          BY <1>1, <5>1
        <5>3. Len(args) = 0
          BY <3>3, <5>2, Zenon
        <5>4. Rows = 1
          BY <3>4, <3>5, Zenon
        <5>5. QED
          BY <5>1, <5>3, <5>4
      <4>2. columns * Rows = columns
        BY <1>1, <4>1
      <4>3. MainQuery = Piece(kind, Own(number, columns)) /\ ~(Len(args) > 0)
        BY <3>1, <4>1, <4>2
      <4>4. QED
        BY <1>1, <2>3, <4>3
    <3>6. CASE ~(n < 1)
      <4>1. columns * Rows = Len(args)
        BY <3>3, <3>4, <3>6
      <4>2. QED
        BY <1>1, <2>3, <3>1, <4>1
    <3>7. QED
      BY <3>5, <3>6
  <2>4. QED
    BY <1>1, <2>1, <2>2, <2>3 DEF Kinds
<1>3. Own(number, room) \in Seq(ArgSet)
  BY <1>1, OwnShape
<1>4. MainQuery \in Pieces /\ MainQuery.word = kind /\ MainQuery.slots = Own(number, room)
  BY <1>1, <1>2, <1>3, PieceTypes
<1>5. QED
  BY <1>1, <1>2, <1>4, Zenon

LEMMA ReturnsKeeps ==
  ASSUME BuilderInv, NEW clause \in Seq(Pieces), Slots(clause) = NodeSlots(nodes),
         AlternatesAfterWhere(<<MainQuery>> \o clause), Returns(clause),
         UNCHANGED <<number, kind, columns, chain, args, nodes, select>>
  PROVE  BuilderInv'
<1> DEFINE whole == <<MainQuery>> \o clause
<1>1. CASE Refused
  <2>1. built' = Nothing
    BY <1>1 DEF Returns
  <2>2. ChainTypes'
    BY <2>1, NothingIs DEF BuilderInv, ChainTypes
  <2>3. ChainOrder'
    <3>1. Before(number' + 1, built'.args)
      BY <2>1, NothingIs DEF Before
    <3>2. QED
      BY <3>1 DEF BuilderInv, ChainOrder
  <2>4. BuiltSplit(number', kind', columns', built') /\ AlternatesAfterWhere(built'.query)
    BY <2>1, NothingIs DEF BuiltSplit, AlternatesAfterWhere
  <2>5. QED
    BY <2>2, <2>3, <2>4 DEF BuilderInv
<1>2. CASE ~Refused
  <2>1. built' = [query |-> whole, args |-> args]
    BY <1>2 DEF Returns
  <2>2. /\ number \in Nat /\ args \in Seq(ArgSet)
        /\ MainQuery \in Pieces /\ <<MainQuery>> \in Seq(Pieces)
        /\ Slots(<<MainQuery>>) = MainQuery.slots
    <3>1. number \in Nat /\ args \in Seq(ArgSet)
      BY BuilderAssumption DEF BuilderInv, ChainTypes
    <3>2. MainQuery \in Pieces
      BY <1>2, MainRoom DEF BuilderInv
    <3>3. QED
      BY <3>1, <3>2, SlotsOne
  <2>3. whole \in Seq(Pieces)
    BY <2>2, ConcatProperties
  <2>4. Slots(whole) = MainQuery.slots \o NodeSlots(nodes)
    BY <2>2, SlotsConcat
  <2> HIDE DEF whole
  <2>5. PICK room \in Nat :
          /\ MainQuery.slots = Own(number, room)
          /\ kind = "SELECT" => room = 0
          /\ kind = "UPDATE" => room = columns
          /\ kind = "INSERT INTO" /\ Len(args) > 0 => room = Len(args)
    BY <1>2, MainRoom DEF BuilderInv
  <2>6. PICK m \in Nat, rest \in Seq(ArgSet) :
          /\ args = Own(number, m) \o rest /\ Foreign(number, rest) /\ Before(number + 1, rest)
          /\ Values(rest) = NodeSlots(nodes)
          /\ kind = "SELECT" => m = 0
          /\ chain # "clause" => rest = <<>>
    BY DEF BuilderInv, ArgsSplit
  <2>7. Own(number, m) \in Seq(ArgSet) /\ Len(Own(number, m)) = m
    BY <2>2, OwnShape
  <2>8. kind = "INSERT INTO" /\ m > 0 => room = m
    <3>1. kind = "INSERT INTO" => args = Own(number, m)
      <4>1. kind = "INSERT INTO" => rest = <<>>
        BY <2>6 DEF BuilderInv, ChainOrder
      <4>2. Own(number, m) \o <<>> = Own(number, m)
        BY <2>7
      <4>3. QED
        BY <2>6, <4>1, <4>2
    <3>2. QED
      BY <2>5, <2>7, <3>1
  <2>9. BuiltSplit(number', kind', columns', built')
    <3>1. built'.args = Own(number, m) \o rest
      BY <2>1, <2>6
    <3>2. Slots(built'.query) = Own(number, room) \o Values(rest)
      BY <2>1, <2>4, <2>5, <2>6
    <3>3. kind = "SELECT" => m = 0 /\ room = 0
      BY <2>5, <2>6
    <3>4. kind = "UPDATE" => room = columns
      BY <2>5
    <3>5. number' = number /\ kind' = kind /\ columns' = columns
      OBVIOUS
    <3>6. QED
      BY <2>6, <2>8, <3>1, <3>2, <3>3, <3>4, <3>5, Zenon DEF BuiltSplit
  <2>10. ChainTypes'
    BY <2>1, <2>2, <2>3 DEF BuilderInv, ChainTypes, Statements
  <2>11. ChainOrder'
    <3>1. Before(number + 1, args)
      <4>1. /\ Len(args) = m + Len(rest)
            /\ \A i \in 1 .. m + Len(rest) :
                 args[i] = IF i <= m THEN Own(number, m)[i] ELSE rest[i - m]
        BY <2>6, <2>7, ConcatProperties
      <4>2. ASSUME NEW k \in 1 .. Len(args) PROVE args[k].chain < number + 1
        <5>1. CASE k <= m
          <6>1. args[k] = Own(number, m)[k] /\ k \in 1 .. m
            BY <4>1, <5>1
          <6>2. args[k].chain = number
            BY <2>2, <6>1, OwnShape
          <6>3. QED
            BY <2>2, <6>2
        <5>2. CASE ~(k <= m)
          <6>1. args[k] = rest[k - m] /\ k - m \in 1 .. Len(rest)
            BY <4>1, <5>2
          <6>2. QED
            BY <2>6, <6>1 DEF Before
        <5>3. QED
          BY <5>1, <5>2
      <4>3. QED
        BY <4>2 DEF Before
    <3>2. Before(number' + 1, built'.args)
      BY <2>1, <3>1
    <3>3. QED
      BY <3>2 DEF BuilderInv, ChainOrder
  <2>12. AlternatesAfterWhere(built'.query)
    BY <2>1 DEF whole
  <2>13. QED
    BY <2>9, <2>10, <2>11, <2>12 DEF BuilderInv
<1>3. QED
  BY <1>1, <1>2

LEMMA BuildPlainKeeps ==
  ASSUME BuilderInv, BuildPlain
  PROVE  BuilderInv'
<1>1. nodes = <<>>
  BY DEF BuilderInv, ChainOrder, BuildPlain
<1>2. Slots(<<>>) = NodeSlots(nodes) /\ <<>> \in Seq(Pieces)
  BY <1>1, SlotsNone, NodeSlotsNone
<1>3. AlternatesAfterWhere(<<MainQuery>> \o <<>>)
  BY DEF AlternatesAfterWhere
<1>4. Returns(<<>>) /\ UNCHANGED <<number, kind, columns, chain, args, nodes, select>>
  BY DEF BuildPlain
<1>5. QED
  BY <1>2, <1>3, <1>4, ReturnsKeeps, Zenon

LEMMA BuildClauseKeeps ==
  ASSUME BuilderInv, BuildClause
  PROVE  BuilderInv'
<1> DEFINE where == Piece("WHERE", <<>>)
           clause == <<where>> \o ConditionString
<1>1. /\ nodes \in Seq(NodeRecs) /\ nodes # <<>>
      /\ \A i \in 1 .. Len(nodes) : i < Len(nodes) => nodes[i].joint # Unjoined
  BY DEF BuilderInv, ChainTypes, ChainOrder, BuildClause
<1>2. PICK s \in Seq(Pieces) :
        /\ s = ConditionString /\ Slots(s) = NodeSlots(nodes)
        /\ Alternates(s) /\ Len(s) = 2 * Len(nodes) - 1
  BY <1>1, ConditionSlots, ConditionsAlternate
<1>3. where \in Pieces /\ where.word = "WHERE" /\ where.slots = <<>>
  BY NoSlots, PieceTypes DEF Words
<1> HIDE DEF where
<1>4. <<where>> \in Seq(Pieces) /\ Slots(<<where>>) = <<>>
  BY <1>3, SlotsOne
<1>5. clause \in Seq(Pieces) /\ Slots(clause) = NodeSlots(nodes)
  <2>1. Slots(<<where>> \o s) = Slots(<<where>>) \o Slots(s)
    BY <1>4, SlotsConcat
  <2>2. Slots(s) \in Seq(ArgSet)
    BY SlotsTypes
  <2>3. <<>> \o Slots(s) = Slots(s)
    BY <2>2
  <2>4. <<where>> \o s \in Seq(Pieces)
    BY <1>4, ConcatProperties
  <2>5. QED
    BY <1>2, <1>4, <2>1, <2>3, <2>4
<1>6. /\ Len(clause) = 2 * Len(nodes) /\ clause[1].word = "WHERE"
      /\ \A i \in 2 .. 2 * Len(nodes) : clause[i] = s[i - 1]
  <2>1. /\ Len(<<where>> \o s) = 1 + Len(s)
        /\ \A i \in 1 .. 1 + Len(s) : (<<where>> \o s)[i] = IF i <= 1 THEN where ELSE s[i - 1]
    BY <1>4, ConcatProperties
  <2>2. QED
    BY <1>1, <1>2, <1>3, <2>1
<1>7. AlternatesAfterWhere(<<MainQuery>> \o clause)
  <2> DEFINE q == <<MainQuery>> \o clause
             n == Len(nodes)
  <2>1. n \in Nat
    BY <1>1
  <2>2. /\ Len(q) = 2 * n + 1
        /\ \A i \in 2 .. 2 * n + 1 : q[i] = clause[i - 1]
    BY <1>5, <1>6, ConcatProperties
  <2> HIDE DEF q, clause
  <2>3. Len(q) > 1 => q[2].word = "WHERE"
    <3>1. Len(q) > 1 => 2 \in 2 .. 2 * n + 1 /\ 2 - 1 = 1
      BY <2>1, <2>2
    <3>2. QED
      BY <1>6, <2>2, <3>1
  <2>4. ASSUME NEW i \in 3 .. Len(q)
        PROVE  q[i].word \in (IF i % 2 = 1 THEN Conditions ELSE Joints)
    <3>1. /\ i \in 2 .. 2 * n + 1 /\ i - 1 \in 2 .. 2 * n /\ (i - 1) - 1 = i - 2
          /\ i - 2 \in 1 .. Len(s)
      BY <1>2, <2>1, <2>2
    <3>2. q[i] = s[i - 2]
      BY <1>6, <2>2, <3>1
    <3>3. s[i - 2].word \in (IF (i - 2) % 2 = 1 THEN Conditions ELSE Joints)
      BY <1>2, <3>1 DEF Alternates
    <3>4. (i - 2) % 2 = i % 2
      OBVIOUS
    <3>5. QED
      BY <3>2, <3>3, <3>4
  <2>5. Len(q) % 2 = 1
    BY <2>1, <2>2
  <2>6. QED
    BY <2>3, <2>4, <2>5 DEF AlternatesAfterWhere, q
<1>8. Returns(clause)
  BY DEF BuildClause, where
<1>9. UNCHANGED <<number, kind, columns, chain, args, nodes, select>>
  BY DEF BuildClause
<1> HIDE DEF clause
<1>10. QED
  BY <1>5, <1>7, <1>8, <1>9, ReturnsKeeps, Zenon

-----------------------------------------------------------------------------
(* The theorems *)

LEMMA InvStep == BuilderInv /\ [BuilderNext]_builderVars => BuilderInv'
<1> SUFFICES ASSUME BuilderInv, [BuilderNext]_builderVars PROVE BuilderInv'
  OBVIOUS
<1>1. ASSUME NEW k \in Kinds, NEW n \in 0 .. MaxColumns, Begin(k, n) PROVE BuilderInv'
  BY <1>1, BeginKeeps
<1>2. ASSUME NEW n \in 0 .. MaxArgs, Args(n) PROVE BuilderInv'
  BY <1>2, ArgsKeeps
<1>3. ASSUME NEW n \in 0 .. MaxArgs, In(n) PROVE BuilderInv'
  <2>1. n \in Nat
    BY BuilderAssumption
  <2>2. QED
    BY <1>3, <2>1, ListKeeps DEF In
<1>4. CASE Where
  BY <1>4, WhereKeeps
<1>5. CASE Equal
  BY <1>5, ListKeeps DEF Equal
<1>6. CASE Is
  BY <1>6, IsKeeps
<1>7. CASE Exists
  BY <1>7, ExistsKeeps
<1>8. ASSUME NEW joint \in Joints, Join(joint) PROVE BuilderInv'
  BY <1>8, JoinKeeps
<1>9. CASE BuildPlain
  BY <1>9, BuildPlainKeeps
<1>10. CASE BuildClause
  BY <1>10, BuildClauseKeeps
<1>11. CASE UNCHANGED builderVars
  <2>1. UNCHANGED <<number, kind, columns, chain, args, nodes, built, select>>
    BY <1>11 DEF builderVars
  <2>2. ChainTypes' /\ ChainOrder' /\ ArgsSplit(number', kind', chain', args', nodes')
    BY <2>1 DEF BuilderInv, ChainTypes, ChainOrder
  <2>3. QED
    BY <2>1, <2>2 DEF BuilderInv
<1>12. QED
  BY <1>1, <1>2, <1>3, <1>4, <1>5, <1>6, <1>7, <1>8, <1>9, <1>10, <1>11 DEF BuilderNext

LEMMA InvHolds == BuilderSpec => []BuilderInv
<1>1. BuilderInit => BuilderInv
  BY InvInit
<1>2. BuilderInv /\ [BuilderNext]_builderVars => BuilderInv'
  BY InvStep
<1>3. QED
  BY <1>1, <1>2, PTL DEF BuilderSpec

LEMMA InvGivesTypes == BuilderInv => BuilderTypeOK
<1> SUFFICES ASSUME BuilderInv PROVE BuilderTypeOK
  OBVIOUS
<1>1. ASSUME NEW i \in DOMAIN nodes
      PROVE  nodes[i].operator \in Conditions /\ nodes[i].joint \in Joints \cup {Unjoined}
  <2>1. nodes[i] \in NodeRecs
    BY DEF BuilderInv, ChainTypes
  <2>2. QED
    BY <2>1 DEF NodeRecs
<1>2. ASSUME NEW i \in DOMAIN built.query
      PROVE  built.query[i].word \in Kinds \cup Conditions \cup Joints \cup {"WHERE"}
  <2>1. built.query \in Seq(Pieces)
    BY DEF BuilderInv, ChainTypes, Statements
  <2>2. built.query[i] \in Pieces
    BY <2>1
  <2>3. QED
    BY <2>2 DEF Pieces, Words
<1>3. QED
  BY <1>1, <1>2 DEF BuilderInv, ChainTypes, BuilderTypeOK

LEMMA InvGivesPlaces == BuilderInv => ArgumentsInPlace
<1> SUFFICES ASSUME BuilderInv, built # Nothing, Filled
             PROVE  Values(built.args) = Slots(built.query)
  BY DEF ArgumentsInPlace
<1>1. number \in Nat /\ kind \in Kinds
  BY BuilderAssumption DEF BuilderInv, ChainTypes
<1>2. PICK m \in Nat, room \in Nat, rest \in Seq(ArgSet) :
        /\ built.args = Own(number, m) \o rest /\ Foreign(number, rest)
        /\ Slots(built.query) = Own(number, room) \o Values(rest)
        /\ kind = "SELECT" => m = 0 /\ room = 0
        /\ kind = "UPDATE" => room = columns
        /\ kind = "INSERT INTO" /\ m > 0 => room = m
  BY DEF BuilderInv, BuiltSplit
<1>3. Given = m
  <2>1. Cardinality(FirstOf(number, Own(number, m) \o rest)) = m
    BY <1>1, <1>2, OwnCounted
  <2>2. Given = Cardinality(FirstOf(number, built.args))
    BY DEF Given, FirstOf
  <2>3. QED
    BY <1>2, <2>1, <2>2
<1>4. room = m
  <2>1. CASE kind = "SELECT"
    BY <1>2, <2>1
  <2>2. CASE kind = "UPDATE"
    BY <1>2, <1>3, <2>2 DEF Filled
  <2>3. CASE kind = "INSERT INTO"
    BY <1>2, <1>3, <2>3 DEF Filled
  <2>4. QED
    BY <1>1, <2>1, <2>2, <2>3 DEF Kinds
<1>5. Own(number, m) \in Seq(ArgSet) /\ Values(Own(number, m)) = Own(number, m)
  BY <1>1, OwnShape
<1>6. Values(Own(number, m) \o rest) = Values(Own(number, m)) \o Values(rest)
  BY <1>5, ValuesConcat
<1>7. QED
  BY <1>2, <1>4, <1>5, <1>6

LEMMA InvGivesJoints == BuilderInv => ConditionsJoined
BY DEF BuilderInv, AlternatesAfterWhere, ConditionsJoined

\* BuilderTypeOK: in every chain the columns, nodes and words are of the kinds the
\* builders write.
THEOREM BuilderTypes == BuilderSpec => []BuilderTypeOK
BY InvHolds, InvGivesTypes, PTL

\* ArgumentsInPlace: however many columns, rows, conditions and subqueries a chain has
\* and however often it is built, the k-th "?" of what Build returns is the k-th value
\* of its arguments.
THEOREM ValuesInPlace == BuilderSpec => []ArgumentsInPlace
BY InvHolds, InvGivesPlaces, PTL

\* ConditionsJoined: a clause of any length has one AND or OR between each two
\* conditions and none after the last, whatever And and Or were called in its chain.
THEOREM ClausesJoined == BuilderSpec => []ConditionsJoined
BY InvHolds, InvGivesJoints, PTL
=============================================================================
