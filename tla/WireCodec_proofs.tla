--------------------------- MODULE WireCodec_proofs ---------------------------
(***************************************************************************)
(* What is encoded is understood, for messages of any size, with strings,  *)
(* lists and maps of any length, and fields that are not known around it.  *)
(* Billing_proofs has the induction (Upwards) and the facts on FlattenSeq. *)
(***************************************************************************)
EXTENDS WireCodec, Billing_proofs, FiniteSetTheorems

Raw    == Seq(Nat)
AField == [num : Nat, typ : Nat, val : Raw]

(* Next takes a field off the front of what is left.                        *)
LEMMA NextTypes ==
  ASSUME NEW b \in Raw, NextField(b).ok
  PROVE  /\ NextField(b).field \in AField
         /\ NextField(b).rest \in Raw /\ Len(NextField(b).rest) < Len(b)
<1> DEFINE num == b[1] \div 8
           typ == b[1] % 8
           len == IF typ = BytesType THEN b[2] ELSE 0
<1>1. Len(b) \in Nat /\ Len(b) >= 2 /\ b[1] \in Nat /\ b[2] \in Nat
  BY DEF NextField, AtEnd, Raw
<1>2. num \in Nat /\ typ \in Nat /\ len \in Nat
  BY <1>1
<1>3. /\ Len(b) >= 2 + len
      /\ NextField(b).field = Field(num, typ, IF typ = BytesType THEN SubSeq(b, 3, 2 + len)
                                              ELSE <<b[2]>>)
      /\ NextField(b).rest = SubSeq(b, 3 + len, Len(b))
  <2> DEFINE bad   == num = 0 \/ typ \notin {VarintType, Fixed64Type, BytesType, Fixed32Type}
                        \/ Len(b) < 2 + len
             field == Field(num, typ, IF typ = BytesType THEN SubSeq(b, 3, 2 + len) ELSE <<b[2]>>)
             rest  == SubSeq(b, 3 + len, Len(b))
  <2>1. NextField(b) = IF Len(b) < 2 THEN AtEnd
                       ELSE IF bad THEN AtEnd ELSE [ok |-> TRUE, field |-> field, rest |-> rest]
    BY Zenon DEF NextField
  <2>2. ~bad => Len(b) >= 2 + len
    BY <1>1, <1>2
  <2> HIDE DEF bad, field, rest
  <2>3. ~bad /\ NextField(b) = [ok |-> TRUE, field |-> field, rest |-> rest]
    BY <2>1 DEF AtEnd
  <2>4. NextField(b).field = field /\ NextField(b).rest = rest
    BY <2>3
  <2> QED BY <2>2, <2>3, <2>4, Zenon DEF field, rest
<1> HIDE DEF num, typ, len
<1>4. SubSeq(b, 3, 2 + len) \in Raw /\ <<b[2]>> \in Raw
  <2>1. \A i \in 3 .. 2 + len : b[i] \in Nat
    <3>1. \A i \in 1 .. Len(b) : b[i] \in Nat
      BY ElementOfSeq DEF Raw
    <3> QED BY <1>1, <1>2, <1>3, <3>1
  <2>2. SubSeq(b, 3, 2 + len) \in Seq(Nat)
    BY <1>2, <2>1, SubSeqProperties
  <2>3. <<b[2]>> \in Seq(Nat)
    BY <1>1
  <2> QED BY <2>2, <2>3 DEF Raw
<1>5. SubSeq(b, 3 + len, Len(b)) \in Raw /\ Len(SubSeq(b, 3 + len, Len(b))) < Len(b)
  <2>1. \A i \in 3 + len .. Len(b) : b[i] \in Nat
    <3>1. \A i \in 1 .. Len(b) : b[i] \in Nat
      BY ElementOfSeq DEF Raw
    <3>2. \A i \in 3 + len .. Len(b) : i \in 1 .. Len(b)
      BY <1>1, <1>2
    <3> QED BY <3>1, <3>2, Zenon
  <2>2. 3 + len \in Int /\ Len(b) \in Int
    BY <1>1, <1>2
  <2>3. PICK r : r = SubSeq(b, 3 + len, Len(b))
    OBVIOUS
  <2>4. /\ r \in Seq(Nat)
        /\ Len(r) = IF 3 + len <= Len(b) THEN Len(b) - (3 + len) + 1 ELSE 0
    BY <2>1, <2>2, <2>3, SubSeqProperties
  <2>5. Len(r) < Len(b)
    BY <1>1, <1>2, <2>4
  <2> QED BY <2>3, <2>4, <2>5 DEF Raw
<1> QED BY <1>2, <1>3, <1>4, <1>5 DEF Field, AField

----------------------------------------------------------------------------
(* The recursion on what is left of a buffer is sound, since it shrinks.    *)

Reads(g, n) ==
  g = [b \in {c \in Raw : Len(c) <= n} |->
         IF NextField(b).ok THEN <<NextField(b).field>> \o g[NextField(b).rest]
                                  ELSE Leftover(b)]

LEMMA ReadsExist == \A n \in Nat : \E g : Reads(g, n)
<1> DEFINE S == {n \in Nat : \E g : Reads(g, n)}
<1>1. 0 \in S
  <2> DEFINE g == [b \in {c \in Raw : Len(c) <= 0} |-> Leftover(b)]
  <2>1. \A b \in Raw : Len(b) <= 0 => ~NextField(b).ok
    <3> SUFFICES ASSUME NEW b \in Raw, Len(b) <= 0, NextField(b).ok
                 PROVE  FALSE
      BY Zenon
    <3>1. Len(NextField(b).rest) \in Nat /\ Len(b) \in Nat
      BY NextTypes DEF Raw
    <3> QED BY <3>1, NextTypes
  <2>2. Reads(g, 0)
    BY <2>1, Zenon DEF Reads
  <2> QED BY <2>2
<1>2. ASSUME NEW n \in Nat, n \in S
      PROVE  n + 1 \in S
  <2>1. PICK f : Reads(f, n)
    BY <1>2
  <2> DEFINE D    == {c \in Raw : Len(c) <= n}
             E    == {c \in Raw : Len(c) <= n + 1}
             g    == [b \in E |-> IF NextField(b).ok
                                  THEN <<NextField(b).field>> \o f[NextField(b).rest]
                                  ELSE Leftover(b)]
  <2>2. \A b \in E : NextField(b).ok => NextField(b).rest \in D
    <3> SUFFICES ASSUME NEW b \in E, NextField(b).ok
                 PROVE  NextField(b).rest \in D
      BY Zenon
    <3>1. Len(NextField(b).rest) \in Nat /\ Len(b) \in Nat /\ Len(b) <= n + 1
      BY NextTypes DEF Raw
    <3> QED BY <3>1, NextTypes
  <2>3. D \subseteq E
    BY DEF Raw
  <2>4. \A b \in D : g[b] = f[b]
    BY <2>1, <2>3, Zenon DEF Reads
  <2>5. g = [b \in E |-> IF NextField(b).ok
                         THEN <<NextField(b).field>> \o g[NextField(b).rest]
                         ELSE Leftover(b)]
    <3> HIDE DEF D, E
    <3>1. \A b \in E : NextField(b).ok => g[NextField(b).rest] = f[NextField(b).rest]
      BY <2>2, <2>4, Zenon
    <3> QED BY <3>1, Zenon
  <2>6. Reads(g, n + 1)
    BY <2>5, Zenon DEF Reads
  <2>7. n + 1 \in Nat
    OBVIOUS
  <2> HIDE DEF g
  <2> QED BY <2>6, <2>7, Zenon
<1>3. \A n \in Nat : n \in S
  <2> HIDE DEF S
  <2> QED BY <1>1, <1>2, Upwards
<1> QED BY <1>3, Zenon

LEMMA ReadsAgree ==
  ASSUME NEW f, NEW n \in Nat, Reads(f, n), NEW g, NEW m \in Nat, Reads(g, m)
  PROVE  \A b \in Raw : Len(b) <= n /\ Len(b) <= m => f[b] = g[b]
<1> DEFINE S == {k \in Nat : \A b \in Raw : Len(b) <= k /\ Len(b) <= n /\ Len(b) <= m => f[b] = g[b]}
<1>1. \A b \in Raw : Len(b) <= n /\ Len(b) <= m
        => /\ f[b] = IF NextField(b).ok THEN <<NextField(b).field>> \o f[NextField(b).rest]
                  ELSE Leftover(b)
           /\ g[b] = IF NextField(b).ok THEN <<NextField(b).field>> \o g[NextField(b).rest]
                  ELSE Leftover(b)
  BY Zenon DEF Reads
<1>2. 0 \in S
  <2> SUFFICES ASSUME NEW b \in Raw, Len(b) <= 0, Len(b) <= n, Len(b) <= m
               PROVE  f[b] = g[b]
    BY Zenon
  <2>1. ~NextField(b).ok
    <3> SUFFICES ASSUME NextField(b).ok
                 PROVE  FALSE
      BY Zenon
    <3>1. Len(NextField(b).rest) \in Nat /\ Len(b) \in Nat
      BY NextTypes DEF Raw
    <3> QED BY <3>1, NextTypes
  <2> QED BY <1>1, <2>1, Zenon
<1>3. ASSUME NEW k \in Nat, k \in S
      PROVE  k + 1 \in S
  <2> SUFFICES ASSUME NEW b \in Raw, Len(b) <= k + 1, Len(b) <= n, Len(b) <= m
               PROVE  f[b] = g[b]
    <3>1. k + 1 \in Nat
      OBVIOUS
    <3> QED BY <3>1, Zenon
  <2>1. CASE NextField(b).ok
    <3> DEFINE r == NextField(b).rest
    <3>1. r \in Raw /\ Len(r) \in Nat /\ Len(b) \in Nat /\ Len(r) < Len(b)
      BY <2>1, NextTypes DEF Raw
    <3> HIDE DEF r
    <3>2. Len(r) <= k /\ Len(r) <= n /\ Len(r) <= m
      BY <3>1
    <3>3. f[r] = g[r]
      BY <1>3, <3>1, <3>2, Zenon
    <3> QED BY <1>1, <2>1, <3>3, Zenon DEF r
  <2>2. CASE ~NextField(b).ok
    BY <1>1, <2>2, Zenon
  <2> QED BY <2>1, <2>2
<1>4. \A k \in Nat : k \in S
  <2> HIDE DEF S
  <2> QED BY <1>2, <1>3, Upwards
<1>5. ASSUME NEW b \in Raw, Len(b) <= n, Len(b) <= m
      PROVE  f[b] = g[b]
  <2>1. n \in S
    BY <1>4
  <2> QED BY <1>5, <2>1, Zenon
<1> QED BY <1>5, Zenon

(* A buffer's fields are the first and those of what is left.               *)
LEMMA FieldsStep ==
  ASSUME NEW b \in Raw
  PROVE  Fields(b) = IF NextField(b).ok THEN <<NextField(b).field>> \o Fields(NextField(b).rest)
                     ELSE Leftover(b)
<1> DEFINE Solves(f) == f = [c \in Seq(Nat) |-> LET n == NextField(c)
                               IN IF n.ok THEN <<n.field>> \o f[n.rest] ELSE Leftover(c)]
           part(n) == CHOOSE g : Reads(g, n)
           all     == [c \in Raw |-> part(Len(c))[c]]
<1>1. \A n \in Nat : Reads(part(n), n)
  BY ReadsExist, Zenon
<1> HIDE DEF part
<1>2. ASSUME NEW c \in Raw
      PROVE  all[c] = IF NextField(c).ok THEN <<NextField(c).field>> \o all[NextField(c).rest]
                      ELSE Leftover(c)
  <2>1. Len(c) \in Nat /\ c \in {x \in Raw : Len(x) <= Len(c)}
    BY DEF Raw
  <2>2. part(Len(c))[c] = IF NextField(c).ok
                          THEN <<NextField(c).field>> \o part(Len(c))[NextField(c).rest]
                          ELSE Leftover(c)
    BY <1>1, <2>1, Zenon DEF Reads
  <2>3. CASE NextField(c).ok
    <3> DEFINE r == NextField(c).rest
    <3>1. r \in Raw /\ Len(r) \in Nat /\ Len(r) < Len(c)
      BY <2>3, NextTypes DEF Raw
    <3> HIDE DEF r
    <3>2. Len(r) <= Len(c) /\ Len(r) <= Len(r)
      BY <2>1, <3>1
    <3>3. Reads(part(Len(c)), Len(c)) /\ Reads(part(Len(r)), Len(r))
      BY <1>1, <2>1, <3>1, Zenon
    <3>4. \A x \in Raw : Len(x) <= Len(c) /\ Len(x) <= Len(r)
                          => part(Len(c))[x] = part(Len(r))[x]
      BY <2>1, <3>1, <3>3, ReadsAgree
    <3>5. part(Len(c))[r] = part(Len(r))[r]
      BY <3>1, <3>2, <3>4, Zenon
    <3> QED BY <2>2, <2>3, <3>1, <3>5, Zenon DEF r
  <2>4. CASE ~NextField(c).ok
    BY <2>2, <2>4, Zenon
  <2> QED BY <2>3, <2>4
<1>3. Solves(all)
  <2> HIDE DEF all
  <2>1. all = [c \in Raw |-> all[c]]
    BY Zenon DEF all
  <2>2. all = [c \in Raw |-> IF NextField(c).ok
                             THEN <<NextField(c).field>> \o all[NextField(c).rest]
                             ELSE Leftover(c)]
    BY <1>2, <2>1, Zenon
  <2> QED BY <2>2, Zenon DEF Raw
<1> DEFINE f == CHOOSE g : Solves(g)
<1>4. Solves(f)
  <2> HIDE DEF all, Solves
  <2> QED BY <1>3, Zenon
<1>5. \A c \in Raw : Fields(c) = f[c]
  BY Zenon DEF Fields
<1> HIDE DEF f
<1>6. f[b] = IF NextField(b).ok THEN <<NextField(b).field>> \o f[NextField(b).rest]
             ELSE Leftover(b)
  BY <1>4, Zenon DEF Raw
<1> QED BY <1>5, <1>6, NextTypes, Zenon
----------------------------------------------------------------------------
(* What an encoder wrote is what Next reads.                                *)

Apart(s, h1, h2, raw, b) ==
  /\ s \in Raw /\ Len(s) = 2 + Len(raw) + Len(b) /\ s[1] = h1 /\ s[2] = h2
  /\ SubSeq(s, 3, 2 + Len(raw)) = raw /\ SubSeq(s, 3 + Len(raw), Len(s)) = b

LEMMA Parts ==
  ASSUME NEW h1 \in Nat, NEW h2 \in Nat, NEW raw \in Raw, NEW b \in Raw
  PROVE  Apart((<<h1, h2>> \o raw) \o b, h1, h2, raw, b)
<1> DEFINE h == <<h1, h2>>
           t == h \o raw
           s == (<<h1, h2>> \o raw) \o b
<1>1. /\ h \in Seq(Nat) /\ Len(h) = 2 /\ h[1] = h1 /\ h[2] = h2
      /\ Len(raw) \in Nat /\ Len(b) \in Nat /\ raw \in Seq(Nat) /\ b \in Seq(Nat)
  BY DEF Raw
<1> HIDE DEF h
<1>2. /\ t \in Seq(Nat) /\ Len(t) = 2 + Len(raw)
      /\ \A i \in 1 .. 2 + Len(raw) : t[i] = IF i <= 2 THEN h[i] ELSE raw[i - 2]
  <2>1. /\ t \in Seq(Nat) /\ Len(t) = Len(h) + Len(raw)
        /\ \A i \in 1 .. Len(h) + Len(raw) : t[i] = IF i <= Len(h) THEN h[i] ELSE raw[i - Len(h)]
    BY <1>1, ConcatProperties, Zenon
  <2> QED BY <1>1, <2>1, Zenon
<1> HIDE DEF t
<1>3. s = t \o b
  BY Zenon DEF t, h
<1> HIDE DEF s
<1>4. /\ s \in Seq(Nat) /\ Len(s) = 2 + Len(raw) + Len(b)
      /\ \A i \in 1 .. 2 + Len(raw) + Len(b) :
           s[i] = IF i <= 2 + Len(raw) THEN t[i] ELSE b[i - (2 + Len(raw))]
  <2>1. /\ s \in Seq(Nat) /\ Len(s) = Len(t) + Len(b)
        /\ \A i \in 1 .. Len(t) + Len(b) : s[i] = IF i <= Len(t) THEN t[i] ELSE b[i - Len(t)]
    <3>1. /\ t \o b \in Seq(Nat) /\ Len(t \o b) = Len(t) + Len(b)
          /\ \A i \in 1 .. Len(t) + Len(b) :
               (t \o b)[i] = IF i <= Len(t) THEN t[i] ELSE b[i - Len(t)]
      BY <1>1, <1>2, ConcatProperties, Zenon
    <3> QED BY <1>3, <3>1, Zenon
  <2> QED BY <1>2, <2>1, Zenon
<1>5. s[1] = h1 /\ s[2] = h2
  <2>1. /\ 1 \in 1 .. 2 + Len(raw) /\ 2 \in 1 .. 2 + Len(raw) /\ 1 <= 2 /\ 2 <= 2
        /\ 1 \in 1 .. 2 + Len(raw) + Len(b) /\ 2 \in 1 .. 2 + Len(raw) + Len(b)
        /\ 1 <= 2 + Len(raw) /\ 2 <= 2 + Len(raw)
    BY <1>1
  <2>2. s[1] = t[1] /\ s[2] = t[2]
    BY <1>4, <2>1, Zenon
  <2>3. t[1] = h[1] /\ t[2] = h[2]
    BY <1>2, <2>1, Zenon
  <2> QED BY <1>1, <2>2, <2>3, Zenon
<1>6. SubSeq(s, 3, 2 + Len(raw)) = raw
  <2> DEFINE u == SubSeq(s, 3, 2 + Len(raw))
  <2>1. /\ u \in Seq(Nat) /\ Len(u) = Len(raw)
        /\ \A i \in 1 .. Len(raw) : u[i] = s[3 + i - 1]
    <3>1. \A i \in 3 .. 2 + Len(raw) : s[i] \in Nat
      <4>1. \A i \in 1 .. Len(s) : s[i] \in Nat
        BY <1>4, ElementOfSeq
      <4>2. \A i \in 3 .. 2 + Len(raw) : i \in 1 .. Len(s)
        BY <1>1, <1>4
      <4> QED BY <4>1, <4>2, Zenon
    <3>2. 3 \in Int /\ 2 + Len(raw) \in Int /\ (2 + Len(raw)) - 3 + 1 = Len(raw)
      BY <1>1
    <3>3. /\ u \in Seq(Nat)
          /\ Len(u) = IF 3 <= 2 + Len(raw) THEN (2 + Len(raw)) - 3 + 1 ELSE 0
          /\ \A i \in 1 .. (2 + Len(raw)) - 3 + 1 : u[i] = s[3 + i - 1]
      BY <3>1, <3>2, SubSeqProperties
    <3> HIDE DEF u
    <3>4. Len(u) = Len(raw)
      BY <1>1, <3>3
    <3> QED BY <3>2, <3>3, <3>4, Zenon
  <2>2. ASSUME NEW i \in 1 .. Len(u)
        PROVE  u[i] = raw[i]
    <3> DEFINE j == i + 2
    <3>1. /\ i \in 1 .. Len(raw) /\ j \in 1 .. 2 + Len(raw) + Len(b)
          /\ j \in 1 .. 2 + Len(raw) /\ 3 + i - 1 = j /\ j - 2 = i
          /\ ~(j <= 2) /\ j <= 2 + Len(raw)
      BY <1>1, <2>1
    <3> HIDE DEF j
    <3>2. u[i] = s[j]
      BY <2>1, <3>1, Zenon
    <3>3. s[j] = t[j]
      BY <1>4, <3>1, Zenon
    <3>4. t[j] = raw[i]
      BY <1>2, <3>1, Zenon
    <3> QED BY <3>2, <3>3, <3>4, Zenon
  <2> HIDE DEF u
  <2>3. u = raw
    BY <1>1, <2>1, <2>2, SeqEqual
  <2> QED BY <2>3 DEF u
<1>7. SubSeq(s, 3 + Len(raw), Len(s)) = b
  <2> DEFINE u == SubSeq(s, 3 + Len(raw), Len(s))
  <2>1. /\ u \in Seq(Nat) /\ Len(u) = Len(b)
        /\ \A i \in 1 .. Len(b) : u[i] = s[3 + Len(raw) + i - 1]
    <3>1. \A i \in 3 + Len(raw) .. Len(s) : s[i] \in Nat
      <4>1. \A i \in 1 .. Len(s) : s[i] \in Nat
        BY <1>4, ElementOfSeq
      <4>2. \A i \in 3 + Len(raw) .. Len(s) : i \in 1 .. Len(s)
        BY <1>1, <1>4
      <4> QED BY <4>1, <4>2, Zenon
    <3>2. 3 + Len(raw) \in Int /\ Len(s) \in Int
      BY <1>1, <1>4
    <3>3. /\ u \in Seq(Nat)
          /\ Len(u) = IF 3 + Len(raw) <= Len(s) THEN Len(s) - (3 + Len(raw)) + 1 ELSE 0
          /\ \A i \in 1 .. Len(s) - (3 + Len(raw)) + 1 : u[i] = s[3 + Len(raw) + i - 1]
      BY <3>1, <3>2, SubSeqProperties
    <3>4. Len(s) - (3 + Len(raw)) + 1 = Len(b)
      BY <1>1, <1>4
    <3> HIDE DEF u
    <3>5. Len(u) = Len(b)
      BY <1>1, <1>4, <3>3, <3>4
    <3> QED BY <3>3, <3>4, <3>5, Zenon
  <2>2. ASSUME NEW i \in 1 .. Len(u)
        PROVE  u[i] = b[i]
    <3> DEFINE j == i + (2 + Len(raw))
    <3>1. /\ i \in 1 .. Len(b) /\ j \in 1 .. 2 + Len(raw) + Len(b)
          /\ ~(j <= 2 + Len(raw)) /\ 3 + Len(raw) + i - 1 = j /\ j - (2 + Len(raw)) = i
      BY <1>1, <2>1
    <3> HIDE DEF j
    <3> QED BY <1>4, <2>1, <3>1
  <2> HIDE DEF u
  <2>3. u = b
    BY <1>1, <2>1, <2>2, SeqEqual
  <2> QED BY <2>3 DEF u
<1> QED BY <1>4, <1>5, <1>6, <1>7, Zenon DEF Raw, Apart, s

LEMMA NextBytes ==
  ASSUME NEW num \in Nat \ {0}, NEW raw \in Raw, NEW b \in Raw
  PROVE  NextField(BytesField(num, raw) \o b)
           = [ok |-> TRUE, field |-> Field(num, BytesType, raw), rest |-> b]
<1> DEFINE s == BytesField(num, raw) \o b
           tag == Tag(num, BytesType)
<1>1. tag \in Nat /\ tag \div 8 = num /\ tag % 8 = BytesType
  BY DEF Tag, BytesType
<1>2. Len(raw) \in Nat /\ Len(b) \in Nat
  BY DEF Raw
<1>3. s = (<<tag, Len(raw)>> \o raw) \o b
  BY Zenon DEF BytesField
<1> HIDE DEF s, tag
<1>4. /\ Len(s) = 2 + Len(raw) + Len(b) /\ s[1] = tag /\ s[2] = Len(raw)
      /\ SubSeq(s, 3, 2 + Len(raw)) = raw /\ SubSeq(s, 3 + Len(raw), Len(s)) = b
  <2>1. Apart((<<tag, Len(raw)>> \o raw) \o b, tag, Len(raw), raw, b)
    BY <1>1, <1>2, Parts, Zenon
  <2> QED BY <1>3, <2>1, Zenon DEF Apart
<1>5. ~(Len(s) < 2) /\ ~(Len(s) < 2 + Len(raw)) /\ num # 0
  BY <1>2, <1>4
<1>6. NextField(s) = [ok |-> TRUE, field |-> Field(num, BytesType, raw), rest |-> b]
  BY <1>1, <1>4, <1>5, Zenon DEF NextField
<1> QED BY <1>6, Zenon DEF s

LEMMA NextPlain ==
  ASSUME NEW num \in Nat \ {0}, NEW typ \in {VarintType, Fixed64Type, Fixed32Type},
         NEW v \in Nat, NEW b \in Raw
  PROVE  NextField(<<Tag(num, typ), v>> \o b)
           = [ok |-> TRUE, field |-> Field(num, typ, <<v>>), rest |-> b]
<1> DEFINE tag == Tag(num, typ)
           s   == <<tag, v>> \o b
<1>1. tag \in Nat /\ tag \div 8 = num /\ tag % 8 = typ /\ typ # BytesType
  BY DEF Tag, BytesType, VarintType, Fixed64Type, Fixed32Type
<1>2. Len(b) \in Nat /\ <<>> \in Raw /\ Len(<<>>) = 0
  BY DEF Raw
<1> HIDE DEF tag
<1>3. s = (<<tag, v>> \o <<>>) \o b
  BY <1>1
<1> HIDE DEF s
<1>4. /\ Len(s) = 2 + Len(<<>>) + Len(b) /\ s[1] = tag /\ s[2] = v
      /\ SubSeq(s, 3 + Len(<<>>), Len(s)) = b
  <2>1. Apart((<<tag, v>> \o <<>>) \o b, tag, v, <<>>, b)
    BY <1>1, <1>2, Parts, Zenon
  <2> QED BY <1>3, <2>1, Zenon DEF Apart
<1>5. ~(Len(s) < 2) /\ ~(Len(s) < 2 + 0) /\ num # 0
  BY <1>2, <1>4
<1>6. SubSeq(s, 3 + 0, Len(s)) = b
  BY <1>2, <1>4
<1>7. NextField(s) = [ok |-> TRUE, field |-> Field(num, typ, <<v>>), rest |-> b]
  BY <1>1, <1>4, <1>5, <1>6, Zenon DEF NextField
<1> QED BY <1>7, Zenon DEF s, tag

----------------------------------------------------------------------------
(* The fields of a buffer, and those picked by their number and type.       *)

LEMMA FieldsTyped == \A b \in Raw : Fields(b) \in Seq(AField)
<1> DEFINE S == {k \in Nat : \A b \in Raw : Len(b) <= k => Fields(b) \in Seq(AField)}
<1>1. \A b \in Raw : Len(b) \in Nat
  BY DEF Raw
<1>2. ASSUME NEW b \in Raw, ~NextField(b).ok
      PROVE  Fields(b) \in Seq(AField)
  <2>1. Fields(b) = Leftover(b)
    BY <1>2, FieldsStep, Zenon
  <2>2. <<>> \in Raw
    BY DEF Raw
  <2>3. Field(0, VarintType, <<>>) \in AField
    BY <2>2 DEF Field, AField, VarintType
  <2>4. <<Field(0, VarintType, <<>>)>> \in Seq(AField) /\ <<>> \in Seq(AField)
    BY <2>3
  <2> QED BY <2>1, <2>4, Zenon DEF Leftover
<1>3. ASSUME NEW b \in Raw, NextField(b).ok, Fields(NextField(b).rest) \in Seq(AField)
      PROVE  Fields(b) \in Seq(AField)
  <2> DEFINE f  == NextField(b).field
             fs == Fields(NextField(b).rest)
  <2>1. f \in AField /\ fs \in Seq(AField) /\ Fields(b) = <<f>> \o fs
    BY <1>3, NextTypes, FieldsStep, Zenon
  <2> HIDE DEF f, fs
  <2> QED BY <2>1
<1>4. 0 \in S
  <2> SUFFICES ASSUME NEW b \in Raw, Len(b) <= 0
               PROVE  Fields(b) \in Seq(AField)
    OBVIOUS
  <2>1. ~NextField(b).ok
    <3> SUFFICES ASSUME NextField(b).ok
                 PROVE  FALSE
      BY Zenon
    <3>1. NextField(b).rest \in Raw /\ Len(NextField(b).rest) < Len(b)
      BY NextTypes
    <3>2. Len(NextField(b).rest) \in Nat /\ Len(b) \in Nat
      BY <1>1, <3>1
    <3> QED BY <3>1, <3>2
  <2> QED BY <1>2, <2>1
<1>5. ASSUME NEW k \in Nat, k \in S
      PROVE  k + 1 \in S
  <2> SUFFICES ASSUME NEW b \in Raw, Len(b) <= k + 1
               PROVE  Fields(b) \in Seq(AField)
    OBVIOUS
  <2>1. CASE NextField(b).ok
    <3> DEFINE r == NextField(b).rest
    <3>1. r \in Raw /\ Len(r) < Len(b)
      BY <2>1, NextTypes
    <3> HIDE DEF r
    <3>2. Len(r) \in Nat /\ Len(b) \in Nat
      BY <1>1, <3>1
    <3>3. Len(r) <= k
      BY <3>1, <3>2
    <3>4. Fields(r) \in Seq(AField)
      BY <1>5, <3>1, <3>3, Zenon
    <3> QED BY <1>3, <2>1, <3>4, Zenon DEF r
  <2>2. CASE ~NextField(b).ok
    BY <1>2, <2>2, Zenon
  <2> QED BY <2>1, <2>2
<1>6. \A k \in Nat : k \in S
  <2> HIDE DEF S
  <2> QED BY <1>4, <1>5, Upwards
<1>7. ASSUME NEW b \in Raw
      PROVE  Fields(b) \in Seq(AField)
  <2>1. Len(b) \in S /\ Len(b) <= Len(b)
    BY <1>1, <1>6
  <2> QED BY <2>1, Zenon
<1> QED BY <1>7, Zenon

Add(s, f, n, t) == IF f.num = n /\ f.typ = t THEN Append(s, f.val) ELSE s

Picks(p, fs, n, t) ==
  p = [i \in 0 .. Len(fs) |-> IF i = 0 THEN <<>> ELSE Add(p[i - 1], fs[i], n, t)]

LEMMA AddConcat ==
  ASSUME NEW a \in Seq(Raw), NEW s \in Seq(Raw), NEW f \in AField, NEW n, NEW t
  PROVE  Add(s, f, n, t) \in Seq(Raw) /\ Add(a \o s, f, n, t) = a \o Add(s, f, n, t)
<1> DEFINE v == f.val
<1>1. v \in Raw
  BY DEF AField
<1> HIDE DEF v
<1>2. Append(s, v) \in Seq(Raw)
  BY <1>1
<1>3. <<v>> \in Seq(Raw) /\ a \o s \in Seq(Raw)
  BY <1>1
<1>4. Append(a \o s, v) = (a \o s) \o <<v>> /\ Append(s, v) = s \o <<v>>
  BY <1>1, <1>3, AppendIsConcat
<1>5. (a \o s) \o <<v>> = a \o (s \o <<v>>)
  BY <1>3, ConcatAssociative
<1>6. Append(a \o s, v) = a \o Append(s, v)
  BY <1>4, <1>5, Zenon
<1> QED BY <1>2, <1>6, Zenon DEF Add, v

LEMMA PicksExist ==
  ASSUME NEW fs \in Seq(AField), NEW n, NEW t
  PROVE  \E p : Picks(p, fs, n, t)
<1> DEFINE Start(m, p) == p = [i \in 0 .. m |-> IF i = 0 THEN <<>> ELSE Add(p[i - 1], fs[i], n, t)]
           S == {m \in Nat : m <= Len(fs) => \E p : Start(m, p)}
<1>1. 0 \in S
  <2> DEFINE p == [i \in 0 .. 0 |-> <<>>]
  <2>1. Start(0, p)
    OBVIOUS
  <2> QED BY <2>1
<1>2. ASSUME NEW m \in Nat, m \in S
      PROVE  m + 1 \in S
  <2> SUFFICES ASSUME m + 1 <= Len(fs)
               PROVE  \E p : Start(m + 1, p)
    OBVIOUS
  <2>1. PICK p : Start(m, p)
    BY <1>2
  <2> DEFINE g == [i \in 0 .. m + 1 |-> IF i = m + 1 THEN Add(p[m], fs[m + 1], n, t) ELSE p[i]]
  <2>2. Start(m + 1, g)
    BY <2>1
  <2> QED BY <2>2
<1>3. \A m \in Nat : m \in S
  <2> HIDE DEF S
  <2> QED BY <1>1, <1>2, Upwards
<1> QED BY <1>3 DEF Picks

LEMMA PickSteps ==
  ASSUME NEW fs \in Seq(AField), NEW n, NEW t, NEW p, Picks(p, fs, n, t)
  PROVE  /\ p[0] = <<>> /\ \A i \in 1 .. Len(fs) : p[i] = Add(p[i - 1], fs[i], n, t)
         /\ \A i \in 0 .. Len(fs) : p[i] \in Seq(Raw)
<1>1. p[0] = <<>> /\ \A i \in 1 .. Len(fs) : p[i] = Add(p[i - 1], fs[i], n, t)
  BY DEF Picks
<1> DEFINE S == {m \in Nat : m <= Len(fs) => p[m] \in Seq(Raw)}
<1>2. 0 \in S
  <2>1. <<>> \in Seq(Raw)
    OBVIOUS
  <2> QED BY <1>1, <2>1
<1>3. ASSUME NEW m \in Nat, m \in S
      PROVE  m + 1 \in S
  <2> SUFFICES ASSUME m + 1 <= Len(fs)
               PROVE  p[m + 1] \in Seq(Raw)
    OBVIOUS
  <2>1. m + 1 \in 1 .. Len(fs) /\ (m + 1) - 1 = m /\ m <= Len(fs)
    OBVIOUS
  <2>2. fs[m + 1] \in AField
    BY <2>1, ElementOfSeq
  <2>3. p[m + 1] = Add(p[m], fs[m + 1], n, t) /\ p[m] \in Seq(Raw)
    BY <1>1, <1>3, <2>1, Zenon
  <2>4. Add(p[m], fs[m + 1], n, t) \in Seq(Raw)
    BY <2>2, <2>3, AddConcat, Zenon
  <2> QED BY <2>3, <2>4, Zenon
<1>4. \A m \in Nat : m \in S
  <2> HIDE DEF S
  <2> QED BY <1>2, <1>3, Upwards
<1> QED BY <1>1, <1>4

LEMMA PickedSteps ==
  ASSUME NEW fs \in Seq(AField), NEW n, NEW t
  PROVE  \E p : Picks(p, fs, n, t) /\ Picked(fs, n, t) = p[Len(fs)]
<1> DEFINE Solves(q) == q = [i \in 0 .. Len(fs) |->
                          IF i = 0 THEN <<>>
                          ELSE IF fs[i].num = n /\ fs[i].typ = t
                                 THEN Append(q[i - 1], fs[i].val) ELSE q[i - 1]]
           p == CHOOSE q : Solves(q)
<1>1. \A q : Solves(q) <=> Picks(q, fs, n, t)
  BY Zenon DEF Picks, Add
<1>2. Solves(p)
  <2> HIDE DEF Solves
  <2> QED BY <1>1, PicksExist, Zenon
<1>3. Picked(fs, n, t) = p[Len(fs)]
  BY Zenon DEF Picked
<1> QED BY <1>1, <1>2, <1>3, Zenon

One(f, n, t) == IF f.num = n /\ f.typ = t THEN <<f.val>> ELSE <<>>

Before(f, fs) == <<f>> \o fs

(* Picking from a field and more is picking from both.                      *)
LEMMA PickedFirst ==
  ASSUME NEW f \in AField, NEW fs \in Seq(AField), NEW n, NEW t
  PROVE  /\ Picked(fs, n, t) \in Seq(Raw) /\ One(f, n, t) \in Seq(Raw)
         /\ Picked(Before(f, fs), n, t) = One(f, n, t) \o Picked(fs, n, t)
<1>1. PICK gs \in Seq(AField) : gs = <<f>> \o fs
  <2>1. <<f>> \o fs \in Seq(AField)
    OBVIOUS
  <2> QED BY <2>1, Zenon
<1>0. /\ Len(fs) \in Nat /\ Len(gs) = Len(fs) + 1
      /\ gs[1] = f /\ \A i \in 1 .. Len(fs) : gs[i + 1] = fs[i]
  BY <1>1
<1>2. <<>> \in Seq(Raw)
  OBVIOUS
<1>3. PICK o \in Seq(Raw) : o = One(f, n, t) /\ o = Add(<<>>, f, n, t)
  <2>1. Add(<<>>, f, n, t) \in Seq(Raw)
    BY <1>2, AddConcat, Zenon
  <2>2. One(f, n, t) = Add(<<>>, f, n, t)
    BY DEF One, Add
  <2> QED BY <2>1, <2>2, Zenon
<1>4. PICK g : Picks(g, fs, n, t) /\ Picked(fs, n, t) = g[Len(fs)]
  BY PickedSteps, Zenon
<1>5. PICK h : Picks(h, gs, n, t) /\ Picked(gs, n, t) = h[Len(gs)]
  BY PickedSteps, Zenon
<1>6. /\ g[0] = <<>> /\ \A i \in 1 .. Len(fs) : g[i] = Add(g[i - 1], fs[i], n, t)
      /\ \A i \in 0 .. Len(fs) : g[i] \in Seq(Raw)
  BY <1>4, PickSteps, Zenon
<1>7. /\ h[0] = <<>> /\ \A i \in 1 .. Len(gs) : h[i] = Add(h[i - 1], gs[i], n, t)
      /\ \A i \in 0 .. Len(gs) : h[i] \in Seq(Raw)
  BY <1>5, PickSteps, Zenon
<1> DEFINE S == {m \in Nat : m <= Len(fs) => h[m + 1] = o \o g[m]}
<1>8. 0 \in S
  <2>1. 1 \in 1 .. Len(gs) /\ 1 - 1 = 0 /\ 0 + 1 = 1
    BY <1>0
  <2>2. h[1] = o
    BY <1>0, <1>3, <1>7, <2>1, Zenon
  <2>3. o \o <<>> = o
    BY ConcatEmptySeq
  <2> QED BY <1>6, <2>1, <2>2, <2>3, Zenon
<1>9. ASSUME NEW m \in Nat, m \in S
      PROVE  m + 1 \in S
  <2> DEFINE k == m + 1
  <2> SUFFICES ASSUME k <= Len(fs)
               PROVE  h[k + 1] = o \o g[k]
    OBVIOUS
  <2>1. /\ k \in 1 .. Len(fs) /\ k + 1 \in 1 .. Len(gs) /\ k - 1 = m /\ (k + 1) - 1 = k
        /\ m \in 0 .. Len(fs) /\ m <= Len(fs) /\ m + 1 = k
    BY <1>0
  <2>2. h[k] = o \o g[m]
    BY <1>9, <2>1
  <2> HIDE DEF k
  <2>3. h[k + 1] = Add(h[(k + 1) - 1], gs[k + 1], n, t) /\ g[k] = Add(g[k - 1], fs[k], n, t)
    BY <1>6, <1>7, <2>1, Zenon
  <2>4. gs[k + 1] = fs[k] /\ fs[k] \in AField /\ g[m] \in Seq(Raw)
    BY <1>0, <1>6, <2>1, ElementOfSeq
  <2>5. h[k + 1] = Add(h[k], fs[k], n, t) /\ g[k] = Add(g[m], fs[k], n, t)
    BY <2>1, <2>3, <2>4, Zenon
  <2>6. Add(g[m], fs[k], n, t) \in Seq(Raw) /\ Add(o \o g[m], fs[k], n, t) = o \o Add(g[m], fs[k], n, t)
    <3>1. PICK s \in Seq(Raw) : s = g[m]
      BY <2>4
    <3>2. PICK x \in AField : x = fs[k]
      BY <2>4
    <3>3. Add(s, x, n, t) \in Seq(Raw) /\ Add(o \o s, x, n, t) = o \o Add(s, x, n, t)
      BY AddConcat
    <3> QED BY <3>1, <3>2, <3>3, Zenon
  <2> QED BY <2>2, <2>5, <2>6, Zenon
<1>10. \A m \in Nat : m \in S
  <2> HIDE DEF S
  <2> QED BY <1>8, <1>9, Upwards
<1>11. h[Len(fs) + 1] = o \o g[Len(fs)]
  <2>1. Len(fs) \in S /\ Len(fs) <= Len(fs)
    BY <1>0, <1>10
  <2> QED BY <2>1, Zenon
<1>12. g[Len(fs)] \in Seq(Raw)
  BY <1>0, <1>6
<1> QED BY <1>0, <1>1, <1>3, <1>4, <1>5, <1>11, <1>12, Zenon DEF Before

LEMMA PickedTyped ==
  ASSUME NEW fs \in Seq(AField), NEW n, NEW t
  PROVE  Picked(fs, n, t) \in Seq(Raw)
<1>1. PICK p : Picks(p, fs, n, t) /\ Picked(fs, n, t) = p[Len(fs)]
  BY PickedSteps, Zenon
<1>2. /\ p[0] = <<>> /\ \A i \in 1 .. Len(fs) : p[i] = Add(p[i - 1], fs[i], n, t)
      /\ \A i \in 0 .. Len(fs) : p[i] \in Seq(Raw)
  BY <1>1, PickSteps, Zenon
<1>3. Len(fs) \in 0 .. Len(fs)
  OBVIOUS
<1> QED BY <1>1, <1>2, <1>3, Zenon

LEMMA ValuesTyped ==
  ASSUME NEW b \in Raw, NEW n, NEW t
  PROVE  Values(b, n, t) \in Seq(Raw)
<1>1. Fields(b) \in Seq(AField)
  BY FieldsTyped
<1> QED BY <1>1, PickedTyped, Zenon DEF Values

----------------------------------------------------------------------------
(* What an encoding carries of a field: the values read at its front.       *)

Carries(enc, n, t, vs) ==
  /\ enc \in Raw /\ vs \in Seq(Raw)
  /\ \A b \in Raw : Values(enc \o b, n, t) = vs \o Values(b, n, t)

LEMMA CarriesNone ==
  ASSUME NEW n, NEW t
  PROVE  Carries(<<>>, n, t, <<>>)
<1>1. <<>> \in Raw /\ <<>> \in Seq(Raw)
  BY DEF Raw
<1>2. ASSUME NEW b \in Raw
      PROVE  Values(<<>> \o b, n, t) = <<>> \o Values(b, n, t)
  <2>1. <<>> \o b = b
    BY DEF Raw
  <2>2. Values(b, n, t) \in Seq(Raw)
    BY ValuesTyped, Zenon
  <2>3. <<>> \o Values(b, n, t) = Values(b, n, t)
    BY <2>2, ConcatEmptySeq
  <2> QED BY <2>1, <2>3, Zenon
<1> QED BY <1>1, <1>2 DEF Carries

LEMMA CarriesConcat ==
  ASSUME NEW n, NEW t, NEW e1, NEW v1, Carries(e1, n, t, v1), NEW e2, NEW v2, Carries(e2, n, t, v2)
  PROVE  Carries(e1 \o e2, n, t, v1 \o v2)
<1>1. e1 \in Raw /\ e2 \in Raw /\ v1 \in Seq(Raw) /\ v2 \in Seq(Raw)
  BY DEF Carries
<1>2. e1 \o e2 \in Raw /\ v1 \o v2 \in Seq(Raw)
  BY <1>1 DEF Raw
<1>3. ASSUME NEW b \in Raw
      PROVE  Values((e1 \o e2) \o b, n, t) = (v1 \o v2) \o Values(b, n, t)
  <2>1. PICK c \in Raw : c = e2 \o b
    <3>1. e2 \o b \in Raw
      BY <1>1 DEF Raw
    <3> QED BY <3>1, Zenon
  <2>2. PICK v \in Seq(Raw) : v = Values(b, n, t)
    BY ValuesTyped
  <2>3. (e1 \o e2) \o b = e1 \o c
    <3>1. PICK S : S = Nat
      OBVIOUS
    <3>2. e1 \in Seq(S) /\ e2 \in Seq(S) /\ b \in Seq(S)
      BY <1>1, <3>1, Zenon DEF Raw
    <3>3. (e1 \o e2) \o b = e1 \o (e2 \o b)
      BY <3>2, ConcatAssociative
    <3> QED BY <2>1, <3>3
  <2>4. Values(e1 \o c, n, t) = v1 \o Values(c, n, t)
    BY DEF Carries
  <2>5. Values(c, n, t) = v2 \o v
    BY <2>1, <2>2 DEF Carries
  <2>6. (v1 \o v2) \o v = v1 \o (v2 \o v)
    BY <1>1, ConcatAssociative
  <2> QED BY <2>2, <2>3, <2>4, <2>5, <2>6
<1> QED BY <1>2, <1>3 DEF Carries

LEMMA CarriesValues ==
  ASSUME NEW n, NEW t, NEW e, NEW vs, Carries(e, n, t, vs)
  PROVE  Values(e, n, t) = vs
<1>1. <<>> \in Raw /\ e \in Raw /\ vs \in Seq(Raw)
  BY DEF Carries, Raw
<1>2. e \o <<>> = e /\ vs \o <<>> = vs
  BY <1>1, ConcatEmptySeq DEF Raw
<1>3. Values(e \o <<>>, n, t) = vs \o Values(<<>>, n, t)
  BY <1>1 DEF Carries
<1>4. Values(<<>> \o <<>>, n, t) = <<>> \o Values(<<>>, n, t)
  BY <1>1, CarriesNone DEF Carries
<1>5. Values(<<>>, n, t) = <<>>
  <2>1. ~NextField(<<>>).ok
    BY DEF NextField, AtEnd
  <2>2. Fields(<<>>) = <<>>
    BY <1>1, <2>1, FieldsStep DEF Leftover
  <2>3. <<>> \in Seq(AField) /\ Len(<<>>) = 0
    OBVIOUS
  <2>4. PICK p : Picks(p, <<>>, n, t) /\ Picked(<<>>, n, t) = p[Len(<<>>)]
    BY <2>3, PickedSteps, Zenon
  <2>5. PICK fs \in Seq(AField) : fs = <<>> /\ Picks(p, fs, n, t)
    BY <2>3, <2>4, Zenon
  <2>6. /\ p[0] = <<>> /\ \A i \in 1 .. Len(fs) : p[i] = Add(p[i - 1], fs[i], n, t)
        /\ \A i \in 0 .. Len(fs) : p[i] \in Seq(Raw)
    <3>1. Picks(p, fs, n, t)
      BY <2>5
    <3> QED BY <3>1, PickSteps, Zenon
  <2> QED BY <2>2, <2>3, <2>4, <2>6, Zenon DEF Values
<1> QED BY <1>2, <1>3, <1>5

LEMMA CarriesField ==
  ASSUME NEW enc \in Raw, NEW f \in AField, NEW n, NEW t,
         \A b \in Raw : NextField(enc \o b) = [ok |-> TRUE, field |-> f, rest |-> b]
  PROVE  Carries(enc, n, t, One(f, n, t))
<1>1. ASSUME NEW b \in Raw
      PROVE  Values(enc \o b, n, t) = One(f, n, t) \o Values(b, n, t)
  <2>1. PICK c \in Raw : c = enc \o b
    <3>1. enc \o b \in Raw
      BY DEF Raw
    <3> QED BY <3>1, Zenon
  <2>2. NextField(c).ok /\ NextField(c).field = f /\ NextField(c).rest = b
    BY <2>1
  <2>3. PICK fs \in Seq(AField) : fs = Fields(b)
    BY FieldsTyped
  <2>4. Fields(c) = <<f>> \o fs
    BY <2>2, <2>3, FieldsStep, Zenon
  <2>5. /\ Picked(fs, n, t) \in Seq(Raw) /\ One(f, n, t) \in Seq(Raw)
        /\ Picked(Before(f, fs), n, t) = One(f, n, t) \o Picked(fs, n, t)
    BY PickedFirst
  <2> QED BY <2>1, <2>3, <2>4, <2>5, Zenon DEF Values, Before
<1>2. One(f, n, t) \in Seq(Raw)
  <2>1. f.val \in Raw
    BY DEF AField
  <2> QED BY <2>1 DEF One
<1> QED BY <1>1, <1>2 DEF Carries

LEMMA CarriesBytes ==
  ASSUME NEW num \in Nat \ {0}, NEW raw \in Raw, NEW n, NEW t
  PROVE  Carries(BytesField(num, raw), n, t,
                 IF num = n /\ t = BytesType THEN <<raw>> ELSE <<>>)
<1>1. PICK f \in AField : f = Field(num, BytesType, raw)
  <2>1. Field(num, BytesType, raw) \in AField
    BY DEF Field, AField, BytesType
  <2> QED BY <2>1, Zenon
<1>2. PICK enc \in Raw : enc = BytesField(num, raw)
  <2>1. BytesField(num, raw) \in Raw
    <3>1. PICK tag \in Nat : tag = Tag(num, BytesType)
      BY DEF Tag, BytesType
    <3>2. Len(raw) \in Nat /\ raw \in Seq(Nat)
      BY DEF Raw
    <3>3. <<tag, Len(raw)>> \o raw \in Seq(Nat)
      BY <3>2
    <3> QED BY <3>1, <3>3, Zenon DEF BytesField, Raw
  <2> QED BY <2>1, Zenon
<1>3. \A b \in Raw : NextField(enc \o b) = [ok |-> TRUE, field |-> f, rest |-> b]
  <2>1. \A b \in Raw : NextField(BytesField(num, raw) \o b)
                         = [ok |-> TRUE, field |-> Field(num, BytesType, raw), rest |-> b]
    BY NextBytes
  <2> QED BY <1>1, <1>2, <2>1, Zenon
<1>4. Carries(enc, n, t, One(f, n, t))
  BY <1>3, CarriesField
<1>5. One(f, n, t) = IF num = n /\ t = BytesType THEN <<raw>> ELSE <<>>
  <2>1. f.num = num /\ f.typ = BytesType /\ f.val = raw
    BY <1>1 DEF Field
  <2> QED BY <2>1, Zenon DEF One
<1> QED BY <1>2, <1>4, <1>5, Zenon

LEMMA CarriesPlain ==
  ASSUME NEW num \in Nat \ {0}, NEW typ \in {VarintType, Fixed64Type, Fixed32Type},
         NEW v \in Nat, NEW n, NEW t
  PROVE  Carries(<<Tag(num, typ), v>>, n, t, IF num = n /\ t = typ THEN <<<<v>>>> ELSE <<>>)
<1>0. typ \in Nat
  BY DEF VarintType, Fixed64Type, Fixed32Type
<1>1. PICK f \in AField : f = Field(num, typ, <<v>>)
  <2>1. <<v>> \in Raw
    BY DEF Raw
  <2>2. Field(num, typ, <<v>>) \in AField
    BY <1>0, <2>1 DEF Field, AField
  <2> QED BY <2>2, Zenon
<1>2. PICK enc \in Raw : enc = <<Tag(num, typ), v>>
  <2>1. PICK tag \in Nat : tag = Tag(num, typ)
    BY <1>0 DEF Tag
  <2>2. <<tag, v>> \in Raw
    BY DEF Raw
  <2> QED BY <2>1, <2>2, Zenon
<1>3. \A b \in Raw : NextField(enc \o b) = [ok |-> TRUE, field |-> f, rest |-> b]
  <2>1. \A b \in Raw : NextField(<<Tag(num, typ), v>> \o b)
                         = [ok |-> TRUE, field |-> Field(num, typ, <<v>>), rest |-> b]
    BY NextPlain
  <2> QED BY <1>1, <1>2, <2>1, Zenon
<1>4. Carries(enc, n, t, One(f, n, t))
  BY <1>3, CarriesField
<1>5. One(f, n, t) = IF num = n /\ t = typ THEN <<<<v>>>> ELSE <<>>
  <2>1. f.num = num /\ f.typ = typ /\ f.val = <<v>>
    BY <1>1 DEF Field
  <2> QED BY <2>1, Zenon DEF One
<1> QED BY <1>2, <1>4, <1>5, Zenon

(* The fields that the peer does not know carry nothing of those it does.   *)
LEMMA CarriesUnknown ==
  ASSUME NEW u \in Unknown, NEW n \in Nat, n # 15, NEW t
  PROVE  Carries(u, n, t, <<>>)
<1>0. 15 \in Nat \ {0} /\ 1 \in Nat /\ <<1>> \in Raw
  BY DEF Raw
<1>1. Carries(<<>>, n, t, <<>>)
  BY CarriesNone
<1>2. Carries(BytesField(15, <<1>>), n, t, IF 15 = n /\ t = BytesType THEN <<<<1>>>> ELSE <<>>)
  BY <1>0, CarriesBytes
<1>3. \A typ \in {VarintType, Fixed64Type, Fixed32Type} :
        Carries(<<Tag(15, typ), 1>>, n, t, IF 15 = n /\ t = typ THEN <<<<1>>>> ELSE <<>>)
  BY <1>0, CarriesPlain
<1> QED BY <1>1, <1>2, <1>3 DEF Unknown, Varint

(* A list, of which every encoding carries one value, or none does.         *)
LEMMA CarriesList ==
  ASSUME NEW e \in Seq(Raw), NEW vs \in Seq(Raw), Len(e) = Len(vs), NEW n, NEW t, NEW on \in BOOLEAN,
         \A i \in 1 .. Len(e) : Carries(e[i], n, t, IF on THEN <<vs[i]>> ELSE <<>>)
  PROVE  Carries(FlattenSeq(e), n, t, IF on THEN vs ELSE <<>>)
<1> DEFINE Upto(m) == IF on THEN SubSeq(vs, 1, m) ELSE <<>>
<1>0. Len(e) \in Nat
  OBVIOUS
<1>1. CASE Len(e) = 0
  <2>1. e = <<>> /\ vs = <<>>
    <3>1. Len(vs) = 0
      BY <1>1
    <3> QED BY <1>1, <3>1, EmptySeq
  <2>2. FlattenSeq(e) = <<>>
    BY <1>1, <2>1 DEF FlattenSeq
  <2>3. Carries(<<>>, n, t, <<>>)
    BY CarriesNone
  <2> QED BY <2>1, <2>2, <2>3, Zenon
<1>2. CASE Len(e) # 0
  <2>1. PICK f : Flattens(f, e) /\ FlattenSeq(e) = f[Len(e)]
    BY <1>0, <1>2, FlattensExist DEF FlattenSeq, Flattens
  <2>2. f[1] = e[1] /\ \A i \in 2 .. Len(e) : f[i] = f[i - 1] \o e[i]
    <3>1. \A i \in 1 .. Len(e) : f[i] = IF i = 1 THEN e[i] ELSE f[i - 1] \o e[i]
      BY <2>1, Zenon DEF Flattens
    <3>2. 1 \in 1 .. Len(e) /\ \A i \in 2 .. Len(e) : i \in 1 .. Len(e) /\ i # 1
      BY <1>0, <1>2
    <3> QED BY <3>1, <3>2, Zenon
  <2> DEFINE S == {m \in Nat : m + 1 <= Len(e) => Carries(f[m + 1], n, t, Upto(m + 1))}
  <2>3. 0 \in S
    <3>1. 0 + 1 = 1 /\ 1 \in 1 .. Len(e)
      BY <1>0, <1>2
    <3>2. SubSeq(vs, 1, 1) = <<vs[1]>>
      <4>1. vs[1] \in Raw /\ 1 \in 1 .. Len(vs) /\ 1 \in 1 .. 1
        BY <3>1, ElementOfSeq
      <4>2. SubSeq(vs, 1, 1) = <<vs[1]>> \o SubSeq(vs, 1 + 1, 1)
        BY <4>1, SubSeqRecursiveFirst
      <4>3. SubSeq(vs, 1 + 1, 1) = <<>>
        BY SubSeqEmpty
      <4>4. <<vs[1]>> \o <<>> = <<vs[1]>>
        BY <4>1
      <4> QED BY <4>2, <4>3, <4>4
    <3>3. Upto(1) = IF on THEN <<vs[1]>> ELSE <<>>
      BY <3>2, Zenon
    <3>4. Carries(e[1], n, t, IF on THEN <<vs[1]>> ELSE <<>>)
      BY <3>1, Zenon
    <3> HIDE DEF Upto
    <3> QED BY <2>2, <3>1, <3>3, <3>4, Zenon
  <2>4. ASSUME NEW m \in Nat, m \in S
        PROVE  m + 1 \in S
    <3> DEFINE k == m + 2
    <3> SUFFICES ASSUME k <= Len(e)
                 PROVE  Carries(f[k], n, t, Upto(k))
      <4>1. (m + 1) + 1 = k /\ m + 1 \in Nat
        OBVIOUS
      <4> HIDE DEF Upto, k
      <4> QED BY <4>1, Zenon
    <3>1. k \in 2 .. Len(e) /\ k \in 1 .. Len(e) /\ k - 1 = m + 1 /\ m + 1 <= Len(e)
      BY <1>0
    <3> HIDE DEF Upto, k
    <3>2. Carries(f[k - 1], n, t, Upto(k - 1))
      BY <2>4, <3>1, Zenon
    <3>3. f[k] = f[k - 1] \o e[k] /\ Carries(e[k], n, t, IF on THEN <<vs[k]>> ELSE <<>>)
      BY <2>2, <3>1, Zenon
    <3>4. Upto(k) = Upto(k - 1) \o IF on THEN <<vs[k]>> ELSE <<>>
      <4>1. SubSeq(vs, 1, k) = SubSeq(vs, 1, k - 1) \o <<vs[k]>>
        <5>1. 1 \in 1 .. Len(vs) /\ k \in 1 .. Len(vs)
          BY <1>0, <3>1
        <5> QED BY <5>1, SubSeqRecursiveSecond
      <4>2. <<>> \o <<>> = <<>>
        OBVIOUS
      <4> QED BY <4>1, <4>2, Zenon DEF Upto
    <3> QED BY <3>2, <3>3, <3>4, CarriesConcat
  <2>5. \A m \in Nat : m \in S
    <3> HIDE DEF S
    <3> QED BY <2>3, <2>4, Upwards
  <2>6. Carries(f[Len(e)], n, t, Upto(Len(e)))
    <3> DEFINE m == Len(e) - 1
    <3>1. m \in Nat /\ m + 1 <= Len(e) /\ m + 1 = Len(e)
      BY <1>0, <1>2
    <3> HIDE DEF m, Upto
    <3>2. Carries(f[m + 1], n, t, Upto(m + 1))
      BY <2>5, <3>1, Zenon
    <3> QED BY <3>1, <3>2, Zenon
  <2>7. Upto(Len(e)) = IF on THEN vs ELSE <<>>
    <3>1. SubSeq(vs, 1, Len(vs)) = vs
      BY SubSeqFull
    <3> QED BY <3>1, Zenon
  <2> QED BY <2>1, <2>6, <2>7, Zenon
<1> QED BY <1>1, <1>2

LEMMA CarriesMessages ==
  ASSUME NEW num \in Nat \ {0}, NEW e \in Seq(Raw), NEW n, NEW t
  PROVE  Carries(Messages(num, e), n, t, IF num = n /\ t = BytesType THEN e ELSE <<>>)
<1> DEFINE bs == [i \in DOMAIN e |-> BytesField(num, e[i])]
<1>0. Len(e) \in Nat /\ DOMAIN e = 1 .. Len(e) /\ \A i \in 1 .. Len(e) : e[i] \in Raw
  OBVIOUS
<1>1. \A i \in 1 .. Len(e) :
        Carries(BytesField(num, e[i]), n, t, IF num = n /\ t = BytesType THEN <<e[i]>> ELSE <<>>)
  BY <1>0, CarriesBytes
<1>2. PICK on \in BOOLEAN : on <=> (num = n /\ t = BytesType)
  OBVIOUS
<1>3. \A i \in 1 .. Len(e) : bs[i] = BytesField(num, e[i])
  BY <1>0, Zenon
<1>4. \A i \in 1 .. Len(e) : bs[i] \in Raw
  BY <1>1, <1>3, Zenon DEF Carries
<1>5. bs \in Seq(Raw) /\ Len(bs) = Len(e)
  <2>1. bs = [i \in 1 .. Len(e) |-> bs[i]]
    BY <1>0, Zenon
  <2> HIDE DEF bs
  <2>2. bs \in [1 .. Len(e) -> Raw]
    BY <1>4, <2>1, Zenon
  <2> QED BY <1>0, <2>2
<1>6. \A i \in 1 .. Len(bs) : Carries(bs[i], n, t, IF on THEN <<e[i]>> ELSE <<>>)
  BY <1>1, <1>2, <1>3, <1>5, Zenon
<1>7. Messages(num, e) = FlattenSeq(bs)
  BY Zenon DEF Messages
<1> HIDE DEF bs
<1>8. Carries(FlattenSeq(bs), n, t, IF on THEN e ELSE <<>>)
  BY <1>5, <1>6, CarriesList
<1> QED BY <1>2, <1>7, <1>8, Zenon

LEMMA CarriesLeft ==
  ASSUME NEW n, NEW t, NEW e1, NEW vs, Carries(e1, n, t, vs), NEW e2, Carries(e2, n, t, <<>>)
  PROVE  Carries(e1 \o e2, n, t, vs)
<1>1. Carries(e1 \o e2, n, t, vs \o <<>>)
  BY CarriesConcat
<1>2. vs \o <<>> = vs
  BY ConcatEmptySeq DEF Carries
<1> QED BY <1>1, <1>2

LEMMA CarriesRight ==
  ASSUME NEW n, NEW t, NEW e1, Carries(e1, n, t, <<>>), NEW e2, NEW vs, Carries(e2, n, t, vs)
  PROVE  Carries(e1 \o e2, n, t, vs)
<1>1. Carries(e1 \o e2, n, t, <<>> \o vs)
  BY CarriesConcat
<1>2. <<>> \o vs = vs
  BY ConcatEmptySeq DEF Carries
<1> QED BY <1>1, <1>2

(* Between fields that are not known, what is carried is carried still.     *)
LEMMA CarriesFramed ==
  ASSUME NEW before \in Unknown, NEW after \in Unknown, NEW n \in Nat, n # 15, NEW t,
         NEW e, NEW vs, Carries(e, n, t, vs)
  PROVE  Carries(before \o e \o after, n, t, vs)
<1>1. Carries(before, n, t, <<>>) /\ Carries(after, n, t, <<>>)
  BY CarriesUnknown
<1>2. Carries(before \o e, n, t, vs)
  BY <1>1, CarriesRight
<1> QED BY <1>1, <1>2, CarriesLeft

----------------------------------------------------------------------------
(* Strings, numbers and lists of them, there and back.                      *)

LEMMA CarriesString ==
  ASSUME NEW num \in Nat \ {0}, NEW s \in Nat, NEW n, NEW t
  PROVE  Carries(String(num, s), n, t, IF num = n /\ t = BytesType THEN <<Content(s)>> ELSE <<>>)
<1>1. Content(s) \in Raw
  BY DEF Content, Raw
<1> QED BY <1>1, CarriesBytes, Zenon DEF String

\* The values that tell a number: it may be left out when it is zero.
Tells(vs, s) == vs = <<Content(s)>> \/ vs = <<<<s>>>> \/ (vs = <<>> /\ s = 0)

LEMMA CarriesOptional ==
  ASSUME NEW num \in Nat \ {0}, NEW s \in Nat, NEW n, NEW t
  PROVE  \E vs : /\ Carries(IF s = 0 THEN <<>> ELSE String(num, s), n, t, vs)
                 /\ IF num = n /\ t = BytesType THEN Tells(vs, s) ELSE vs = <<>>
<1>1. CASE s = 0
  <2>1. Carries(<<>>, n, t, <<>>)
    BY CarriesNone
  <2> QED BY <1>1, <2>1, Zenon DEF Tells
<1>2. CASE s # 0
  <2>1. Carries(String(num, s), n, t, IF num = n /\ t = BytesType THEN <<Content(s)>> ELSE <<>>)
    BY CarriesString
  <2> QED BY <1>2, <2>1, Zenon DEF Tells
<1> QED BY <1>1, <1>2

LEMMA LatestTells ==
  ASSUME NEW s \in Nat, NEW raw, NEW n, NEW t, NEW vs, Carries(raw, n, t, vs), Tells(vs, s)
  PROVE  Latest(raw, n, t) = s
<1>1. Values(raw, n, t) = vs
  BY CarriesValues
<1>2. CASE vs = <<Content(s)>>
  <2>1. Last(vs) = Content(s) /\ vs # <<>>
    BY <1>2 DEF Last
  <2>2. Latest(raw, n, t) = IF Content(s) = <<>> THEN 0 ELSE Content(s)[1]
    BY <1>1, <2>1, Zenon DEF Latest
  <2> QED BY <2>2 DEF Content
<1>3. CASE vs = <<<<s>>>>
  <2>1. Last(vs) = <<s>> /\ vs # <<>> /\ <<s>> # <<>> /\ <<s>>[1] = s
    BY <1>3 DEF Last
  <2> QED BY <1>1, <2>1, Zenon DEF Latest
<1>4. CASE vs = <<>> /\ s = 0
  BY <1>1, <1>4, Zenon DEF Latest
<1> QED BY <1>2, <1>3, <1>4 DEF Tells

Contents(ss) == [i \in DOMAIN ss |-> Content(ss[i])]

LEMMA ContentsBack ==
  ASSUME NEW ss \in Seq(Nat)
  PROVE  /\ Contents(ss) \in Seq(Raw) /\ Len(Contents(ss)) = Len(ss) /\ ToStrings(Contents(ss)) = ss
<1>1. DOMAIN ss = 1 .. Len(ss) /\ Len(ss) \in Nat /\ ss = [i \in DOMAIN ss |-> ss[i]]
  OBVIOUS
<1>2. \A i \in DOMAIN ss : ss[i] \in Nat
  BY <1>1, ElementOfSeq
<1>3. \A i \in DOMAIN ss : /\ Content(ss[i]) \in Raw
                           /\ (IF Content(ss[i]) = <<>> THEN 0 ELSE Content(ss[i])[1]) = ss[i]
  BY <1>2 DEF Content, Raw
<1>4. Contents(ss) \in [1 .. Len(ss) -> Raw]
  BY <1>1, <1>3, Zenon DEF Contents
<1>5. Contents(ss) \in Seq(Raw) /\ Len(Contents(ss)) = Len(ss)
  BY <1>1, <1>4
<1>6. DOMAIN Contents(ss) = DOMAIN ss /\ \A i \in DOMAIN ss : Contents(ss)[i] = Content(ss[i])
  BY Zenon DEF Contents
<1>7. ToStrings(Contents(ss)) = [i \in DOMAIN ss |-> ss[i]]
  BY <1>3, <1>6, Zenon DEF ToStrings
<1> QED BY <1>1, <1>5, <1>7, Zenon

LEMMA CarriesStrings ==
  ASSUME NEW num \in Nat \ {0}, NEW ss \in Seq(Nat), NEW n, NEW t
  PROVE  Carries(RepeatedString(num, ss), n, t,
                 IF num = n /\ t = BytesType THEN Contents(ss) ELSE <<>>)
<1>1. PICK e \in Seq(Raw) : e = Contents(ss)
  BY ContentsBack
<1>2. DOMAIN e = DOMAIN ss /\ \A i \in DOMAIN ss : e[i] = Content(ss[i])
  BY <1>1, Zenon DEF Contents
<1>3. RepeatedString(num, ss) = Messages(num, e)
  BY <1>2, Zenon DEF RepeatedString, Messages, String
<1>4. Carries(Messages(num, e), n, t, IF num = n /\ t = BytesType THEN e ELSE <<>>)
  BY CarriesMessages
<1> QED BY <1>1, <1>3, <1>4, Zenon

----------------------------------------------------------------------------
(* Maps: in whatever order their entries are encoded, each comes back.      *)

LEMMA KeysInOrder ==
  ASSUME NEW D, IsFiniteSet(D)
  PROVE  /\ Cardinality(D) \in Nat /\ SetToSeq(D) \in [1 .. Cardinality(D) -> D]
         /\ \A i, j \in 1 .. Cardinality(D) : SetToSeq(D)[i] = SetToSeq(D)[j] => i = j
         /\ \A d \in D : \E i \in 1 .. Cardinality(D) : SetToSeq(D)[i] = d
<1> DEFINE I == 1 .. Cardinality(D)
           k == SetToSeq(D)
<1>1. Cardinality(D) \in Nat /\ ExistsBijection(I, D)
  BY FS_CardinalityType
<1>2. IsFiniteSet(I) /\ Cardinality(I) = Cardinality(D)
  <2>1. /\ 1 \in Int /\ Cardinality(D) \in Int
        /\ (IF 1 > Cardinality(D) THEN 0 ELSE Cardinality(D) - 1 + 1) = Cardinality(D)
    BY <1>1
  <2> QED BY <2>1, FS_Interval
<1>3. k \in [I -> D] /\ IsInjective(k)
  <2>1. \E f \in [I -> D] : IsInjective(f)
    BY <1>1, Zenon DEF ExistsBijection, Bijection, Injection
  <2> HIDE DEF I
  <2> QED BY <2>1, Zenon DEF SetToSeq, I
<1> HIDE DEF I, k
<1>4. k \in Injection(I, D)
  BY <1>3 DEF Injection
<1>5. k \in Surjection(I, D)
  BY <1>2, <1>4, FS_Injection
<1>6. \A d \in D : \E i \in I : k[i] = d
  BY <1>5, Zenon DEF Surjection
<1>7. \A i, j \in I : k[i] = k[j] => i = j
  BY <1>3, Zenon DEF IsInjective
<1> QED BY <1>1, <1>3, <1>6, <1>7, Zenon DEF I, k

IsMap(m) == IsFiniteSet(DOMAIN m) /\ DOMAIN m \subseteq Nat /\ m \in [DOMAIN m -> Nat]

Entries(m) ==
  [i \in DOMAIN SetToSeq(DOMAIN m) |->
     String(1, SetToSeq(DOMAIN m)[i]) \o String(2, m[SetToSeq(DOMAIN m)[i]])]

LEMMA EntriesBack ==
  ASSUME NEW m, IsMap(m)
  PROVE  /\ Entries(m) \in Seq(Raw) /\ ToMap(Entries(m)) = m /\ AllWhole(Entries(m))
         /\ \A num : MapEntries(num, m) = Messages(num, Entries(m))
<1> DEFINE D == DOMAIN m
           k == SetToSeq(D)
           I == 1 .. Cardinality(D)
           e == Entries(m)
<1>1. /\ Cardinality(D) \in Nat /\ k \in [I -> D]
      /\ \A i, j \in I : k[i] = k[j] => i = j
      /\ \A d \in D : \E i \in I : k[i] = d
  BY KeysInOrder DEF IsMap
<1>2. D \subseteq Nat /\ m = [d \in D |-> m[d]] /\ \A d \in D : m[d] \in Nat
  BY DEF IsMap
<1>3. DOMAIN e = I /\ \A i \in I : e[i] = String(1, k[i]) \o String(2, m[k[i]])
  BY <1>1, Zenon DEF Entries
<1>4. \A num : MapEntries(num, m) = Messages(num, e)
  BY Zenon DEF MapEntries, Entries
<1> HIDE DEF D, k, I, e
<1>5. ASSUME NEW i \in I
      PROVE  /\ e[i] \in Raw /\ Whole(e[i])
             /\ Latest(e[i], 1, BytesType) = k[i] /\ Latest(e[i], 2, BytesType) = m[k[i]]
  <2>1. k[i] \in D
    BY <1>1
  <2>2. PICK a \in Nat : a = k[i]
    BY <1>2, <2>1
  <2>3. PICK b \in Nat : b = m[k[i]]
    BY <1>2, <2>1
  <2>4. /\ Carries(String(1, a), 1, BytesType, <<Content(a)>>)
        /\ Carries(String(2, b), 1, BytesType, <<>>)
        /\ Carries(String(1, a), 2, BytesType, <<>>)
        /\ Carries(String(2, b), 2, BytesType, <<Content(b)>>)
    <3>1. \A s \in Nat, num \in Nat \ {0} : \A n :
            Carries(String(num, s), n, BytesType, IF num = n THEN <<Content(s)>> ELSE <<>>)
      BY CarriesString
    <3>2. 1 \in Nat \ {0} /\ 2 \in Nat \ {0} /\ 1 # 2
      OBVIOUS
    <3> QED BY <3>1, <3>2
  <2>5. Carries(e[i], 1, BytesType, <<Content(a)>>) /\ Carries(e[i], 2, BytesType, <<Content(b)>>)
    <3>1. Carries(String(1, a) \o String(2, b), 1, BytesType, <<Content(a)>>)
      BY <2>4, CarriesLeft
    <3>2. Carries(String(1, a) \o String(2, b), 2, BytesType, <<Content(b)>>)
      BY <2>4, CarriesRight
    <3> QED BY <1>3, <2>2, <2>3, <3>1, <3>2
  <2>6. Tells(<<Content(a)>>, a) /\ Tells(<<Content(b)>>, b)
    BY Zenon DEF Tells
  <2>7. PICK x : x = e[i]
    OBVIOUS
  <2>8. Carries(x, 1, BytesType, <<Content(a)>>) /\ Carries(x, 2, BytesType, <<Content(b)>>)
    BY <2>5, <2>7
  <2>9. x \in Raw
    BY <2>8 DEF Carries
  <2>10. Latest(x, 1, BytesType) = a
    BY <2>6, <2>8, LatestTells
  <2>11. Latest(x, 2, BytesType) = b
    BY <2>6, <2>8, LatestTells
  <2>12. Whole(x)
    <3>1. \A s \in Nat, num \in Nat \ {0} : \A n, t :
            Carries(String(num, s), n, t, IF num = n /\ t = BytesType THEN <<Content(s)>> ELSE <<>>)
      BY CarriesString
    <3>2. 1 \in Nat \ {0} /\ 2 \in Nat \ {0} /\ 1 # 0 /\ 2 # 0
      OBVIOUS
    <3>3. Carries(String(1, a), 0, VarintType, <<>>) /\ Carries(String(2, b), 0, VarintType, <<>>)
      BY <3>1, <3>2, Zenon
    <3>4. Carries(String(1, a) \o String(2, b), 0, VarintType, <<>>)
      BY <3>3, CarriesLeft
    <3>5. x = String(1, a) \o String(2, b)
      BY <1>3, <2>2, <2>3, <2>7, Zenon
    <3>6. Values(String(1, a) \o String(2, b), 0, VarintType) = <<>>
      BY <3>4, CarriesValues
    <3> QED BY <3>5, <3>6, Zenon DEF Whole
  <2> QED BY <2>2, <2>3, <2>7, <2>9, <2>10, <2>11, <2>12, Zenon
<1>6. e \in Seq(Raw)
  <2>1. e = [i \in I |-> e[i]]
    <3>1. \E J : e = [i \in J |-> e[i]]
      BY Zenon DEF e, Entries
    <3> QED BY <1>3, <3>1, Zenon
  <2>2. e \in [I -> Raw]
    BY <1>5, <2>1, Zenon
  <2> QED BY <1>1, <2>2 DEF I
<1>7. ToMap(e) = m
  <2> DEFINE key(i)  == Latest(e[i], 1, BytesType)
             Is(i, d) == key(i) = d /\ \A j \in DOMAIN e : key(j) = d => j <= i
             at(d)   == CHOOSE i \in DOMAIN e : Is(i, d)
  <2>1. {key(i) : i \in DOMAIN e} = D
    <3>1. DOMAIN e = I /\ \A i \in I : key(i) = k[i] /\ k[i] \in D
      BY <1>1, <1>3, <1>5
    <3> HIDE DEF key
    <3> QED BY <1>1, <3>1
  <2>2. ASSUME NEW d \in D
        PROVE  Latest(e[at(d)], 2, BytesType) = m[d]
    <3>1. PICK i \in I : k[i] = d
      BY <1>1
    <3>2. i <= i
      BY <1>1 DEF I
    <3>3. Is(i, d)
      <4>1. key(i) = d
        BY <1>5, <3>1, Zenon
      <4>2. ASSUME NEW j \in DOMAIN e, key(j) = d
            PROVE  j <= i
        <5>1. j \in I /\ k[j] = d
          BY <1>3, <1>5, <4>2, Zenon
        <5>2. j = i
          BY <1>1, <3>1, <5>1, Zenon
        <5> QED BY <3>2, <5>2, Zenon
      <4> QED BY <4>1, <4>2, Zenon
    <3> HIDE DEF Is
    <3>4. at(d) \in DOMAIN e /\ Is(at(d), d)
      BY <1>3, <3>1, <3>3, Zenon
    <3> USE DEF Is
    <3> HIDE DEF at
    <3>5. at(d) \in I /\ k[at(d)] = d
      BY <1>3, <1>5, <3>4, Zenon
    <3> QED BY <1>5, <3>5, Zenon
  <2>3. ToMap(e) = [d \in {key(i) : i \in DOMAIN e} |-> Latest(e[at(d)], 2, BytesType)]
    BY Zenon DEF ToMap
  <2> HIDE DEF key, at
  <2> QED BY <1>2, <2>1, <2>2, <2>3, Zenon
<1>8. AllWhole(e)
  BY <1>3, <1>5, Zenon DEF AllWhole
<1> QED BY <1>4, <1>6, <1>7, <1>8, Zenon DEF e

----------------------------------------------------------------------------
(* The parts of a message: each bears the values of one field, and of no    *)
(* other.                                                                   *)

Bears(e, num, typ, vs) ==
  /\ num \in Nat /\ Carries(e, num, typ, vs)
  /\ \A n \in Nat : \A t : n # num => Carries(e, n, t, <<>>)

LEMMA BearsPlain ==
  ASSUME NEW num \in Nat \ {0}
  PROVE  /\ \A raw \in Raw : Bears(BytesField(num, raw), num, BytesType, <<raw>>)
         /\ \A s \in Nat : Bears(String(num, s), num, BytesType, <<Content(s)>>)
         /\ \A v \in Nat : Bears(Varint(num, v), num, VarintType, <<<<v>>>>)
<1>1. ASSUME NEW raw \in Raw
      PROVE  Bears(BytesField(num, raw), num, BytesType, <<raw>>)
  <2>1. \A n, t : Carries(BytesField(num, raw), n, t,
                          IF num = n /\ t = BytesType THEN <<raw>> ELSE <<>>)
    BY CarriesBytes
  <2> QED BY <2>1, Zenon DEF Bears
<1>2. ASSUME NEW s \in Nat
      PROVE  Bears(String(num, s), num, BytesType, <<Content(s)>>)
  <2>1. Content(s) \in Raw
    BY DEF Content, Raw
  <2> QED BY <1>1, <2>1, Zenon DEF String
<1>3. ASSUME NEW v \in Nat
      PROVE  Bears(Varint(num, v), num, VarintType, <<<<v>>>>)
  <2>1. \A n, t : Carries(<<Tag(num, VarintType), v>>, n, t,
                          IF num = n /\ t = VarintType THEN <<<<v>>>> ELSE <<>>)
    BY CarriesPlain
  <2> QED BY <2>1, Zenon DEF Bears, Varint
<1> QED BY <1>1, <1>2, <1>3, Zenon

LEMMA BearsOptional ==
  ASSUME NEW num \in Nat \ {0}, NEW s \in Nat
  PROVE  \E vs : Bears(IF s = 0 THEN <<>> ELSE String(num, s), num, BytesType, vs) /\ Tells(vs, s)
<1>1. CASE s = 0
  <2>1. \A n, t : Carries(<<>>, n, t, <<>>)
    BY CarriesNone
  <2> QED BY <1>1, <2>1, Zenon DEF Tells, Bears
<1>2. CASE s # 0
  <2>1. Bears(String(num, s), num, BytesType, <<Content(s)>>)
    BY BearsPlain
  <2> QED BY <1>2, <2>1, Zenon DEF Tells
<1> QED BY <1>1, <1>2

LEMMA BearsOptionalVarint ==
  ASSUME NEW num \in Nat \ {0}, NEW v \in Nat
  PROVE  \E vs : Bears(OptionalVarint(num, v), num, VarintType, vs) /\ Tells(vs, v)
<1>1. CASE v = 0
  <2>1. \A n, t : Carries(<<>>, n, t, <<>>)
    BY CarriesNone
  <2> QED BY <1>1, <2>1, Zenon DEF Tells, Bears, OptionalVarint
<1>2. CASE v # 0
  <2>1. Bears(Varint(num, v), num, VarintType, <<<<v>>>>)
    BY BearsPlain
  <2> QED BY <1>2, <2>1, Zenon DEF Tells, OptionalVarint
<1> QED BY <1>1, <1>2

LEMMA BearsList ==
  ASSUME NEW num \in Nat \ {0}
  PROVE  /\ \A e \in Seq(Raw) : Bears(Messages(num, e), num, BytesType, e)
         /\ \A ss \in Seq(Nat) : Bears(RepeatedString(num, ss), num, BytesType, Contents(ss))
<1>1. ASSUME NEW e \in Seq(Raw)
      PROVE  Bears(Messages(num, e), num, BytesType, e)
  <2>1. \A n, t : Carries(Messages(num, e), n, t, IF num = n /\ t = BytesType THEN e ELSE <<>>)
    BY CarriesMessages
  <2> QED BY <2>1, Zenon DEF Bears
<1>2. ASSUME NEW ss \in Seq(Nat)
      PROVE  Bears(RepeatedString(num, ss), num, BytesType, Contents(ss))
  <2>1. \A n, t : Carries(RepeatedString(num, ss), n, t,
                          IF num = n /\ t = BytesType THEN Contents(ss) ELSE <<>>)
    BY CarriesStrings
  <2> QED BY <2>1, Zenon DEF Bears
<1> QED BY <1>1, <1>2, Zenon

LEMMA Two ==
  ASSUME NEW e1, NEW n1, NEW t1, NEW v1, Bears(e1, n1, t1, v1),
         NEW e2, NEW n2, NEW t2, NEW v2, Bears(e2, n2, t2, v2), n1 # n2
  PROVE  /\ Carries(e1 \o e2, n1, t1, v1) /\ Carries(e1 \o e2, n2, t2, v2)
         /\ \A n \in Nat : \A t : n # n1 /\ n # n2 => Carries(e1 \o e2, n, t, <<>>)
<1>1. Carries(e2, n1, t1, <<>>) /\ Carries(e1, n2, t2, <<>>)
  BY Zenon DEF Bears
<1>2. Carries(e1, n1, t1, v1) /\ Carries(e2, n2, t2, v2)
  BY Zenon DEF Bears
<1>3. Carries(e1 \o e2, n1, t1, v1)
  BY <1>1, <1>2, CarriesLeft
<1>4. Carries(e1 \o e2, n2, t2, v2)
  BY <1>1, <1>2, CarriesRight
<1>5. ASSUME NEW n \in Nat, NEW t, n # n1, n # n2
      PROVE  Carries(e1 \o e2, n, t, <<>>)
  <2>1. Carries(e1, n, t, <<>>) /\ Carries(e2, n, t, <<>>)
    BY <1>5, Zenon DEF Bears
  <2> QED BY <2>1, CarriesLeft
<1> QED BY <1>3, <1>4, <1>5

LEMMA Three ==
  ASSUME NEW e1, NEW n1, NEW t1, NEW v1, Bears(e1, n1, t1, v1),
         NEW e2, NEW n2, NEW t2, NEW v2, Bears(e2, n2, t2, v2), n1 # n2,
         NEW e3, NEW n3, NEW t3, NEW v3, Bears(e3, n3, t3, v3), n1 # n3, n2 # n3
  PROVE  /\ Carries(e1 \o e2 \o e3, n1, t1, v1)
         /\ Carries(e1 \o e2 \o e3, n2, t2, v2)
         /\ Carries(e1 \o e2 \o e3, n3, t3, v3)
         /\ \A n \in Nat : \A t : n # n1 /\ n # n2 /\ n # n3
                                 => Carries(e1 \o e2 \o e3, n, t, <<>>)
<1>1. PICK e : e = e1 \o e2
  OBVIOUS
<1>2. /\ Carries(e, n1, t1, v1) /\ Carries(e, n2, t2, v2)
      /\ \A n \in Nat : \A t : n # n1 /\ n # n2 => Carries(e, n, t, <<>>)
  BY <1>1, Two
<1>3. /\ Carries(e, n3, t3, <<>>) /\ Carries(e3, n3, t3, v3)
      /\ Carries(e3, n1, t1, <<>>) /\ Carries(e3, n2, t2, <<>>)
  BY <1>2, Zenon DEF Bears
<1>4. /\ Carries(e \o e3, n1, t1, v1) /\ Carries(e \o e3, n2, t2, v2)
      /\ Carries(e \o e3, n3, t3, v3)
  BY <1>2, <1>3, CarriesLeft, CarriesRight
<1>5. ASSUME NEW n \in Nat, NEW t, n # n1, n # n2, n # n3
      PROVE  Carries(e \o e3, n, t, <<>>)
  <2>1. Carries(e, n, t, <<>>) /\ Carries(e3, n, t, <<>>)
    BY <1>2, <1>5, Zenon DEF Bears
  <2> QED BY <2>1, CarriesLeft
<1> QED BY <1>1, <1>4, <1>5, Zenon

(* A buffer that has everything an encoding carries, and fields not known.  *)
Frames(raw, e) ==
  \A n \in 0 .. 14 : \A t, vs : Carries(e, n, t, vs) => Carries(raw, n, t, vs)

LEMMA FramesBetween ==
  ASSUME NEW e
  PROVE  /\ Frames(e, e)
         /\ \A before, after \in Unknown : Frames(before \o e \o after, e)
<1>1. Frames(e, e)
  BY Zenon DEF Frames
<1>2. ASSUME NEW before \in Unknown, NEW after \in Unknown, NEW n \in 0 .. 14, NEW t, NEW vs,
             Carries(e, n, t, vs)
      PROVE  Carries(before \o e \o after, n, t, vs)
  <2>1. n \in Nat /\ n # 15
    OBVIOUS
  <2> QED BY <1>2, <2>1, CarriesFramed
<1> QED BY <1>1, <1>2 DEF Frames

LEMMA Numbers ==
  /\ 1 \in Nat \ {0} /\ 2 \in Nat \ {0} /\ 3 \in Nat \ {0} /\ 4 \in Nat \ {0}
  /\ 1 \in 0 .. 14 /\ 2 \in 0 .. 14 /\ 3 \in 0 .. 14 /\ 4 \in 0 .. 14
  /\ 1 # 2 /\ 1 # 3 /\ 2 # 3 /\ 1 # 4 /\ 3 # 4
  /\ 0 \in Nat /\ 0 \in 0 .. 14 /\ 0 # 1 /\ 0 # 2 /\ 0 # 3 /\ 0 # 4
OBVIOUS

(* What a frame of a message has of one string, or of one list.             *)
LEMMA FramedLatest ==
  ASSUME NEW raw, NEW e, Frames(raw, e), NEW n \in 0 .. 14, NEW t, NEW vs, Carries(e, n, t, vs)
  PROVE  /\ Values(raw, n, t) = vs
         /\ \A s \in Nat : Tells(vs, s) => Latest(raw, n, t) = s
<1>1. Carries(raw, n, t, vs)
  BY DEF Frames
<1>2. Values(raw, n, t) = vs
  BY <1>1, CarriesValues
<1>3. ASSUME NEW s \in Nat, Tells(vs, s)
      PROVE  Latest(raw, n, t) = s
  BY <1>1, <1>3, LatestTells
<1> QED BY <1>2, <1>3

(* What carries nothing of number 0 is a message to its end.                *)
LEMMA FramedWhole ==
  ASSUME NEW raw, NEW e, Frames(raw, e), Carries(e, 0, VarintType, <<>>)
  PROVE  Whole(raw)
<1>1. Values(raw, 0, VarintType) = <<>>
  BY Numbers, FramedLatest
<1> QED BY <1>1 DEF Whole

LEMMA PlainTells == \A s \in Nat : Tells(<<Content(s)>>, s) /\ Tells(<<<<s>>>>, s)
BY Zenon DEF Tells

LEMMA PubsubMessageBack ==
  ASSUME NEW m \in Message
  PROVE  /\ PubsubMessage(m) \in Raw /\ DecodePubsubMessage(PubsubMessage(m)) = m
         /\ WholePubsub(PubsubMessage(m)) /\ ReadPubsubMessage(PubsubMessage(m)) = m
<1> DEFINE a == m.attributes
<1>1. /\ m = [data |-> m.data, attributes |-> a, messageId |-> m.messageId]
      /\ m.data \in Nat /\ m.messageId \in Nat /\ IsMap(a)
  <2>1. IsPubsubMessage(m)
    BY CodecAssumption
  <2> QED BY <2>1 DEF IsPubsubMessage, IsMap
<1> HIDE DEF a
<1>2. PICK d1, v1 : /\ d1 = IF m.data = 0 THEN <<>> ELSE String(1, m.data)
                    /\ Bears(d1, 1, BytesType, v1) /\ Tells(v1, m.data)
  BY <1>1, Numbers, BearsOptional
<1>3. PICK d3, v3 : /\ d3 = IF m.messageId = 0 THEN <<>> ELSE String(3, m.messageId)
                    /\ Bears(d3, 3, BytesType, v3) /\ Tells(v3, m.messageId)
  BY <1>1, Numbers, BearsOptional
<1>4. PICK d2, v2 : /\ d2 = MapEntries(2, a) /\ v2 = Entries(a)
                    /\ Bears(d2, 2, BytesType, v2) /\ ToMap(v2) = a /\ AllWhole(v2)
  <2>1. /\ Entries(a) \in Seq(Raw) /\ ToMap(Entries(a)) = a /\ AllWhole(Entries(a))
        /\ MapEntries(2, a) = Messages(2, Entries(a))
    BY <1>1, EntriesBack
  <2> QED BY <2>1, Numbers, BearsList
<1>5. PICK raw : raw = d1 \o d2 \o d3
  OBVIOUS
<1>6. raw = PubsubMessage(m)
  BY <1>2, <1>3, <1>4, <1>5, Zenon DEF PubsubMessage, a
<1>7. /\ Carries(raw, 1, BytesType, v1) /\ Carries(raw, 2, BytesType, v2)
      /\ Carries(raw, 3, BytesType, v3) /\ Carries(raw, 0, VarintType, <<>>)
  BY <1>2, <1>3, <1>4, <1>5, Numbers, Three
<1>8. /\ Latest(raw, 1, BytesType) = m.data /\ Values(raw, 2, BytesType) = v2
      /\ Latest(raw, 3, BytesType) = m.messageId
  BY <1>1, <1>2, <1>3, <1>7, LatestTells, CarriesValues
<1>9. raw \in Raw
  BY <1>7 DEF Carries
<1>10. DecodePubsubMessage(raw) = m
  BY <1>1, <1>4, <1>8, Zenon DEF DecodePubsubMessage
<1>11. WholePubsub(raw) /\ ReadPubsubMessage(raw) = m
  <2>1. Values(raw, 0, VarintType) = <<>>
    BY <1>7, CarriesValues
  <2> QED BY <1>4, <1>8, <1>10, <2>1, Zenon
        DEF WholePubsub, Whole, ReadPubsubMessage, DecodePubsubMessage
<1> QED BY <1>6, <1>9, <1>10, <1>11, Zenon

----------------------------------------------------------------------------
(* Each type of message, in any frame, is decoded to what it was.           *)

LEMMA EachEncoded ==
  ASSUME NEW S, NEW s \in Seq(S), NEW e,
         e = [i \in DOMAIN s |-> e[i]], \A i \in DOMAIN s : e[i] \in Raw
  PROVE  e \in Seq(Raw) /\ DOMAIN e = DOMAIN s
<1>1. DOMAIN s = 1 .. Len(s) /\ Len(s) \in Nat
  OBVIOUS
<1>2. e \in [DOMAIN s -> Raw]
  BY Zenon
<1> QED BY <1>1, <1>2

LEMMA EachBack ==
  ASSUME NEW S, NEW s \in Seq(S), NEW d,
         d = [i \in DOMAIN s |-> d[i]], \A i \in DOMAIN s : d[i] = s[i]
  PROVE  d = s
<1>1. s = [i \in DOMAIN s |-> s[i]]
  OBVIOUS
<1>2. [i \in DOMAIN s |-> d[i]] = [i \in DOMAIN s |-> s[i]]
  BY Zenon
<1> QED BY <1>1, <1>2, Zenon

LEMMA PublishRequestBack ==
  ASSUME NEW m \in [topic : Nat, messages : Seq(Message)], NEW raw, Frames(raw, PublishRequest(m))
  PROVE  DecodePublishRequest(raw) = m
<1>1. PICK s \in Nat, ms \in Seq(Message) :
        m = [topic |-> s, messages |-> ms] /\ m.topic = s /\ m.messages = ms
  OBVIOUS
<1>2. \A i \in DOMAIN ms : ms[i] \in Message
  OBVIOUS
<1>3. PICK e : e = [i \in DOMAIN ms |-> PubsubMessage(ms[i])]
  OBVIOUS
<1>4. \A i \in DOMAIN ms : e[i] \in Raw /\ DecodePubsubMessage(e[i]) = ms[i]
  <2>1. \A i \in DOMAIN ms : e[i] = PubsubMessage(ms[i])
    BY <1>3, Zenon
  <2>2. \A x \in Message : PubsubMessage(x) \in Raw /\ DecodePubsubMessage(PubsubMessage(x)) = x
    BY PubsubMessageBack, Zenon
  <2> QED BY <1>2, <2>1, <2>2, Zenon
<1>5. e \in Seq(Raw) /\ DOMAIN e = DOMAIN ms
  <2>1. e = [i \in DOMAIN ms |-> e[i]]
    BY <1>3, Zenon
  <2> QED BY <1>4, <2>1, EachEncoded
<1>6. PICK d1, v1 : /\ d1 = IF s = 0 THEN <<>> ELSE String(1, s)
                    /\ Bears(d1, 1, BytesType, v1) /\ Tells(v1, s)
  BY Numbers, BearsOptional
<1>7. PICK d2 : d2 = Messages(2, e) /\ Bears(d2, 2, BytesType, e)
  BY <1>5, Numbers, BearsList
<1>8. /\ PublishRequest(m) = d1 \o d2
      /\ Carries(d1 \o d2, 1, BytesType, v1) /\ Carries(d1 \o d2, 2, BytesType, e)
  <2>1. PublishRequest(m) = d1 \o d2
    BY <1>1, <1>3, <1>6, <1>7, Zenon DEF PublishRequest, Optional
  <2> QED BY <1>6, <1>7, <2>1, Numbers, Two
<1>9. Latest(raw, 1, BytesType) = s /\ Values(raw, 2, BytesType) = e
  <2>1. PICK x : x = d1 \o d2 /\ Frames(raw, x)
    BY <1>8
  <2>3. Carries(x, 1, BytesType, v1) /\ Carries(x, 2, BytesType, e)
    BY <1>8, <2>1
  <2>4. Latest(raw, 1, BytesType) = s
    BY <1>6, <2>1, <2>3, Numbers, FramedLatest
  <2>5. Values(raw, 2, BytesType) = e
    BY <2>1, <2>3, Numbers, FramedLatest
  <2> QED BY <2>4, <2>5
<1>10. [i \in DOMAIN e |-> DecodePubsubMessage(e[i])] = ms
  <2>1. PICK d : d = [i \in DOMAIN e |-> DecodePubsubMessage(e[i])]
    OBVIOUS
  <2>2. d = [i \in DOMAIN ms |-> d[i]] /\ \A i \in DOMAIN ms : d[i] = ms[i]
    BY <1>4, <1>5, <2>1, Zenon
  <2> QED BY <2>1, <2>2, EachBack
<1> QED BY <1>1, <1>9, <1>10, Zenon DEF DecodePublishRequest

LEMMA PullRequestBack ==
  ASSUME NEW m \in [subscription : Nat, maxMessages : Nat, returnImmediately : {0, 1}],
         NEW raw, Frames(raw, PullRequest(m))
  PROVE  DecodePullRequest(raw) = m
<1>1. PICK s \in Nat, x \in Nat, r \in {0, 1} :
        /\ m = [subscription |-> s, maxMessages |-> x, returnImmediately |-> r]
        /\ m.subscription = s /\ m.maxMessages = x /\ m.returnImmediately = r
  OBVIOUS
<1>2. r \in Nat
  OBVIOUS
<1>3. /\ \E vs : Bears(Optional(1, s), 1, BytesType, vs) /\ Tells(vs, s)
      /\ \E vs : Bears(OptionalVarint(2, x), 2, VarintType, vs) /\ Tells(vs, x)
      /\ \E vs : Bears(OptionalVarint(3, r), 3, VarintType, vs) /\ Tells(vs, r)
  BY <1>2, Numbers, BearsOptional, BearsOptionalVarint, Zenon DEF Optional
<1>4. PICK d1, d2, d3, v1, v2, v3 :
        /\ d1 = Optional(1, s) /\ Bears(d1, 1, BytesType, v1) /\ Tells(v1, s)
        /\ d2 = OptionalVarint(2, x) /\ Bears(d2, 2, VarintType, v2) /\ Tells(v2, x)
        /\ d3 = OptionalVarint(3, r) /\ Bears(d3, 3, VarintType, v3) /\ Tells(v3, r)
  BY <1>3, Zenon
<1>5. PICK e : e = d1 \o d2 \o d3
  OBVIOUS
<1>6. /\ Carries(e, 1, BytesType, v1) /\ Carries(e, 2, VarintType, v2)
      /\ Carries(e, 3, VarintType, v3) /\ Frames(raw, e)
  <2>1. Frames(raw, e)
    BY <1>1, <1>4, <1>5, Zenon DEF PullRequest
  <2> QED BY <1>4, <1>5, <2>1, Numbers, Three
<1>7. /\ Latest(raw, 1, BytesType) = s /\ Latest(raw, 2, VarintType) = x
      /\ Latest(raw, 3, VarintType) = r
  <2>1. Latest(raw, 1, BytesType) = s
    BY <1>4, <1>6, Numbers, FramedLatest
  <2>2. Latest(raw, 2, VarintType) = x
    BY <1>4, <1>6, Numbers, FramedLatest
  <2>3. Latest(raw, 3, VarintType) = r
    BY <1>2, <1>4, <1>6, Numbers, FramedLatest
  <2> QED BY <2>1, <2>2, <2>3
<1>8. (IF r = 0 THEN 0 ELSE 1) = r
  OBVIOUS
<1> QED BY <1>1, <1>7, <1>8, Zenon DEF DecodePullRequest

LEMMA AcknowledgeRequestBack ==
  ASSUME NEW m \in [subscription : Nat, ackIds : Seq(Nat)],
         NEW raw, Frames(raw, AcknowledgeRequest(m))
  PROVE  DecodeAcknowledgeRequest(raw) = m /\ DecodeStreamingPullRequest(raw) = m
<1>1. PICK s \in Nat, ss \in Seq(Nat) :
        m = [subscription |-> s, ackIds |-> ss] /\ m.subscription = s /\ m.ackIds = ss
  OBVIOUS
<1>2. PICK d1, v1 : /\ d1 = IF s = 0 THEN <<>> ELSE String(1, s)
                    /\ Bears(d1, 1, BytesType, v1) /\ Tells(v1, s)
  BY Numbers, BearsOptional
<1>3. PICK d2, e : /\ d2 = RepeatedString(2, ss) /\ Bears(d2, 2, BytesType, Contents(ss))
                   /\ e = d1 \o d2
  BY Numbers, BearsList
<1>4. Carries(e, 1, BytesType, v1) /\ Carries(e, 2, BytesType, Contents(ss))
  BY <1>2, <1>3, Numbers, Two
<1>5. Frames(raw, e)
  BY <1>1, <1>2, <1>3, Zenon DEF AcknowledgeRequest, Optional
<1>6. Latest(raw, 1, BytesType) = s /\ Values(raw, 2, BytesType) = Contents(ss)
  <2>2. Latest(raw, 1, BytesType) = s
    BY <1>2, <1>4, <1>5, Numbers, FramedLatest
  <2>3. Values(raw, 2, BytesType) = Contents(ss)
    BY <1>4, <1>5, Numbers, FramedLatest
  <2> QED BY <2>2, <2>3
<1>7. ToStrings(Contents(ss)) = ss
  BY ContentsBack
<1> QED BY <1>1, <1>6, <1>7, Zenon DEF DecodeAcknowledgeRequest, DecodeStreamingPullRequest

LEMMA PublishResponseBack ==
  ASSUME NEW m \in [messageIds : Seq(Nat)], NEW raw, Frames(raw, PublishResponse(m))
  PROVE  Whole(raw) /\ [messageIds |-> ToStrings(Values(raw, 1, BytesType))] = m
<1>1. PICK ss \in Seq(Nat) : m = [messageIds |-> ss] /\ m.messageIds = ss
  OBVIOUS
<1>2. PICK e : e = RepeatedString(1, ss) /\ Bears(e, 1, BytesType, Contents(ss))
  BY Numbers, BearsList
<1>3. /\ Carries(e, 1, BytesType, Contents(ss)) /\ Carries(e, 0, VarintType, <<>>)
      /\ Frames(raw, e)
  BY <1>1, <1>2, Numbers, Zenon DEF PublishResponse, Bears
<1>4. Values(raw, 1, BytesType) = Contents(ss)
  BY <1>3, Numbers, FramedLatest
<1>5. Whole(raw)
  BY <1>3, FramedWhole
<1> QED BY <1>1, <1>4, <1>5, ContentsBack

(* ScanString reads the first value, the others the last: there is one.     *)
LEMMA GetDocumentRequestBack ==
  ASSUME NEW m \in [name : Nat], NEW raw, Frames(raw, GetDocumentRequest(m))
  PROVE  DecodeGetDocumentRequest(raw) = m
<1>1. PICK s \in Nat : m = [name |-> s] /\ m.name = s
  OBVIOUS
<1>2. PICK e, vs : /\ e = IF s = 0 THEN <<>> ELSE String(1, s)
                   /\ Bears(e, 1, BytesType, vs) /\ Tells(vs, s)
  BY Numbers, BearsOptional
<1>3. Carries(e, 1, BytesType, vs)
  BY <1>2 DEF Bears
<1>4. e = GetDocumentRequest(m)
  BY <1>1, <1>2, Zenon DEF GetDocumentRequest, Optional
<1>5. Values(raw, 1, BytesType) = vs
  BY <1>3, <1>4, Numbers, FramedLatest
<1>6. (IF ToStrings(vs) = <<>> THEN 0 ELSE ToStrings(vs)[1]) = s
  <2>1. CASE vs = <<>> /\ s = 0
    BY <2>1 DEF ToStrings
  <2>2. CASE vs = <<Content(s)>>
    <3>1. ToStrings(vs) = <<IF Content(s) = <<>> THEN 0 ELSE Content(s)[1]>>
      BY <2>2 DEF ToStrings
    <3>2. (IF Content(s) = <<>> THEN 0 ELSE Content(s)[1]) = s
      BY DEF Content
    <3> QED BY <3>1, <3>2
  <2>3. CASE vs = <<<<s>>>>
    <3>1. ToStrings(vs) = <<s>>
      BY <2>3 DEF ToStrings
    <3> QED BY <3>1
  <2> QED BY <1>2, <2>1, <2>2, <2>3 DEF Tells
<1>7. ScanString(raw, 1) = s
  BY <1>5, <1>6, Zenon DEF ScanString
<1> QED BY <1>1, <1>7, Zenon DEF DecodeGetDocumentRequest

LEMMA ListDocumentsRequestBack ==
  ASSUME NEW m \in [parent : Nat, collectionId : Nat], NEW raw, Frames(raw, ListDocumentsRequest(m))
  PROVE  DecodeListDocumentsRequest(raw) = m
<1>1. PICK p \in Nat, c \in Nat :
        m = [parent |-> p, collectionId |-> c] /\ m.parent = p /\ m.collectionId = c
  OBVIOUS
<1>2. PICK d1, v1 : /\ d1 = IF p = 0 THEN <<>> ELSE String(1, p)
                    /\ Bears(d1, 1, BytesType, v1) /\ Tells(v1, p)
  BY Numbers, BearsOptional
<1>3. PICK d2, v2 : /\ d2 = IF c = 0 THEN <<>> ELSE String(2, c)
                    /\ Bears(d2, 2, BytesType, v2) /\ Tells(v2, c)
  BY Numbers, BearsOptional
<1>4. PICK e : e = d1 \o d2
  OBVIOUS
<1>5. Carries(e, 1, BytesType, v1) /\ Carries(e, 2, BytesType, v2)
  BY <1>2, <1>3, <1>4, Numbers, Two
<1>6. Frames(raw, e)
  BY <1>1, <1>2, <1>3, <1>4, Zenon DEF ListDocumentsRequest, Optional
<1>7. Latest(raw, 1, BytesType) = p
  BY <1>2, <1>5, <1>6, Numbers, FramedLatest
<1>8. Latest(raw, 2, BytesType) = c
  BY <1>3, <1>5, <1>6, Numbers, FramedLatest
<1> QED BY <1>1, <1>7, <1>8, Zenon DEF DecodeListDocumentsRequest

LEMMA CreateDocumentRequestBack ==
  ASSUME NEW m \in [parent : Nat, collectionId : Nat, documentId : Nat],
         NEW raw, Frames(raw, CreateDocumentRequest(m))
  PROVE  DecodeCreateDocumentRequest(raw) = m
<1>1. PICK p \in Nat, c \in Nat, d \in Nat :
        /\ m = [parent |-> p, collectionId |-> c, documentId |-> d]
        /\ m.parent = p /\ m.collectionId = c /\ m.documentId = d
  OBVIOUS
<1>2. PICK d1, v1 : /\ d1 = IF p = 0 THEN <<>> ELSE String(1, p)
                    /\ Bears(d1, 1, BytesType, v1) /\ Tells(v1, p)
  BY Numbers, BearsOptional
<1>3. PICK d2, v2 : /\ d2 = IF c = 0 THEN <<>> ELSE String(2, c)
                    /\ Bears(d2, 2, BytesType, v2) /\ Tells(v2, c)
  BY Numbers, BearsOptional
<1>4. PICK d3, v3 : /\ d3 = IF d = 0 THEN <<>> ELSE String(3, d)
                    /\ Bears(d3, 3, BytesType, v3) /\ Tells(v3, d)
  BY Numbers, BearsOptional
<1>5. PICK e : e = d1 \o d2 \o d3
  OBVIOUS
<1>6. /\ Carries(e, 1, BytesType, v1) /\ Carries(e, 2, BytesType, v2)
      /\ Carries(e, 3, BytesType, v3)
  BY <1>2, <1>3, <1>4, <1>5, Numbers, Three
<1>7. Frames(raw, e)
  BY <1>1, <1>2, <1>3, <1>4, <1>5, Zenon DEF CreateDocumentRequest, Optional
<1>8. Latest(raw, 1, BytesType) = p
  BY <1>2, <1>6, <1>7, Numbers, FramedLatest
<1>9. Latest(raw, 2, BytesType) = c
  BY <1>3, <1>6, <1>7, Numbers, FramedLatest
<1>10. Latest(raw, 3, BytesType) = d
  BY <1>4, <1>6, <1>7, Numbers, FramedLatest
<1> QED BY <1>1, <1>8, <1>9, <1>10, Zenon DEF DecodeCreateDocumentRequest

(* What the server sends, alone and in lists.                               *)
LEMMA TopicMsgBack ==
  ASSUME NEW m \in TopicMsgs
  PROVE  /\ TopicMsg(m) \in Raw
         /\ \A raw : Frames(raw, TopicMsg(m)) => Whole(raw) /\ ReadTopic(raw) = m
<1>1. PICK s \in Nat : m = [name |-> s] /\ m.name = s
  BY DEF TopicMsgs
<1>2. PICK e : e = String(1, s) /\ Bears(e, 1, BytesType, <<Content(s)>>)
  BY Numbers, BearsPlain
<1>3. /\ e = TopicMsg(m) /\ Carries(e, 1, BytesType, <<Content(s)>>)
      /\ Carries(e, 0, VarintType, <<>>)
  BY <1>1, <1>2, Numbers, Zenon DEF TopicMsg, Bears
<1>4. e \in Raw
  BY <1>3 DEF Carries
<1>5. ASSUME NEW raw, Frames(raw, e)
      PROVE  Whole(raw) /\ ReadTopic(raw) = m
  <2>1. Tells(<<Content(s)>>, s)
    BY PlainTells, Zenon
  <2>2. Latest(raw, 1, BytesType) = s
    BY <1>3, <1>5, <2>1, Numbers, FramedLatest
  <2>3. Whole(raw)
    BY <1>3, <1>5, FramedWhole
  <2> QED BY <1>1, <2>2, <2>3, Zenon DEF ReadTopic
<1> QED BY <1>3, <1>4, <1>5, Zenon

LEMMA SubscriptionMsgBack ==
  ASSUME NEW m \in SubscriptionMsgs
  PROVE  /\ SubscriptionMsg(m) \in Raw
         /\ \A raw : Frames(raw, SubscriptionMsg(m)) => Whole(raw) /\ ReadSubscription(raw) = m
<1>1. PICK s \in Nat, t \in Nat : m = [name |-> s, topic |-> t] /\ m.name = s /\ m.topic = t
  BY DEF SubscriptionMsgs
<1>2. PICK d1, d2 : /\ d1 = String(1, s) /\ Bears(d1, 1, BytesType, <<Content(s)>>)
                    /\ d2 = String(2, t) /\ Bears(d2, 2, BytesType, <<Content(t)>>)
  BY Numbers, BearsPlain
<1>3. PICK e : e = d1 \o d2
  OBVIOUS
<1>4. e = SubscriptionMsg(m)
  BY <1>1, <1>2, <1>3, Zenon DEF SubscriptionMsg
<1>5. /\ Carries(e, 1, BytesType, <<Content(s)>>) /\ Carries(e, 2, BytesType, <<Content(t)>>)
      /\ Carries(e, 0, VarintType, <<>>)
  BY <1>2, <1>3, Numbers, Two
<1>6. e \in Raw
  BY <1>5 DEF Carries
<1>7. ASSUME NEW raw, Frames(raw, e)
      PROVE  Whole(raw) /\ ReadSubscription(raw) = m
  <2>1. Tells(<<Content(s)>>, s) /\ Tells(<<Content(t)>>, t)
    BY PlainTells, Zenon
  <2>2. Latest(raw, 1, BytesType) = s
    BY <1>5, <1>7, <2>1, Numbers, FramedLatest
  <2>3. Latest(raw, 2, BytesType) = t
    BY <1>5, <1>7, <2>1, Numbers, FramedLatest
  <2>4. Whole(raw)
    BY <1>5, <1>7, FramedWhole
  <2> QED BY <1>1, <2>2, <2>3, <2>4, Zenon DEF ReadSubscription
<1> QED BY <1>4, <1>6, <1>7, Zenon

LEMMA DocumentRefused ==
  ASSUME NEW m \in DocumentMsgs
  PROVE  /\ DocumentMsg(m) \in Raw
         /\ \A raw : Frames(raw, DocumentMsg(m)) => ~WholeDocument(raw)
<1>1. PICK s \in Nat, c \in Nat \ {0}, u \in Nat :
        /\ m = [name |-> s, createTime |-> c, updateTime |-> u]
        /\ m.name = s /\ m.createTime = c /\ m.updateTime = u
  BY DEF DocumentMsgs
<1>2. PICK d1, d2, d3 :
        /\ d1 = String(1, s) /\ Bears(d1, 1, BytesType, <<Content(s)>>)
        /\ d2 = String(3, c) /\ Bears(d2, 3, BytesType, <<Content(c)>>)
        /\ d3 = String(4, u) /\ Bears(d3, 4, BytesType, <<Content(u)>>)
  BY Numbers, BearsPlain
<1>3. PICK e : e = d1 \o d2 \o d3
  OBVIOUS
<1>4. e = DocumentMsg(m)
  BY <1>1, <1>2, <1>3, Zenon DEF DocumentMsg
<1>5. Carries(e, 3, BytesType, <<Content(c)>>)
  <2>1. /\ Bears(d1, 1, BytesType, <<Content(s)>>) /\ Bears(d2, 3, BytesType, <<Content(c)>>)
        /\ Bears(d3, 4, BytesType, <<Content(u)>>) /\ 1 # 3 /\ 1 # 4 /\ 3 # 4
    BY <1>2
  <2>2. Carries(d1 \o d2 \o d3, 3, BytesType, <<Content(c)>>)
    BY <2>1, Three
  <2> QED BY <1>3, <2>2
<1>6. e \in Raw
  BY <1>5 DEF Carries
<1>7. ~Whole(Content(c))
  <2>0. PICK b : b = <<c>> /\ b = Content(c)
    BY <1>1 DEF Content
  <2>1. b = Content(c) /\ b \in Raw /\ b # <<>> /\ ~NextField(b).ok
    <3>1. b \in Raw /\ b # <<>> /\ Len(b) < 2
      BY <1>1, <2>0 DEF Raw
    <3>2. NextField(b) = AtEnd
      BY <3>1, Zenon DEF NextField
    <3> QED BY <2>0, <3>1, <3>2 DEF AtEnd
  <2>2. PICK f \in AField : f = Field(0, VarintType, <<>>)
    <3>1. <<>> \in Raw
      BY DEF Raw
    <3> QED BY <3>1 DEF Field, AField, VarintType
  <2>3. Fields(b) = <<f>>
    BY <2>1, <2>2, FieldsStep, Zenon DEF Leftover
  <2>4. PICK fs \in Seq(AField) : fs = <<>> /\ Before(f, fs) = <<f>>
    <3>1. <<>> \in Seq(AField) /\ <<f>> \o <<>> = <<f>>
      OBVIOUS
    <3> QED BY <3>1, Zenon DEF Before
  <2>5. One(f, 0, VarintType) = <<<<>>>>
    BY <2>2 DEF One, Field
  <2>6. /\ Picked(fs, 0, VarintType) \in Seq(Raw)
        /\ Picked(Before(f, fs), 0, VarintType) = One(f, 0, VarintType) \o Picked(fs, 0, VarintType)
    <3>1. \A n, t : /\ Picked(fs, n, t) \in Seq(Raw)
                    /\ Picked(Before(f, fs), n, t) = One(f, n, t) \o Picked(fs, n, t)
      BY PickedFirst
    <3> QED BY <3>1, Zenon
  <2>7. <<<<>>>> \o Picked(fs, 0, VarintType) # <<>>
    <3>1. \A x \in Seq(Raw) : <<<<>>>> \o x # <<>>
      OBVIOUS
    <3> QED BY <2>6, <3>1, Zenon
  <2>8. Values(b, 0, VarintType) # <<>>
    BY <2>3, <2>4, <2>5, <2>6, <2>7, Zenon DEF Values
  <2> QED BY <2>1, <2>8, Zenon DEF Whole
<1>8. ASSUME NEW raw, Frames(raw, e)
      PROVE  ~WholeDocument(raw)
  <2>1. Values(raw, 3, BytesType) = <<Content(c)>>
    BY <1>5, <1>8, Numbers, FramedLatest
  <2>2. ~AllWhole(<<Content(c)>>)
    BY <1>7 DEF AllWhole
  <2> QED BY <2>1, <2>2, Zenon DEF WholeDocument
<1> QED BY <1>4, <1>6, <1>8, Zenon

LEMMA ReceivedMessageBack ==
  ASSUME NEW m \in ReceivedMessages
  PROVE  /\ ReceivedMessage(m) \in Raw
         /\ \A raw : Frames(raw, ReceivedMessage(m)) => WholeReceived(raw) /\ ReadReceivedMessage(raw) = m
<1>1. PICK s \in Nat, p \in Message, d \in Nat :
        /\ m = [ackId |-> s, message |-> p, delivery |-> d]
        /\ m.ackId = s /\ m.message = p /\ m.delivery = d
  BY DEF ReceivedMessages
<1>2. PICK q \in Raw : q = PubsubMessage(p) /\ WholePubsub(q) /\ ReadPubsubMessage(q) = p
  BY PubsubMessageBack
<1>3. PICK d1, d2, d3 :
        /\ d1 = String(1, s) /\ Bears(d1, 1, BytesType, <<Content(s)>>)
        /\ d2 = BytesField(2, q) /\ Bears(d2, 2, BytesType, <<q>>)
        /\ d3 = Varint(3, d) /\ Bears(d3, 3, VarintType, <<<<d>>>>)
  BY Numbers, BearsPlain
<1>4. PICK e : e = d1 \o d2 \o d3
  OBVIOUS
<1>5. e = ReceivedMessage(m)
  BY <1>1, <1>2, <1>3, <1>4, Zenon DEF ReceivedMessage
<1>6. /\ Carries(e, 1, BytesType, <<Content(s)>>) /\ Carries(e, 2, BytesType, <<q>>)
      /\ Carries(e, 3, VarintType, <<<<d>>>>) /\ Carries(e, 0, VarintType, <<>>)
  <2>1. /\ Bears(d1, 1, BytesType, <<Content(s)>>) /\ Bears(d2, 2, BytesType, <<q>>)
        /\ Bears(d3, 3, VarintType, <<<<d>>>>) /\ 1 # 2 /\ 1 # 3 /\ 2 # 3
    BY <1>3
  <2>2. /\ Carries(d1 \o d2 \o d3, 1, BytesType, <<Content(s)>>)
        /\ Carries(d1 \o d2 \o d3, 2, BytesType, <<q>>)
        /\ Carries(d1 \o d2 \o d3, 3, VarintType, <<<<d>>>>)
        /\ Carries(d1 \o d2 \o d3, 0, VarintType, <<>>)
    BY <2>1, Numbers, Three
  <2> QED BY <1>4, <2>2
<1>7. e \in Raw
  BY <1>6 DEF Carries
<1>8. ASSUME NEW raw, Frames(raw, e)
      PROVE  WholeReceived(raw) /\ ReadReceivedMessage(raw) = m
  <2>1. Tells(<<Content(s)>>, s) /\ Tells(<<<<d>>>>, d)
    BY PlainTells, Zenon
  <2>2. Latest(raw, 1, BytesType) = s
    BY <1>6, <1>8, <2>1, Numbers, FramedLatest
  <2>3. Values(raw, 2, BytesType) = <<q>>
    BY <1>6, <1>8, Numbers, FramedLatest
  <2>4. Latest(raw, 3, VarintType) = d
    BY <1>6, <1>8, <2>1, Numbers, FramedLatest
  <2>5. ReadPubsubMessage(Values(raw, 2, BytesType)[1]) = p
    BY <1>2, <2>3
  <2>6. Whole(raw)
    BY <1>6, <1>8, FramedWhole
  <2>7. \A i \in DOMAIN <<q>> : WholePubsub(<<q>>[i])
    BY <1>2
  <2>8. WholeReceived(raw)
    BY <2>3, <2>6, <2>7, Zenon DEF WholeReceived
  <2> QED BY <1>1, <2>2, <2>4, <2>5, <2>8, Zenon DEF ReadReceivedMessage
<1> QED BY <1>5, <1>7, <1>8, Zenon

LEMMA FramedList ==
  ASSUME NEW e \in Seq(Raw), NEW raw, Frames(raw, Messages(1, e))
  PROVE  Values(raw, 1, BytesType) = e /\ Whole(raw)
<1>1. PICK x : x = Messages(1, e) /\ Bears(x, 1, BytesType, e)
  BY Numbers, BearsList
<1>2. Carries(x, 1, BytesType, e) /\ Carries(x, 0, VarintType, <<>>) /\ Frames(raw, x)
  BY <1>1, Numbers, Zenon DEF Bears
<1>3. Values(raw, 1, BytesType) = e
  BY <1>2, Numbers, FramedLatest
<1>4. Whole(raw)
  BY <1>2, FramedWhole
<1> QED BY <1>3, <1>4

LEMMA PullResponseBack ==
  ASSUME NEW m \in [messages : Seq(ReceivedMessages)], NEW raw, Frames(raw, PullResponse(m))
  PROVE  LET vs == Values(raw, 1, BytesType)
         IN  /\ Whole(raw) /\ \A i \in DOMAIN vs : WholeReceived(vs[i])
             /\ [messages |-> [i \in DOMAIN vs |-> ReadReceivedMessage(vs[i])]] = m
<1>1. PICK s \in Seq(ReceivedMessages) : m = [messages |-> s] /\ m.messages = s
  OBVIOUS
<1>2. PICK e : e = [i \in DOMAIN s |-> ReceivedMessage(s[i])]
  OBVIOUS
<1>3. \A i \in DOMAIN s : e[i] \in Raw /\ WholeReceived(e[i]) /\ ReadReceivedMessage(e[i]) = s[i]
  <2>1. \A x \in ReceivedMessages :
          ReceivedMessage(x) \in Raw /\ WholeReceived(ReceivedMessage(x)) /\ ReadReceivedMessage(ReceivedMessage(x)) = x
    BY ReceivedMessageBack, FramesBetween
  <2>2. \A i \in DOMAIN s : s[i] \in ReceivedMessages
    OBVIOUS
  <2> QED BY <1>2, <2>1, <2>2, Zenon
<1>4. e \in Seq(Raw) /\ DOMAIN e = DOMAIN s
  <2>1. e = [i \in DOMAIN s |-> e[i]]
    BY <1>2, Zenon
  <2> QED BY <1>3, <2>1, EachEncoded
<1>5. PullResponse(m) = Messages(1, e)
  BY <1>1, <1>2, Zenon DEF PullResponse
<1>6. Values(raw, 1, BytesType) = e /\ Whole(raw)
  BY <1>4, <1>5, FramedList, Zenon
<1>7. [i \in DOMAIN e |-> ReadReceivedMessage(e[i])] = s
  <2>1. PICK d : d = [i \in DOMAIN e |-> ReadReceivedMessage(e[i])]
    OBVIOUS
  <2>2. d = [i \in DOMAIN s |-> d[i]] /\ \A i \in DOMAIN s : d[i] = s[i]
    BY <1>3, <1>4, <2>1, Zenon
  <2> QED BY <2>1, <2>2, EachBack
<1> QED BY <1>1, <1>3, <1>4, <1>6, <1>7, Zenon

LEMMA ListTopicsResponseBack ==
  ASSUME NEW m \in [topics : Seq(TopicMsgs)], NEW raw, Frames(raw, ListTopicsResponse(m))
  PROVE  LET vs == Values(raw, 1, BytesType)
         IN  /\ Whole(raw) /\ \A i \in DOMAIN vs : Whole(vs[i])
             /\ [topics |-> [i \in DOMAIN vs |-> ReadTopic(vs[i])]] = m
<1>1. PICK s \in Seq(TopicMsgs) : m = [topics |-> s] /\ m.topics = s
  OBVIOUS
<1>2. PICK e : e = [i \in DOMAIN s |-> TopicMsg(s[i])]
  OBVIOUS
<1>3. \A i \in DOMAIN s : e[i] \in Raw /\ Whole(e[i]) /\ ReadTopic(e[i]) = s[i]
  <2>1. \A x \in TopicMsgs :
          TopicMsg(x) \in Raw /\ Whole(TopicMsg(x)) /\ ReadTopic(TopicMsg(x)) = x
    BY TopicMsgBack, FramesBetween
  <2>2. \A i \in DOMAIN s : s[i] \in TopicMsgs
    OBVIOUS
  <2> QED BY <1>2, <2>1, <2>2, Zenon
<1>4. e \in Seq(Raw) /\ DOMAIN e = DOMAIN s
  <2>1. e = [i \in DOMAIN s |-> e[i]]
    BY <1>2, Zenon
  <2> QED BY <1>3, <2>1, EachEncoded
<1>5. ListTopicsResponse(m) = Messages(1, e)
  BY <1>1, <1>2, Zenon DEF ListTopicsResponse
<1>6. Values(raw, 1, BytesType) = e /\ Whole(raw)
  BY <1>4, <1>5, FramedList, Zenon
<1>7. [i \in DOMAIN e |-> ReadTopic(e[i])] = s
  <2>1. PICK d : d = [i \in DOMAIN e |-> ReadTopic(e[i])]
    OBVIOUS
  <2>2. d = [i \in DOMAIN s |-> d[i]] /\ \A i \in DOMAIN s : d[i] = s[i]
    BY <1>3, <1>4, <2>1, Zenon
  <2> QED BY <2>1, <2>2, EachBack
<1> QED BY <1>1, <1>3, <1>4, <1>6, <1>7, Zenon

LEMMA ListSubscriptionsResponseBack ==
  ASSUME NEW m \in [subscriptions : Seq(SubscriptionMsgs)], NEW raw, Frames(raw, ListSubscriptionsResponse(m))
  PROVE  LET vs == Values(raw, 1, BytesType)
         IN  /\ Whole(raw) /\ \A i \in DOMAIN vs : Whole(vs[i])
             /\ [subscriptions |-> [i \in DOMAIN vs |-> ReadSubscription(vs[i])]] = m
<1>1. PICK s \in Seq(SubscriptionMsgs) : m = [subscriptions |-> s] /\ m.subscriptions = s
  OBVIOUS
<1>2. PICK e : e = [i \in DOMAIN s |-> SubscriptionMsg(s[i])]
  OBVIOUS
<1>3. \A i \in DOMAIN s : e[i] \in Raw /\ Whole(e[i]) /\ ReadSubscription(e[i]) = s[i]
  <2>1. \A x \in SubscriptionMsgs :
          SubscriptionMsg(x) \in Raw /\ Whole(SubscriptionMsg(x)) /\ ReadSubscription(SubscriptionMsg(x)) = x
    BY SubscriptionMsgBack, FramesBetween
  <2>2. \A i \in DOMAIN s : s[i] \in SubscriptionMsgs
    OBVIOUS
  <2> QED BY <1>2, <2>1, <2>2, Zenon
<1>4. e \in Seq(Raw) /\ DOMAIN e = DOMAIN s
  <2>1. e = [i \in DOMAIN s |-> e[i]]
    BY <1>2, Zenon
  <2> QED BY <1>3, <2>1, EachEncoded
<1>5. ListSubscriptionsResponse(m) = Messages(1, e)
  BY <1>1, <1>2, Zenon DEF ListSubscriptionsResponse
<1>6. Values(raw, 1, BytesType) = e /\ Whole(raw)
  BY <1>4, <1>5, FramedList, Zenon
<1>7. [i \in DOMAIN e |-> ReadSubscription(e[i])] = s
  <2>1. PICK d : d = [i \in DOMAIN e |-> ReadSubscription(e[i])]
    OBVIOUS
  <2>2. d = [i \in DOMAIN s |-> d[i]] /\ \A i \in DOMAIN s : d[i] = s[i]
    BY <1>3, <1>4, <2>1, Zenon
  <2> QED BY <2>1, <2>2, EachBack
<1> QED BY <1>1, <1>3, <1>4, <1>6, <1>7, Zenon

LEMMA DocumentListRefused ==
  ASSUME NEW m \in [documents : Seq(DocumentMsgs)], NEW raw, Frames(raw, ListDocumentsResponse(m))
  PROVE  LET vs == Values(raw, 1, BytesType)
         IN  /\ Whole(raw) /\ (m.documents = <<>> => vs = <<>>)
             /\ m.documents # <<>> => \E i \in DOMAIN vs : ~WholeDocument(vs[i])
<1>1. PICK s \in Seq(DocumentMsgs) : m = [documents |-> s] /\ m.documents = s
  OBVIOUS
<1>2. PICK e : e = [i \in DOMAIN s |-> DocumentMsg(s[i])]
  OBVIOUS
<1>3. \A i \in DOMAIN s : e[i] \in Raw /\ ~WholeDocument(e[i])
  <2>1. \A x \in DocumentMsgs : DocumentMsg(x) \in Raw /\ ~WholeDocument(DocumentMsg(x))
    BY DocumentRefused, FramesBetween
  <2>2. \A i \in DOMAIN s : s[i] \in DocumentMsgs
    OBVIOUS
  <2> QED BY <1>2, <2>1, <2>2, Zenon
<1>4. e \in Seq(Raw) /\ DOMAIN e = DOMAIN s
  <2>1. e = [i \in DOMAIN s |-> e[i]]
    BY <1>2, Zenon
  <2> QED BY <1>3, <2>1, EachEncoded
<1>5. ListDocumentsResponse(m) = Messages(1, e)
  BY <1>1, <1>2, Zenon DEF ListDocumentsResponse
<1>6. Values(raw, 1, BytesType) = e /\ Whole(raw)
  BY <1>4, <1>5, FramedList, Zenon
<1>7. s = <<>> => e = <<>>
  BY <1>4
<1>8. s # <<>> => 1 \in DOMAIN s
  OBVIOUS
<1> QED BY <1>1, <1>3, <1>4, <1>6, <1>7, <1>8, Zenon

----------------------------------------------------------------------------

Requests  == {"PublishRequest", "PullRequest", "AcknowledgeRequest", "StreamingPullRequest",
              "GetDocumentRequest", "ListDocumentsRequest", "CreateDocumentRequest"}
Responses == {"PublishResponse", "PullResponse", "ListTopicsResponse", "ListSubscriptionsResponse",
              "ListDocumentsResponse", "TopicMsg", "SubscriptionMsg", "DocumentMsg", "Empty"}

(* Each pair of an encoder and a decoder, in the frame of unknown fields.   *)
LEMMA DecodedBack ==
  ASSUME NEW type, NEW m, Holds(type, m), NEW raw, Frames(raw, Encoded(type, m))
  PROVE  Decoded(type, raw) = IF WithDocuments(<<type, m>>) THEN Refused ELSE m
<1>0. /\ WithDocuments(<<type, m>>)
          <=> type = "DocumentMsg" \/ (type = "ListDocumentsResponse" /\ m.documents # <<>>)
      /\ type \in Requests => ~WithDocuments(<<type, m>>)
  BY DEF WithDocuments, Requests
<1>1. type \in Requests \cup Responses
  BY DEF Holds, Requests, Responses
<1>2. CASE type = "PublishRequest"
  <2>1. m \in [topic : Nat, messages : Seq(Message)]
    BY <1>2 DEF Holds
  <2>2. Encoded(type, m) = PublishRequest(m) /\ Decoded(type, raw) = DecodePublishRequest(raw)
    BY <1>2 DEF Encoded, Decoded
  <2> QED BY <1>0, <1>2, <2>1, <2>2, PublishRequestBack DEF Requests
<1>3. CASE type = "PullRequest"
  <2>1. m \in [subscription : Nat, maxMessages : Nat, returnImmediately : {0, 1}]
    BY <1>3 DEF Holds
  <2>2. Encoded(type, m) = PullRequest(m) /\ Decoded(type, raw) = DecodePullRequest(raw)
    BY <1>3 DEF Encoded, Decoded
  <2> QED BY <1>0, <1>3, <2>1, <2>2, PullRequestBack DEF Requests
<1>4. CASE type \in {"AcknowledgeRequest", "StreamingPullRequest"}
  <2>1. m \in [subscription : Nat, ackIds : Seq(Nat)]
    BY <1>4 DEF Holds
  <2>2. /\ Encoded(type, m) = AcknowledgeRequest(m)
        /\ \/ Decoded(type, raw) = DecodeAcknowledgeRequest(raw)
           \/ Decoded(type, raw) = DecodeStreamingPullRequest(raw)
    BY <1>4 DEF Encoded, Decoded
  <2> QED BY <1>0, <1>4, <2>1, <2>2, AcknowledgeRequestBack DEF Requests
<1>5. CASE type = "GetDocumentRequest"
  <2>1. m \in [name : Nat]
    BY <1>5 DEF Holds
  <2>2. Encoded(type, m) = GetDocumentRequest(m) /\ Decoded(type, raw) = DecodeGetDocumentRequest(raw)
    BY <1>5 DEF Encoded, Decoded
  <2> QED BY <1>0, <1>5, <2>1, <2>2, GetDocumentRequestBack DEF Requests
<1>6. CASE type = "ListDocumentsRequest"
  <2>1. m \in [parent : Nat, collectionId : Nat]
    BY <1>6 DEF Holds
  <2>2. /\ Encoded(type, m) = ListDocumentsRequest(m)
        /\ Decoded(type, raw) = DecodeListDocumentsRequest(raw)
    BY <1>6 DEF Encoded, Decoded
  <2> QED BY <1>0, <1>6, <2>1, <2>2, ListDocumentsRequestBack DEF Requests
<1>7. CASE type = "CreateDocumentRequest"
  <2>1. m \in [parent : Nat, collectionId : Nat, documentId : Nat]
    BY <1>7 DEF Holds
  <2>2. /\ Encoded(type, m) = CreateDocumentRequest(m)
        /\ Decoded(type, raw) = DecodeCreateDocumentRequest(raw)
    BY <1>7 DEF Encoded, Decoded
  <2> QED BY <1>0, <1>7, <2>1, <2>2, CreateDocumentRequestBack DEF Requests
<1>8. CASE type \in Responses
  <2> DEFINE vs == Values(raw, 1, BytesType)
  <2>0. Decoded(type, raw) = IF WholeAnswer(type, raw) THEN ReadAnswer(type, raw) ELSE Refused
    BY <1>8 DEF Decoded, Responses, ClientReads
  <2>1. CASE type = "PublishResponse"
    <3>1. m \in [messageIds : Seq(Nat)] /\ Encoded(type, m) = PublishResponse(m)
      BY <2>1 DEF Holds, Encoded
    <3>2. Whole(raw) /\ [messageIds |-> ToStrings(vs)] = m
      BY <3>1, PublishResponseBack
    <3>3. /\ WholeAnswer(type, raw) <=> Whole(raw)
          /\ ReadAnswer(type, raw) = [messageIds |-> ToStrings(vs)]
      BY <2>1 DEF WholeAnswer, ReadAnswer
    <3>4. ~WithDocuments(<<type, m>>)
      BY <1>0, <2>1
    <3> QED BY <2>0, <3>2, <3>3, <3>4, Zenon
  <2>2. CASE type = "PullResponse"
    <3>1. m \in [messages : Seq(ReceivedMessages)] /\ Encoded(type, m) = PullResponse(m)
      BY <2>2 DEF Holds, Encoded
    <3>2. /\ Whole(raw) /\ \A i \in DOMAIN vs : WholeReceived(vs[i])
          /\ [messages |-> [i \in DOMAIN vs |-> ReadReceivedMessage(vs[i])]] = m
      BY <3>1, PullResponseBack
    <3>3. WholeAnswer(type, raw) = (Whole(raw) /\ \A i \in DOMAIN vs : WholeReceived(vs[i]))
      BY <2>2 DEF WholeAnswer
    <3>4. ReadAnswer(type, raw) = [messages |-> [i \in DOMAIN vs |-> ReadReceivedMessage(vs[i])]]
      BY <2>2 DEF ReadAnswer
    <3>5. ~WithDocuments(<<type, m>>)
      BY <1>0, <2>2
    <3> QED BY <2>0, <3>2, <3>3, <3>4, <3>5, Zenon DEF AllWhole
  <2>3. CASE type = "ListTopicsResponse"
    <3>1. m \in [topics : Seq(TopicMsgs)] /\ Encoded(type, m) = ListTopicsResponse(m)
      BY <2>3 DEF Holds, Encoded
    <3>2. /\ Whole(raw) /\ \A i \in DOMAIN vs : Whole(vs[i])
          /\ [topics |-> [i \in DOMAIN vs |-> ReadTopic(vs[i])]] = m
      BY <3>1, ListTopicsResponseBack
    <3>3. WholeAnswer(type, raw) = (Whole(raw) /\ AllWhole(vs))
      BY <2>3 DEF WholeAnswer
    <3>4. ReadAnswer(type, raw) = [topics |-> [i \in DOMAIN vs |-> ReadTopic(vs[i])]]
      BY <2>3 DEF ReadAnswer
    <3>5. ~WithDocuments(<<type, m>>)
      BY <1>0, <2>3
    <3> QED BY <2>0, <3>2, <3>3, <3>4, <3>5, Zenon DEF AllWhole
  <2>4. CASE type = "ListSubscriptionsResponse"
    <3>1. m \in [subscriptions : Seq(SubscriptionMsgs)] /\ Encoded(type, m) = ListSubscriptionsResponse(m)
      BY <2>4 DEF Holds, Encoded
    <3>2. /\ Whole(raw) /\ \A i \in DOMAIN vs : Whole(vs[i])
          /\ [subscriptions |-> [i \in DOMAIN vs |-> ReadSubscription(vs[i])]] = m
      BY <3>1, ListSubscriptionsResponseBack
    <3>3. WholeAnswer(type, raw) = (Whole(raw) /\ AllWhole(vs))
      BY <2>4 DEF WholeAnswer
    <3>4. ReadAnswer(type, raw) = [subscriptions |-> [i \in DOMAIN vs |-> ReadSubscription(vs[i])]]
      BY <2>4 DEF ReadAnswer
    <3>5. ~WithDocuments(<<type, m>>)
      BY <1>0, <2>4
    <3> QED BY <2>0, <3>2, <3>3, <3>4, <3>5, Zenon DEF AllWhole
  <2>5. CASE type = "ListDocumentsResponse"
    <3>1. m \in [documents : Seq(DocumentMsgs)] /\ Encoded(type, m) = ListDocumentsResponse(m)
      BY <2>5 DEF Holds, Encoded
    <3>2. /\ Whole(raw) /\ (m.documents = <<>> => vs = <<>>)
          /\ m.documents # <<>> => \E i \in DOMAIN vs : ~WholeDocument(vs[i])
      BY <3>1, DocumentListRefused
    <3>3. /\ WholeAnswer(type, raw) = (Whole(raw) /\ \A i \in DOMAIN vs : WholeDocument(vs[i]))
          /\ ReadAnswer(type, raw) = [documents |-> [i \in DOMAIN vs |-> ReadDocument(vs[i])]]
      BY <2>5 DEF WholeAnswer, ReadAnswer
    <3>4. CASE m.documents # <<>>
      <4>1. WithDocuments(<<type, m>>)
        BY <1>0, <2>5, <3>4
      <4> QED BY <2>0, <3>2, <3>3, <3>4, <4>1, Zenon
    <3>5. CASE m.documents = <<>>
      <4>1. ~WithDocuments(<<type, m>>)
        BY <1>0, <2>5, <3>5
      <4>2. vs = <<>> /\ WholeAnswer(type, raw)
        <5>1. \A v : v = <<>> => \A i \in DOMAIN v : WholeDocument(v[i])
          OBVIOUS
        <5> QED BY <3>2, <3>3, <3>5, <5>1, Zenon
      <4>3. [i \in DOMAIN vs |-> ReadDocument(vs[i])] = <<>>
        BY <4>2
      <4>4. m = [documents |-> <<>>]
        BY <3>1, <3>5
      <4> QED BY <2>0, <3>3, <4>1, <4>2, <4>3, <4>4, Zenon
    <3> QED BY <3>4, <3>5
  <2>6. CASE type = "TopicMsg"
    <3>1. m \in TopicMsgs /\ Encoded(type, m) = TopicMsg(m)
      BY <2>6 DEF Holds, Encoded
    <3>2. Whole(raw) /\ ReadTopic(raw) = m
      BY <3>1, TopicMsgBack
    <3>3. /\ WholeAnswer(type, raw) <=> Whole(raw)
          /\ ReadAnswer(type, raw) = ReadTopic(raw)
      BY <2>6 DEF WholeAnswer, ReadAnswer
    <3>4. ~WithDocuments(<<type, m>>)
      BY <1>0, <2>6
    <3> QED BY <2>0, <3>2, <3>3, <3>4, Zenon
  <2>7. CASE type = "SubscriptionMsg"
    <3>1. m \in SubscriptionMsgs /\ Encoded(type, m) = SubscriptionMsg(m)
      BY <2>7 DEF Holds, Encoded
    <3>2. Whole(raw) /\ ReadSubscription(raw) = m
      BY <3>1, SubscriptionMsgBack
    <3>3. /\ WholeAnswer(type, raw) <=> Whole(raw)
          /\ ReadAnswer(type, raw) = ReadSubscription(raw)
      BY <2>7 DEF WholeAnswer, ReadAnswer
    <3>4. ~WithDocuments(<<type, m>>)
      BY <1>0, <2>7
    <3> QED BY <2>0, <3>2, <3>3, <3>4, Zenon
  <2>8. CASE type = "DocumentMsg"
    <3>1. m \in DocumentMsgs /\ Encoded(type, m) = DocumentMsg(m)
      BY <2>8 DEF Holds, Encoded
    <3>2. ~WholeDocument(raw)
      BY <3>1, DocumentRefused
    <3>3. WholeAnswer(type, raw) => WholeDocument(raw)
      BY <2>8 DEF WholeAnswer
    <3>4. WithDocuments(<<type, m>>)
      BY <1>0, <2>8
    <3> QED BY <2>0, <3>2, <3>3, <3>4, Zenon
  <2>9. CASE type = "Empty"
    <3>1. m = <<>> /\ Encoded(type, m) = <<>>
      BY <2>9 DEF Holds, Encoded
    <3>2. Carries(<<>>, 0, VarintType, <<>>) /\ Frames(raw, <<>>)
      BY <3>1, CarriesNone
    <3>3. Whole(raw)
      BY <3>2, FramedWhole
    <3>4. /\ WholeAnswer(type, raw) <=> Whole(raw)
          /\ ReadAnswer(type, raw) = <<>>
      BY <2>9 DEF WholeAnswer, ReadAnswer
    <3>5. ~WithDocuments(<<type, m>>)
      BY <1>0, <2>9
    <3> QED BY <2>0, <3>1, <3>3, <3>4, <3>5, Zenon
  <2> QED BY <1>8, <2>1, <2>2, <2>3, <2>4, <2>5, <2>6, <2>7, <2>8, <2>9 DEF Responses
<1> QED BY <1>0, <1>1, <1>2, <1>3, <1>4, <1>5, <1>6, <1>7, <1>8, Zenon DEF Requests

----------------------------------------------------------------------------
(* On the wire is what was sent, framed, and nothing else is understood.    *)
CodecInv ==
  /\ sent # Nothing =>
       /\ sent \in Traffic
       /\ \E before, after \in Unknown : wire = before \o Encoded(sent[1], sent[2]) \o after
  /\ understood # Nothing =>
       /\ sent # Nothing
       /\ understood = <<sent[1], IF WithDocuments(sent) THEN Refused ELSE sent[2]>>

LEMMA CodecInvHolds == CodecSpec => []CodecInv
<1>1. CodecInit => CodecInv
  BY Zenon DEF CodecInit, CodecInv
<1>2. CodecInv /\ [CodecNext]_codecVars => CodecInv'
  <2> SUFFICES ASSUME CodecInv, [CodecNext]_codecVars
               PROVE  CodecInv'
    OBVIOUS
  <2>1. CASE Marshal
    <3>1. understood = Nothing /\ understood' = understood
      BY <2>1, Zenon DEF Marshal, CodecInv
    <3>2. PICK t \in Traffic, before \in Unknown, after \in Unknown :
            sent' = t /\ wire' = before \o Encoded(t[1], t[2]) \o after
      BY <2>1, Zenon DEF Marshal
    <3> QED BY <3>1, <3>2, Zenon DEF CodecInv
  <2>2. CASE Unmarshal
    <3>1. /\ sent # Nothing /\ sent \in Traffic /\ sent' = sent /\ wire' = wire
          /\ understood' = <<sent[1], Decoded(sent[1], wire)>>
      BY <2>2, Zenon DEF Unmarshal, CodecInv
    <3>2. PICK before \in Unknown, after \in Unknown :
            wire = before \o Encoded(sent[1], sent[2]) \o after
      BY <2>2, Zenon DEF Unmarshal, CodecInv
    <3>3. sent = <<sent[1], sent[2]>> /\ Holds(sent[1], sent[2])
      BY <3>1, CodecAssumption, Zenon
    <3>4. Frames(wire, Encoded(sent[1], sent[2]))
      BY <3>2, FramesBetween
    <3>5. Decoded(sent[1], wire)
            = IF WithDocuments(<<sent[1], sent[2]>>) THEN Refused ELSE sent[2]
      BY <3>3, <3>4, DecodedBack, Zenon
    <3>6. WithDocuments(sent') = WithDocuments(<<sent[1], sent[2]>>) /\ sent' = sent
      BY <3>1, <3>3, Zenon
    <3>7. understood' = <<sent'[1], IF WithDocuments(sent') THEN Refused ELSE sent'[2]>>
      BY <3>1, <3>5, <3>6, Zenon
    <3> QED BY <3>1, <3>2, <3>7, Zenon DEF CodecInv, WithDocuments
  <2>3. CASE Delivered
    BY <2>3, Zenon DEF Delivered, CodecInv
  <2>4. CASE UNCHANGED codecVars
    BY <2>4, Zenon DEF codecVars, CodecInv
  <2> QED BY <2>1, <2>2, <2>3, <2>4, Zenon DEF CodecNext
<1> QED BY <1>1, <1>2, PTL DEF CodecSpec

(***************************************************************************)
(* protow's encoders and decoders, through grpcutil.rawCodec, and the code *)
(* of the protos: a message of any size without a document is understood   *)
(* as it was sent, fields that are not known or not.                       *)
(***************************************************************************)
THEOREM Understood == CodecSpec => []UnderstoodAsMeant
<1>1. CodecInv => UnderstoodAsMeant
  <2> SUFFICES ASSUME CodecInv, understood # Nothing, ~WithDocuments(sent)
               PROVE  understood = sent
    BY Zenon DEF UnderstoodAsMeant
  <2>1. understood = <<sent[1], sent[2]>>
    BY Zenon DEF CodecInv
  <2>2. sent = <<sent[1], sent[2]>>
    BY CodecAssumption, Zenon DEF CodecInv
  <2> QED BY <2>1, <2>2, Zenon
<1> QED BY <1>1, CodecInvHolds, PTL

(***************************************************************************)
(* DocumentMsg.Encode (messages.go:311-317) against firestore.proto:14-15: *)
(* a client refuses every document and every list with one, whatever they  *)
(* hold.                                                                   *)
(***************************************************************************)
THEOREM DocumentsRefused ==
  CodecSpec => [](understood # Nothing /\ WithDocuments(sent) => understood[2] = Refused)
<1>1. CodecInv => (understood # Nothing /\ WithDocuments(sent) => understood[2] = Refused)
  <2> SUFFICES ASSUME CodecInv, understood # Nothing, WithDocuments(sent)
               PROVE  understood[2] = Refused
    OBVIOUS
  <2>1. understood = <<sent[1], Refused>>
    BY Zenon DEF CodecInv
  <2> QED BY <2>1
<1> QED BY <1>1, CodecInvHolds, PTL

=============================================================================
