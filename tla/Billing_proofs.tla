---------------------------- MODULE Billing_proofs ----------------------------
(***************************************************************************)
(* Whatever design is estimated: its lines are at the catalog's prices and *)
(* its total is theirs; and a cost query cut in two totals what one totals, *)
(* but for the rows that go over the cut, which count in both parts.       *)
(* Sums and concatenations of sequences of any length need an induction:   *)
(* the lemma Upwards is one, from a set without a least counterexample.    *)
(***************************************************************************)
EXTENDS Billing, SequenceTheorems, WellFoundedInduction, TLAPS

(* A set that has 0, and of each number the next, has all numbers.          *)
LEMMA Upwards ==
  ASSUME NEW S, 0 \in S, \A n \in Nat : n \in S => n + 1 \in S
  PROVE  \A n \in Nat : n \in S
<1> DEFINE R == {p \in Nat \X Nat : p[1] < p[2]}
           T == Nat \ S
<1>1. IsWellFoundedOn(R, Nat)
  BY NatLessThanWellFounded DEF OpToRel
<1>2. ASSUME T # {}
      PROVE  FALSE
  <2>1. PICK x \in T : \A y \in T : <<y, x>> \notin R
    <3> HIDE DEF R
    <3>1. T \subseteq Nat
      OBVIOUS
    <3> HIDE DEF T
    <3> QED BY <1>1, <1>2, <3>1, WFMin
  <2>2. x \in Nat /\ x # 0 /\ x - 1 \in Nat
    BY <2>1
  <2>3. <<x - 1, x>> \in R
    BY <2>2
  <2>4. x - 1 \notin T
    BY <2>1, <2>3
  <2> QED BY <2>1, <2>2, <2>4
<1> QED BY <1>2

(* The partial sums of a sequence, as a function on 0 to its length.        *)
Adds(f, s) == f = [i \in 0 .. Len(s) |-> IF i = 0 THEN 0 ELSE f[i - 1] + s[i]]

LEMMA SumsExist ==
  ASSUME NEW s \in Seq(Nat)
  PROVE  \E f : Adds(f, s)
<1> DEFINE Start(m, f) == f = [i \in 0 .. m |-> IF i = 0 THEN 0 ELSE f[i - 1] + s[i]]
           S == {m \in Nat : m <= Len(s) => \E f : Start(m, f)}
<1>1. 0 \in S
  <2> DEFINE f == [i \in 0 .. 0 |-> 0]
  <2>1. Start(0, f)
    OBVIOUS
  <2> QED BY <2>1
<1>2. ASSUME NEW m \in Nat, m \in S
      PROVE  m + 1 \in S
  <2> SUFFICES ASSUME m + 1 <= Len(s)
               PROVE  \E f : Start(m + 1, f)
    OBVIOUS
  <2>1. PICK f : Start(m, f)
    BY <1>2
  <2> DEFINE g == [i \in 0 .. m + 1 |-> IF i = m + 1 THEN f[m] + s[m + 1] ELSE f[i]]
  <2>2. Start(m + 1, g)
    BY <2>1
  <2> QED BY <2>2
<1>3. \A m \in Nat : m \in S
  <2> HIDE DEF S
  <2> QED BY <1>1, <1>2, Upwards
<1> QED BY <1>3 DEF Adds

LEMMA Steps ==
  ASSUME NEW s \in Seq(Nat), NEW f, Adds(f, s)
  PROVE  /\ f[0] = 0 /\ \A i \in 1 .. Len(s) : f[i] = f[i - 1] + s[i]
         /\ \A i \in 0 .. Len(s) : f[i] \in Nat
<1>1. f[0] = 0 /\ \A i \in 1 .. Len(s) : f[i] = f[i - 1] + s[i]
  BY DEF Adds
<1> DEFINE S == {m \in Nat : m <= Len(s) => f[m] \in Nat}
<1>2. 0 \in S
  BY <1>1
<1>3. ASSUME NEW m \in Nat, m \in S
      PROVE  m + 1 \in S
  <2> SUFFICES ASSUME m + 1 <= Len(s)
               PROVE  f[m + 1] \in Nat
    OBVIOUS
  <2>1. f[m + 1] = f[m] + s[m + 1] /\ f[m] \in Nat /\ s[m + 1] \in Nat
    BY <1>1, <1>3
  <2> QED BY <2>1
<1>4. \A m \in Nat : m \in S
  <2> HIDE DEF S
  <2> QED BY <1>2, <1>3, Upwards
<1> QED BY <1>1, <1>4

LEMMA TotalSteps ==
  ASSUME NEW s \in Seq(Nat)
  PROVE  \E f : Adds(f, s) /\ Total(s) = f[Len(s)]
BY SumsExist DEF Total, Adds

(* Two sequences in front of another add up.                                *)
LEMMA TotalConcat ==
  ASSUME NEW s \in Seq(Nat), NEW t \in Seq(Nat)
  PROVE  Total(s \o t) = Total(s) + Total(t)
<1>1. PICK f : Adds(f, s) /\ Total(s) = f[Len(s)]
  BY TotalSteps
<1>2. PICK g : Adds(g, t) /\ Total(t) = g[Len(t)]
  BY TotalSteps
<1>0. Len(s) \in Nat /\ Len(t) \in Nat
  OBVIOUS
<1>3. /\ s \o t \in Seq(Nat) /\ Len(s \o t) = Len(s) + Len(t)
      /\ \A i \in 1 .. Len(s) : (s \o t)[i] = s[i]
      /\ \A i \in 1 .. Len(t) : (s \o t)[Len(s) + i] = t[i]
  OBVIOUS
<1>4. PICK h : Adds(h, s \o t) /\ Total(s \o t) = h[Len(s) + Len(t)]
  BY <1>3, TotalSteps
<1>5. /\ f[0] = 0 /\ \A i \in 1 .. Len(s) : f[i] = f[i - 1] + s[i]
      /\ g[0] = 0 /\ \A i \in 1 .. Len(t) : g[i] = g[i - 1] + t[i]
      /\ \A i \in 0 .. Len(s) : f[i] \in Nat
      /\ \A i \in 0 .. Len(t) : g[i] \in Nat
  BY <1>1, <1>2, Steps
<1>6. /\ h[0] = 0
      /\ \A i \in 1 .. Len(s) + Len(t) : h[i] = h[i - 1] + (s \o t)[i]
  <2>1. PICK u \in Seq(Nat) : u = s \o t
    BY <1>3
  <2>2. h[0] = 0 /\ \A i \in 1 .. Len(u) : h[i] = h[i - 1] + u[i]
    BY <1>4, <2>1, Steps
  <2> QED BY <1>3, <2>1, <2>2
<1> DEFINE S == {m \in Nat : m <= Len(s) => h[m] = f[m]}
           T == {m \in Nat : m <= Len(t) => h[Len(s) + m] = f[Len(s)] + g[m]}
<1>7. \A m \in Nat : m \in S
  <2>1. 0 \in S
    BY <1>5, <1>6
  <2>2. ASSUME NEW m \in Nat, m \in S
        PROVE  m + 1 \in S
    <3> SUFFICES ASSUME m + 1 <= Len(s)
                 PROVE  h[m + 1] = f[m + 1]
      OBVIOUS
    <3>1. h[m] = f[m] /\ m + 1 \in 1 .. Len(s)
      BY <1>0, <2>2
    <3>2. m + 1 \in 1 .. Len(s) + Len(t) /\ (m + 1) - 1 = m
      BY <1>0
    <3>3. h[m + 1] = h[m] + (s \o t)[m + 1]
      BY <1>6, <3>2
    <3>4. f[m + 1] = f[m] + s[m + 1]
      BY <1>5, <3>1, <3>2
    <3> QED BY <1>3, <3>1, <3>3, <3>4
  <2> HIDE DEF S
  <2> QED BY <2>1, <2>2, Upwards
<1>8. \A m \in Nat : m \in T
  <2>1. 0 \in T
    BY <1>3, <1>5, <1>7
  <2>2. ASSUME NEW m \in Nat, m \in T
        PROVE  m + 1 \in T
    <3> SUFFICES ASSUME m + 1 <= Len(t)
                 PROVE  h[Len(s) + (m + 1)] = f[Len(s)] + g[m + 1]
      OBVIOUS
    <3>1. h[Len(s) + m] = f[Len(s)] + g[m]
      BY <1>0, <2>2
    <3>2. g[m + 1] = g[m] + t[m + 1] /\ t[m + 1] \in Nat /\ g[m] \in Nat /\ f[Len(s)] \in Nat
      BY <1>0, <1>5
    <3>3. h[Len(s) + m + 1] = h[Len(s) + m] + (s \o t)[Len(s) + m + 1]
      BY <1>0, <1>6
    <3>4. (s \o t)[Len(s) + m + 1] = t[m + 1]
      BY <1>3
    <3> QED BY <1>3, <3>1, <3>2, <3>3, <3>4
  <2> HIDE DEF T
  <2> QED BY <2>1, <2>2, Upwards
<1> QED BY <1>0, <1>1, <1>2, <1>4, <1>8

LEMMA TotalSmall ==
  /\ Total(<<>>) = 0
  /\ \A x \in Nat : Total(<<x>>) = x
<1>1. Total(<<>>) = 0
  <2> DEFINE s == <<>>
  <2>1. s \in Seq(Nat) /\ Len(s) = 0
    OBVIOUS
  <2> HIDE DEF s
  <2>2. PICK f : Adds(f, s) /\ Total(s) = f[Len(s)]
    BY <2>1, TotalSteps
  <2>3. f[0] = 0
    BY <2>1, <2>2, Steps
  <2> QED BY <2>1, <2>2, <2>3 DEF s
<1>2. ASSUME NEW x \in Nat
      PROVE  Total(<<x>>) = x
  <2> DEFINE s == <<x>>
  <2>1. s \in Seq(Nat) /\ Len(s) = 1 /\ s[1] = x
    OBVIOUS
  <2> HIDE DEF s
  <2>2. PICK f : Adds(f, s) /\ Total(s) = f[Len(s)]
    BY <2>1, TotalSteps
  <2>3. f[0] = 0 /\ \A i \in 1 .. Len(s) : f[i] = f[i - 1] + s[i]
    BY <2>1, <2>2, Steps
  <2>4. f[1] = f[1 - 1] + s[1]
    BY <2>1, <2>3
  <2> QED BY <2>1, <2>2, <2>3, <2>4 DEF s
<1> QED BY <1>1, <1>2

LEMMA TotalNat ==
  ASSUME NEW s \in Seq(Nat)
  PROVE  Total(s) \in Nat
BY TotalSteps, Steps

----------------------------------------------------------------------------
(* Lines of an estimate at prices of the catalog.                           *)
Names == {s.sku : s \in Catalog}
Units == {s.unit : s \in Catalog}
Lines == {l \in [sku : Names, price : Nat, usage : Nat, unit : Units, cost : Nat] :
            sku(l.sku, l.price, l.unit) \in Catalog}

Costs(lines)   == [i \in DOMAIN lines |-> lines[i].cost]
Rounded(lines) == [i \in DOMAIN lines |-> round2(lines[i].cost)]

(* What is listed is what is added.                                         *)
Sound(lines, cost) == lines \in Seq(Lines) /\ cost \in Nat /\ Total(Costs(lines)) = cost

LEMMA CostsOf ==
  ASSUME NEW a \in Seq(Lines)
  PROVE  /\ Costs(a) \in Seq(Nat) /\ Len(Costs(a)) = Len(a)
         /\ \A i \in 1 .. Len(a) : Costs(a)[i] = a[i].cost
<1>1. Len(a) \in Nat /\ DOMAIN a = 1 .. Len(a) /\ \A i \in 1 .. Len(a) : a[i].cost \in Nat
  BY DEF Lines
<1>2. Costs(a) = [i \in 1 .. Len(a) |-> a[i].cost]
  BY <1>1 DEF Costs
<1> HIDE DEF Costs
<1> QED BY <1>1, <1>2

LEMMA CostsConcat ==
  ASSUME NEW a \in Seq(Lines), NEW b \in Seq(Lines)
  PROVE  Costs(a \o b) = Costs(a) \o Costs(b)
<1>1. /\ a \o b \in Seq(Lines) /\ Len(a \o b) = Len(a) + Len(b)
      /\ \A i \in 1 .. Len(a) + Len(b) :
           (a \o b)[i] = IF i <= Len(a) THEN a[i] ELSE b[i - Len(a)]
  BY ConcatProperties
<1>2. PICK s \in Seq(Nat) : s = Costs(a)
  BY CostsOf
<1>3. PICK t \in Seq(Nat) : t = Costs(b)
  BY CostsOf
<1>4. PICK u \in Seq(Nat) : u = Costs(a \o b)
  BY <1>1, CostsOf
<1>5. /\ s \o t \in Seq(Nat) /\ Len(s \o t) = Len(s) + Len(t)
      /\ \A i \in 1 .. Len(s) + Len(t) :
           (s \o t)[i] = IF i <= Len(s) THEN s[i] ELSE t[i - Len(s)]
  BY ConcatProperties
<1>6. Len(s) = Len(a) /\ \A i \in 1 .. Len(a) : s[i] = a[i].cost
  BY <1>2, CostsOf
<1>7. Len(t) = Len(b) /\ \A i \in 1 .. Len(b) : t[i] = b[i].cost
  BY <1>3, CostsOf
<1>8. Len(u) = Len(a) + Len(b) /\ \A i \in 1 .. Len(a) + Len(b) : u[i] = (a \o b)[i].cost
  BY <1>1, <1>4, CostsOf
<1>9. Len(a) \in Nat /\ Len(b) \in Nat
  OBVIOUS
<1>10. ASSUME NEW i \in 1 .. Len(u)
       PROVE  u[i] = (s \o t)[i]
  <2>1. CASE i <= Len(a)
    <3>1. i \in 1 .. Len(a) /\ i \in 1 .. Len(a) + Len(b)
      BY <1>8, <1>9, <2>1
    <3>2. u[i] = a[i].cost
      BY <1>1, <1>8, <2>1, <3>1
    <3>3. (s \o t)[i] = a[i].cost
      BY <1>5, <1>6, <1>7, <2>1, <3>1
    <3> QED BY <3>2, <3>3
  <2>2. CASE ~(i <= Len(a))
    <3>1. i - Len(a) \in 1 .. Len(b) /\ i \in 1 .. Len(a) + Len(b)
      BY <1>8, <1>9, <2>2
    <3>2. u[i] = b[i - Len(a)].cost
      BY <1>1, <1>8, <2>2, <3>1
    <3>3. (s \o t)[i] = b[i - Len(a)].cost
      BY <1>5, <1>6, <1>7, <2>2, <3>1
    <3> QED BY <3>2, <3>3
  <2> QED BY <2>1, <2>2
<1>11. u = s \o t
  BY <1>5, <1>6, <1>7, <1>8, <1>10, SeqEqual
<1> QED BY <1>2, <1>3, <1>4, <1>11

LEMMA SoundConcat ==
  ASSUME NEW a, NEW b, NEW c, NEW d, Sound(a, c), Sound(b, d)
  PROVE  Sound(a \o b, c + d)
<1>1. a \in Seq(Lines) /\ b \in Seq(Lines) /\ a \o b \in Seq(Lines)
  BY DEF Sound
<1>2. Costs(a) \in Seq(Nat) /\ Costs(b) \in Seq(Nat)
  BY <1>1, CostsOf
<1>3. Total(Costs(a \o b)) = Total(Costs(a)) + Total(Costs(b))
  BY <1>1, <1>2, CostsConcat, TotalConcat
<1> QED BY <1>1, <1>3 DEF Sound

LEMMA SoundNothing == Sound(<<>>, 0)
BY TotalSmall DEF Sound, Costs

LEMMA SoundLine ==
  ASSUME NEW name, NEW price \in Nat, NEW usage \in Nat, NEW unit,
         NEW cost \in Nat, sku(name, price, unit) \in Catalog
  PROVE  Sound(<<Line(name, price, usage, unit, cost)>>, cost)
<1> DEFINE l == Line(name, price, usage, unit, cost)
<1>1. l \in Lines /\ l.cost = cost
  <2>1. name \in Names /\ unit \in Units
    BY DEF Names, Units, sku
  <2> QED BY <2>1 DEF Line, Lines
<1> HIDE DEF l
<1>2. Costs(<<l>>) = <<cost>>
  BY <1>1 DEF Costs
<1> QED BY <1>1, <1>2, TotalSmall DEF Sound, l

(* A line that is left out cost nothing.                                    *)
LEMMA SoundWhen ==
  ASSUME NEW on \in BOOLEAN, NEW l, NEW cost, Sound(<<l>>, cost), ~on => cost = 0
  PROVE  Sound(When(on, l), cost)
BY SoundNothing DEF When

LEMMA SoundPair ==
  ASSUME NEW l, NEW m, NEW c, NEW d, Sound(<<l>>, c), Sound(<<m>>, d)
  PROVE  Sound(<<l, m>>, c + d)
<1>1. l \in Lines /\ m \in Lines
  BY DEF Sound
<1>2. <<l>> \o <<m>> = <<l, m>>
  <2> DEFINE a == <<l>>
             b == <<m>>
             p == <<l, m>>
  <2>1. /\ a \in Seq(Lines) /\ Len(a) = 1 /\ a[1] = l
        /\ b \in Seq(Lines) /\ Len(b) = 1 /\ b[1] = m
        /\ p \in Seq(Lines) /\ Len(p) = 2 /\ p[1] = l /\ p[2] = m
    BY <1>1
  <2> HIDE DEF a, b, p
  <2>2. a \o b \in Seq(Lines) /\ Len(a \o b) = 2 /\ (a \o b)[1] = l /\ (a \o b)[2] = m
    BY <2>1, ConcatProperties
  <2>3. a \o b = p
    BY <2>1, <2>2, SeqEqual
  <2> QED BY <2>3 DEF a, b, p
<1> QED BY <1>2, SoundConcat

LEMMA SoundCharge ==
  ASSUME NEW name, NEW price \in Nat, NEW usage \in Nat, NEW unit,
         sku(name, price, unit) \in Catalog
  PROVE  Sound(<<Line(name, price, usage, unit, usage * price)>>, usage * price)
BY SoundLine, usage * price \in Nat

LEMMA SoundIfAny ==
  ASSUME NEW name, NEW price \in Nat, NEW usage \in Nat, NEW unit,
         sku(name, price, unit) \in Catalog
  PROVE  Sound(When(usage > 0, Line(name, price, usage, unit, usage * price)), usage * price)
<1>1. CASE usage > 0
  BY <1>1, SoundCharge DEF When
<1>2. CASE usage = 0
  <2>1. usage * price = 0 /\ ~(usage > 0)
    BY <1>2
  <2>2. When(usage > 0, Line(name, price, usage, unit, usage * price)) = <<>>
    BY <2>1, Zenon DEF When
  <2> QED BY <2>1, <2>2, SoundNothing, Zenon
<1>3. usage > 0 \/ usage = 0
  OBVIOUS
<1> QED BY <1>1, <1>2, <1>3, Zenon

LEMMA SoundIfCharged ==
  ASSUME NEW name, NEW price \in Nat, NEW usage \in Nat, NEW unit, NEW cost \in Nat,
         sku(name, price, unit) \in Catalog
  PROVE  Sound(When(cost > 0, Line(name, price, usage, unit, cost)), cost)
<1>1. CASE cost > 0
  BY <1>1, SoundLine DEF When
<1>2. CASE cost = 0
  <2>1. ~(cost > 0)
    BY <1>2
  <2>2. When(cost > 0, Line(name, price, usage, unit, cost)) = <<>>
    BY <2>1, Zenon DEF When
  <2> QED BY <1>2, <2>2, SoundNothing, Zenon
<1>3. cost > 0 \/ cost = 0
  OBVIOUS
<1> QED BY <1>1, <1>2, <1>3, Zenon

----------------------------------------------------------------------------
(* The services of the calculator, one by one.                              *)

LEMMA NatTimes == \A a, b \in Nat : a * b \in Nat
OBVIOUS

LEMMA ItemFields ==
  ASSUME NEW item \in Item
  PROVE  /\ item.instances \in Nat /\ item.vcpus \in Nat /\ item.memoryGiB \in Nat
         /\ item.storageGiB \in Nat /\ item.hoursPerMonth \in Nat /\ item.dailyOnHours \in Nat
         /\ item.queriesTiB \in Nat /\ item.ingestionGiB \in Nat /\ item.requests \in Nat
         /\ item.executionSeconds \in Nat /\ item.taskCount \in Nat
         /\ item.taskDurationSeconds \in Nat /\ item.nodeHours \in Nat
         /\ item.gpuCount \in Nat /\ item.inputTokens \in Nat /\ item.outputTokens \in Nat
BY DEF Item

LEMMA OrNat ==
  ASSUME NEW x \in Nat, NEW d \in Nat
  PROVE  Or(x, d) \in Nat
BY DEF Or

LEMMA Defaults ==
  ASSUME NEW item \in Item
  PROVE  /\ instances(item) \in Nat /\ hours(item) \in Nat /\ nodeHours(item) \in Nat
         /\ Machine(item)[1] \in Nat /\ Machine(item)[2] \in Nat
<1>1. item.dailyOnHours * 30 \in Nat
  BY ItemFields, SMT
<1>2. instances(item) \in Nat
  BY ItemFields, SMT DEF instances, Or
<1>3. hours(item) \in Nat
  <2>1. Or(item.dailyOnHours * 30, 730) \in Nat
    BY <1>1, SMT DEF Or
  <2> QED BY <2>1, ItemFields, SMT DEF hours, Or
<1>4. nodeHours(item) \in Nat
  <2>1. Or(item.dailyOnHours * 30, hours(item)) \in Nat
    BY <1>1, <1>3, SMT DEF Or
  <2> QED BY <2>1, ItemFields, SMT DEF nodeHours, Or
<1>5. Machine(item)[1] \in Nat /\ Machine(item)[2] \in Nat
  <2>1. CASE item.machineType \in DOMAIN Machines
    BY <2>1, SMT DEF Machine, Machines
  <2>2. CASE item.machineType \notin DOMAIN Machines
    <3>1. Or(item.vcpus, 4) \in Nat /\ Or(item.memoryGiB, 15) \in Nat
      BY ItemFields, SMT DEF Or
    <3> QED BY <2>2, <3>1, SMT DEF Machine
  <2> QED BY <2>1, <2>2
<1> QED BY <1>2, <1>3, <1>4, <1>5

LEMMA ComputeSound ==
  ASSUME NEW item \in Item
  PROVE  Sound(Compute(item).lines, Compute(item).cost)
<1> DEFINE cpu  == Machine(item)[1] * instances(item) * hours(item)
           ram  == Machine(item)[2] * instances(item) * hours(item)
           disk == item.storageGiB * instances(item)
           p    == 316110
           q    == 42370
           r    == 400000
           two  == <<Line("N1 vCPU", p, cpu, "h", cpu * p), Line("N1 RAM", q, ram, "GiB.h", ram * q)>>
           one  == When(disk > 0, Line("PD", r, disk, "GiB.mo", disk * r))
<1>1. cpu \in Nat /\ ram \in Nat /\ disk \in Nat
  BY Defaults, ItemFields, NatTimes
<1>2. Compute(item) = [lines |-> two \o one, cost |-> disk * r + cpu * p + ram * q]
  BY SMT DEF Compute
<1>3. p \in Nat /\ q \in Nat /\ r \in Nat
  BY SMT
<1>4. /\ sku("N1 vCPU", p, "h") \in Catalog /\ sku("N1 RAM", q, "GiB.h") \in Catalog
      /\ sku("PD", r, "GiB.mo") \in Catalog
  BY SMT DEF Catalog
<1> HIDE DEF cpu, ram, disk, p, q, r
<1>5. Sound(two, cpu * p + ram * q)
  <2>1. Sound(<<Line("N1 vCPU", p, cpu, "h", cpu * p)>>, cpu * p)
    BY <1>1, <1>3, <1>4, SoundCharge, Zenon
  <2>2. Sound(<<Line("N1 RAM", q, ram, "GiB.h", ram * q)>>, ram * q)
    BY <1>1, <1>3, <1>4, SoundCharge, Zenon
  <2> QED BY <2>1, <2>2, SoundPair
<1>6. Sound(one, disk * r)
  BY <1>1, <1>3, <1>4, SoundIfAny, Zenon
<1> HIDE DEF two, one
<1>7. Sound(two \o one, (cpu * p + ram * q) + disk * r)
  BY Zenon, <1>5, <1>6, SoundConcat
<1>8. (cpu * p + ram * q) + disk * r = disk * r + cpu * p + ram * q
  BY SMT, <1>1, <1>3
<1> QED BY <1>2, <1>7, <1>8

LEMMA RunJobsSound ==
  ASSUME NEW item \in Item
  PROVE  Sound(RunJobs(item).lines, RunJobs(item).cost)
<1> DEFINE sec == Or(item.executionSeconds, Or(item.taskCount * item.taskDurationSeconds, 3600))
           cpu == Or(item.vcpus, 4) * instances(item) * sec
           ram == Or(item.memoryGiB, 8) * instances(item) * sec
           p   == 240
           q   == 25
           two == <<Line("run CPU", p, cpu, "vCPU.s", cpu * p),
                    Line("run RAM", q, ram, "GiB.s", ram * q)>>
<1>1. sec \in Nat
  <2>1. item.taskCount * item.taskDurationSeconds \in Nat
    BY ItemFields, NatTimes
  <2>2. Or(item.taskCount * item.taskDurationSeconds, 3600) \in Nat
    BY <2>1, SMT DEF Or
  <2> QED BY <2>2, ItemFields, SMT DEF Or
<1>2. Or(item.vcpus, 4) \in Nat /\ Or(item.memoryGiB, 8) \in Nat
  BY ItemFields, SMT DEF Or
<1> HIDE DEF sec
<1>3. cpu \in Nat /\ ram \in Nat
  BY <1>1, <1>2, Defaults, NatTimes
<1>4. RunJobs(item) = [lines |-> two, cost |-> cpu * p + ram * q]
  BY SMT DEF RunJobs, sec
<1>5. p \in Nat /\ q \in Nat
  BY SMT
<1>6. sku("run CPU", p, "vCPU.s") \in Catalog /\ sku("run RAM", q, "GiB.s") \in Catalog
  BY SMT DEF Catalog
<1> HIDE DEF cpu, ram, p, q
<1>7. Sound(two, cpu * p + ram * q)
  <2>1. Sound(<<Line("run CPU", p, cpu, "vCPU.s", cpu * p)>>, cpu * p)
    BY <1>3, <1>5, <1>6, SoundCharge, Zenon
  <2>2. Sound(<<Line("run RAM", q, ram, "GiB.s", ram * q)>>, ram * q)
    BY <1>3, <1>5, <1>6, SoundCharge, Zenon
  <2> QED BY <2>1, <2>2, SoundPair
<1> HIDE DEF two
<1> QED BY SMT, <1>4, <1>7

LEMMA VertexAISound ==
  ASSUME NEW item \in Item
  PROVE  Sound(VertexAI(item).lines, VertexAI(item).cost)
<1> DEFINE n      == nodeHours(item) * instances(item) * Quarters
           nodes  == IF Trains(item) THEN n ELSE 0
           gpus   == item.gpuCount * nodes
           input  == (item.inputTokens * Quarters * 1500) \div 1000
           output == (item.outputTokens * Quarters * 6000) \div 1000
           p      == 2200000
           q      == 3500000
           r      == 1500
           s      == 6000
           uses   == item.inputTokens * Quarters
           makes  == item.outputTokens * Quarters
           one    == When(Trains(item), Line("training", p, nodes, "node.h", nodes * p))
           two    == When(gpus > 0, Line("T4", q, gpus, "gpu.h", gpus * q))
           three  == When(input > 0, Line("input", r, uses, "1k-tokens", input))
           four   == When(output > 0, Line("output", s, makes, "1k-tokens", output))
<1>1. n \in Nat
  <2>1. nodeHours(item) * instances(item) \in Nat
    BY Defaults, NatTimes
  <2> QED BY <2>1, SMT DEF Quarters
<1> HIDE DEF n
<1>2. nodes \in Nat /\ (~Trains(item) => nodes = 0)
  BY <1>1
<1>3. input \in Nat /\ uses \in Nat /\ output \in Nat /\ makes \in Nat
  BY ItemFields, SMT DEF Quarters
<1>4. VertexAI(item) = [lines |-> one \o two \o three \o four,
                        cost  |-> nodes * p + gpus * q + input + output]
  BY SMT DEF VertexAI, VertexCost, n
<1>5. p \in Nat /\ q \in Nat /\ r \in Nat /\ s \in Nat
  BY SMT
<1>6. /\ sku("training", p, "node.h") \in Catalog /\ sku("T4", q, "gpu.h") \in Catalog
      /\ sku("input", r, "1k-tokens") \in Catalog /\ sku("output", s, "1k-tokens") \in Catalog
  BY SMT DEF Catalog
<1> HIDE DEF nodes, input, output, uses, makes, p, q, r, s
<1>7. gpus \in Nat
  BY <1>2, ItemFields, NatTimes
<1>8. nodes * p \in Nat /\ gpus * q \in Nat
  BY <1>2, <1>5, <1>7, NatTimes
<1> HIDE DEF gpus
<1>9. Sound(one, nodes * p)
  <2>1. CASE Trains(item)
    BY <1>2, <1>5, <1>6, <2>1, SoundCharge, Zenon DEF When
  <2>2. CASE ~Trains(item)
    <3>1. nodes * p = 0
      BY <1>2, <1>5, <2>2
    <3> QED BY <2>2, <3>1, SoundNothing, Zenon DEF When
  <2> QED BY <2>1, <2>2, Zenon
<1>10. Sound(two, gpus * q)
  BY <1>5, <1>6, <1>7, SoundIfAny, Zenon
<1>11. Sound(three, input) /\ Sound(four, output)
  BY <1>3, <1>5, <1>6, SoundIfCharged, Zenon
<1> HIDE DEF one, two, three, four
<1>12. Sound(one \o two \o three \o four, nodes * p + gpus * q + input + output)
  BY <1>9, <1>10, <1>11, SoundConcat, Zenon
<1> QED BY <1>4, <1>12

LEMMA StorageSound ==
  ASSUME NEW item \in Item
  PROVE  Sound(Storage(item).lines, Storage(item).cost)
<1> DEFINE class == IF item.storageClass \in DOMAIN Rates THEN item.storageClass ELSE "standard"
           p     == Rates[class]
           use   == item.storageGiB
<1>1. p \in Nat /\ sku(class, p, "GiB.mo") \in Catalog
  <2>1. class \in {"nearline", "coldline", "archive", "standard"}
    BY SMT DEF Rates
  <2> HIDE DEF class
  <2>2. CASE class = "nearline"
    BY <2>2, SMT DEF Rates, Catalog
  <2>3. CASE class = "coldline"
    BY <2>3, SMT DEF Rates, Catalog
  <2>4. CASE class = "archive"
    BY <2>4, SMT DEF Rates, Catalog
  <2>5. CASE class = "standard"
    BY <2>5, SMT DEF Rates, Catalog
  <2> QED BY <2>1, <2>2, <2>3, <2>4, <2>5, Zenon
<1>2. Storage(item) = [lines |-> <<Line(class, p, use, "GiB.mo", use * p)>>, cost |-> use * p]
  BY SMT DEF Storage
<1>3. use \in Nat
  BY ItemFields
<1> HIDE DEF class, p, use
<1>4. Sound(<<Line(class, p, use, "GiB.mo", use * p)>>, use * p)
  BY <1>1, <1>3, SoundCharge, Zenon
<1> QED BY <1>2, <1>4

LEMMA BigQuerySound ==
  ASSUME NEW item \in Item
  PROVE  Sound(BigQuery(item).lines, BigQuery(item).cost)
<1> DEFINE p       == 50000000
           q       == 200000
           queries == item.queriesTiB * p
           active  == item.storageGiB * q
           one     == When(queries > 0, Line("analysis", p, item.queriesTiB, "TiB", queries))
           two     == When(active > 0, Line("active", q, item.storageGiB, "GiB.mo", active))
<1>1. BigQuery(item) = [lines |-> one \o two, cost |-> queries + active]
  BY SMT DEF BigQuery
<1>2. p \in Nat /\ q \in Nat
  BY SMT
<1>3. sku("analysis", p, "TiB") \in Catalog /\ sku("active", q, "GiB.mo") \in Catalog
  BY SMT DEF Catalog
<1> HIDE DEF p, q
<1>4. queries \in Nat /\ active \in Nat
  BY <1>2, ItemFields, NatTimes
<1> HIDE DEF queries, active
<1>5. Sound(one, queries) /\ Sound(two, active)
  BY <1>2, <1>3, <1>4, ItemFields, SoundIfCharged, Zenon
<1> HIDE DEF one, two
<1> QED BY <1>1, <1>5, SoundConcat

LEMMA PubSubSound ==
  ASSUME NEW item \in Item
  PROVE  Sound(PubSub(item).lines, PubSub(item).cost)
<1> DEFINE p   == 400000
           use == item.ingestionGiB
<1>1. PubSub(item) = [lines |-> <<Line("messages", p, use, "GiB", use * p)>>, cost |-> use * p]
  BY SMT DEF PubSub
<1>2. p \in Nat /\ sku("messages", p, "GiB") \in Catalog
  BY SMT DEF Catalog
<1>3. use \in Nat
  BY ItemFields
<1> HIDE DEF p, use
<1>4. Sound(<<Line("messages", p, use, "GiB", use * p)>>, use * p)
  BY <1>2, <1>3, SoundCharge, Zenon
<1> QED BY <1>1, <1>4

LEMMA CloudRunSound ==
  ASSUME NEW item \in Item
  PROVE  Sound(CloudRun(item).lines, CloudRun(item).cost)
<1> DEFINE p   == 4000000
           use == item.requests
<1>1. CloudRun(item) = [lines |-> <<Line("requests", p, use, "1M-req", use * p)>>, cost |-> use * p]
  BY SMT DEF CloudRun
<1>2. p \in Nat /\ sku("requests", p, "1M-req") \in Catalog
  BY SMT DEF Catalog
<1>3. use \in Nat
  BY ItemFields
<1> HIDE DEF p, use
<1>4. Sound(<<Line("requests", p, use, "1M-req", use * p)>>, use * p)
  BY <1>2, <1>3, SoundCharge, Zenon
<1> QED BY <1>1, <1>4

LEMMA ItemSound ==
  ASSUME NEW item \in Item
  PROVE  Sound(Estimated(item).lines, Estimated(item).cost)
BY ComputeSound, RunJobsSound, VertexAISound, StorageSound, BigQuerySound, PubSubSound,
   CloudRunSound, SoundNothing DEF Estimated

----------------------------------------------------------------------------
(* All the items of a design, whatever their number.                        *)

Flattens(f, s) == f = [i \in 1 .. Len(s) |-> IF i = 1 THEN s[i] ELSE f[i - 1] \o s[i]]

LEMMA FlattensExist ==
  ASSUME NEW s, Len(s) \in Nat
  PROVE  \E f : Flattens(f, s)
<1> DEFINE Start(m, f) == f = [i \in 1 .. m |-> IF i = 1 THEN s[i] ELSE f[i - 1] \o s[i]]
           S == {m \in Nat : \E f : Start(m, f)}
<1>1. 0 \in S
  <2> DEFINE f == [i \in 1 .. 0 |-> 0]
  <2>1. Start(0, f)
    OBVIOUS
  <2> QED BY <2>1
<1>2. ASSUME NEW m \in Nat, m \in S
      PROVE  m + 1 \in S
  <2>1. PICK f : Start(m, f)
    BY <1>2
  <2> DEFINE last == IF m = 0 THEN s[1] ELSE f[m] \o s[m + 1]
             g == [i \in 1 .. m + 1 |-> IF i = m + 1 THEN last ELSE f[i]]
  <2>2. \A i \in 1 .. m : f[i] = IF i = 1 THEN s[i] ELSE f[i - 1] \o s[i]
    BY <2>1, Zenon
  <2>3. ASSUME NEW i \in 1 .. m + 1
        PROVE  g[i] = IF i = 1 THEN s[i] ELSE g[i - 1] \o s[i]
    <3>1. CASE i = m + 1 /\ m = 0
      BY <3>1
    <3>2. CASE i = m + 1 /\ m # 0
      <4>1. i - 1 = m /\ i - 1 \in 1 .. m + 1 /\ i - 1 # m + 1 /\ i # 1
        BY <3>2
      <4>2. g[i] = f[m] \o s[m + 1] /\ g[i - 1] = f[m]
        BY <3>2, <4>1, Zenon
      <4> QED BY <3>2, <4>1, <4>2, Zenon
    <3>3. CASE i # m + 1
      <4>1. i \in 1 .. m /\ (i # 1 => i - 1 \in 1 .. m + 1 /\ i - 1 # m + 1)
        BY <3>3
      <4>2. g[i] = f[i] /\ (i # 1 => g[i - 1] = f[i - 1])
        BY <3>3, <4>1, Zenon
      <4> QED BY <2>2, <4>1, <4>2, Zenon
    <3> QED BY <3>1, <3>2, <3>3, Zenon
  <2>4. Start(m + 1, g)
    BY <2>3, Zenon
  <2>5. m + 1 \in Nat
    OBVIOUS
  <2> HIDE DEF g
  <2> QED BY <2>4, <2>5, Zenon
<1>3. \A m \in Nat : m \in S
  <2> HIDE DEF S
  <2> QED BY <1>1, <1>2, Upwards
<1> QED BY <1>3 DEF Flattens

LEMMA FlattenSound ==
  ASSUME NEW s \in Seq(Seq(Lines)), NEW c \in Seq(Nat), Len(s) = Len(c),
         \A i \in 1 .. Len(c) : Sound(s[i], c[i])
  PROVE  Sound(FlattenSeq(s), Total(c))
<1>0. Len(s) \in Nat
  OBVIOUS
<1>1. CASE Len(s) = 0
  <2>1. s = <<>> /\ c = <<>>
    <3>1. Len(c) = 0
      BY <1>1
    <3> QED BY <1>1, <3>1, EmptySeq
  <2>2. FlattenSeq(s) = <<>>
    BY <1>1, <2>1 DEF FlattenSeq
  <2> QED BY <2>1, <2>2, TotalSmall, SoundNothing
<1>2. CASE Len(s) # 0
  <2>1. PICK f : Flattens(f, s) /\ FlattenSeq(s) = f[Len(s)]
    BY <1>0, <1>2, FlattensExist DEF FlattenSeq, Flattens
  <2>2. PICK t : Adds(t, c) /\ Total(c) = t[Len(s)]
    BY TotalSteps
  <2>3. t[0] = 0 /\ \A i \in 1 .. Len(s) : t[i] = t[i - 1] + c[i]
    BY <2>2, Steps
  <2>4. f[1] = s[1] /\ \A i \in 2 .. Len(s) : f[i] = f[i - 1] \o s[i]
    <3>1. \A i \in 1 .. Len(s) : f[i] = IF i = 1 THEN s[i] ELSE f[i - 1] \o s[i]
      BY <2>1, Zenon DEF Flattens
    <3>2. 1 \in 1 .. Len(s) /\ \A i \in 2 .. Len(s) : i \in 1 .. Len(s) /\ i # 1
      BY <1>0, <1>2
    <3> QED BY <3>1, <3>2, Zenon
  <2> DEFINE S == {m \in Nat : m + 1 <= Len(s) => Sound(f[m + 1], t[m + 1])}
  <2>5. 0 \in S
    <3>1. Sound(s[1], c[1]) /\ c[1] \in Nat
      BY <1>0, <1>2
    <3>2. t[1] = t[1 - 1] + c[1]
      BY <1>0, <1>2, <2>3
    <3>3. t[1] = c[1]
      BY <2>3, <3>1, <3>2
    <3> QED BY <2>4, <3>1, <3>3
  <2>6. ASSUME NEW m \in Nat, m \in S
        PROVE  m + 1 \in S
    <3> DEFINE k == m + 2
    <3> SUFFICES ASSUME k <= Len(s)
                 PROVE  Sound(f[k], t[k])
      OBVIOUS
    <3>1. k \in 2 .. Len(s) /\ k \in 1 .. Len(s) /\ k - 1 = m + 1
      BY <1>0
    <3>2. Sound(f[k - 1], t[k - 1])
      BY <1>0, <2>6, <3>1
    <3> HIDE DEF k
    <3>3. f[k] = f[k - 1] \o s[k] /\ t[k] = t[k - 1] + c[k] /\ Sound(s[k], c[k])
      BY <2>3, <2>4, <3>1
    <3> QED BY <3>2, <3>3, SoundConcat
  <2>7. \A m \in Nat : m \in S
    <3> HIDE DEF S
    <3> QED BY <2>5, <2>6, Upwards
  <2>8. Len(s) - 1 \in Nat /\ (Len(s) - 1) + 1 = Len(s)
    BY <1>0, <1>2
  <2>9. Sound(f[Len(s)], t[Len(s)])
    <3> DEFINE m == Len(s) - 1
    <3>1. m \in Nat /\ m + 1 <= Len(s) /\ m + 1 = Len(s)
      BY <1>0, <2>8
    <3> HIDE DEF m
    <3>2. Sound(f[m + 1], t[m + 1])
      BY <2>7, <3>1, Zenon
    <3> QED BY <3>1, <3>2, Zenon
  <2> QED BY <2>1, <2>2, <2>9
<1> QED BY <1>1, <1>2

LEMMA DesignSound ==
  ASSUME NEW items \in Seq(Item)
  PROVE  Sound(FlattenSeq([i \in DOMAIN items |-> [j \in DOMAIN items |-> Estimated(items[j])][i].lines]),
               Total([i \in DOMAIN items |-> [j \in DOMAIN items |-> Estimated(items[j])][i].cost]))
<1> DEFINE s == [i \in DOMAIN items |-> [j \in DOMAIN items |-> Estimated(items[j])][i].lines]
           c == [i \in DOMAIN items |-> [j \in DOMAIN items |-> Estimated(items[j])][i].cost]
<1>1. Len(items) \in Nat /\ DOMAIN items = 1 .. Len(items)
      /\ \A i \in 1 .. Len(items) : items[i] \in Item
  OBVIOUS
<1>2. \A i \in 1 .. Len(items) : Sound(Estimated(items[i]).lines, Estimated(items[i]).cost)
  BY <1>1, ItemSound
<1>3. /\ s = [i \in 1 .. Len(items) |-> Estimated(items[i]).lines]
      /\ c = [i \in 1 .. Len(items) |-> Estimated(items[i]).cost]
  BY <1>1
<1> HIDE DEF s, c
<1>4. s \in Seq(Seq(Lines)) /\ Len(s) = Len(items)
  BY <1>1, <1>2, <1>3 DEF Sound
<1>5. c \in Seq(Nat) /\ Len(c) = Len(items)
  BY <1>1, <1>2, <1>3 DEF Sound
<1>6. \A i \in 1 .. Len(c) : Sound(s[i], c[i])
  BY <1>2, <1>3, <1>5
<1>7. Sound(FlattenSeq(s), Total(c))
  BY <1>4, <1>5, <1>6, FlattenSound
<1> QED BY <1>7 DEF s, c

----------------------------------------------------------------------------
(* Rounding line by line: half a cent for each.                             *)

LEMMA HalfACent ==
  ASSUME NEW x \in Nat
  PROVE  /\ round2(x) \in Nat /\ Cent \in Nat
         /\ 2 * Cent * round2(x) <= 2 * x + Cent /\ 2 * x <= 2 * Cent * round2(x) + Cent
BY SMT DEF round2, Cent, Quarters

LEMMA OneMoreLine ==
  ASSUME NEW f \in Nat, NEW g \in Nat, NEW x \in Nat, NEW y \in Nat, NEW m \in Nat,
         2 * Cent * g <= 2 * f + Cent * m, 2 * f <= 2 * Cent * g + Cent * m,
         2 * Cent * y <= 2 * x + Cent, 2 * x <= 2 * Cent * y + Cent
  PROVE  /\ 2 * Cent * (g + y) <= 2 * (f + x) + Cent * (m + 1)
         /\ 2 * (f + x) <= 2 * Cent * (g + y) + Cent * (m + 1)
BY SMT DEF Cent, Quarters

LEMMA RoundedLines ==
  ASSUME NEW a \in Seq(Lines)
  PROVE  /\ Total(Rounded(a)) \in Nat
         /\ 2 * Cent * Total(Rounded(a)) <= 2 * Total(Costs(a)) + Cent * Len(a)
         /\ 2 * Total(Costs(a)) <= 2 * Cent * Total(Rounded(a)) + Cent * Len(a)
<1> DEFINE c == Costs(a)
           r == Rounded(a)
<1>1. Len(a) \in Nat /\ c \in Seq(Nat) /\ Len(c) = Len(a) /\ \A i \in 1 .. Len(a) : c[i] = a[i].cost
  BY CostsOf
<1>2. r \in Seq(Nat) /\ Len(r) = Len(a) /\ \A i \in 1 .. Len(a) : r[i] = round2(c[i])
  <2>1. \A i \in 1 .. Len(a) : c[i] \in Nat
    BY <1>1
  <2>2. \A i \in 1 .. Len(a) : round2(c[i]) \in Nat
    BY <2>1, HalfACent, Zenon
  <2>3. r = [i \in 1 .. Len(a) |-> round2(c[i])]
    BY <1>1 DEF Rounded
  <2> HIDE DEF r, c
  <2> QED BY <1>1, <2>2, <2>3
<1> HIDE DEF c, r
<1>3. PICK f : Adds(f, c) /\ Total(c) = f[Len(a)]
  BY <1>1, TotalSteps
<1>4. PICK g : Adds(g, r) /\ Total(r) = g[Len(a)]
  BY <1>2, TotalSteps
<1>5. /\ f[0] = 0 /\ \A i \in 1 .. Len(a) : f[i] = f[i - 1] + c[i]
      /\ \A i \in 0 .. Len(a) : f[i] \in Nat
  BY <1>1, <1>3, Steps
<1>6. /\ g[0] = 0 /\ \A i \in 1 .. Len(a) : g[i] = g[i - 1] + r[i]
      /\ \A i \in 0 .. Len(a) : g[i] \in Nat
  BY <1>2, <1>4, Steps
<1>0. Cent \in Nat
  BY SMT DEF Cent, Quarters
<1> DEFINE Near(m) == 2 * Cent * g[m] <= 2 * f[m] + Cent * m /\ 2 * f[m] <= 2 * Cent * g[m] + Cent * m
           S == {m \in Nat : m <= Len(a) => Near(m)}
<1>7. 0 \in S
  <2>1. f[0] = 0 /\ g[0] = 0
    BY <1>5, <1>6
  <2>2. Near(0)
    BY SMT, <2>1 DEF Cent, Quarters
  <2> HIDE DEF Near
  <2> QED BY <2>2
<1>8. ASSUME NEW m \in Nat, m \in S
      PROVE  m + 1 \in S
  <2> SUFFICES ASSUME m + 1 <= Len(a)
               PROVE  Near(m + 1)
    OBVIOUS
  <2>1. m \in 0 .. Len(a) /\ m + 1 \in 1 .. Len(a) /\ (m + 1) - 1 = m
    BY <1>1
  <2>2. Near(m)
    BY <1>1, <1>8
  <2>3. f[m] \in Nat /\ g[m] \in Nat /\ f[m + 1] = f[m] + c[m + 1] /\ g[m + 1] = g[m] + r[m + 1]
    BY <1>5, <1>6, <2>1
  <2> DEFINE x == c[m + 1]
             y == r[m + 1]
  <2>4. x \in Nat /\ y = round2(x)
    BY <1>1, <1>2, <2>1
  <2>5. y \in Nat /\ 2 * Cent * y <= 2 * x + Cent /\ 2 * x <= 2 * Cent * y + Cent
    BY <2>4, HalfACent
  <2> HIDE DEF x, y
  <2>6. f[m + 1] = f[m] + x /\ g[m + 1] = g[m] + y
    BY <2>3 DEF x, y
  <2>7. f[m] \in Nat /\ g[m] \in Nat
    BY <2>3
  <2> HIDE DEF S
  <2>8. /\ 2 * Cent * (g[m] + y) <= 2 * (f[m] + x) + Cent * (m + 1)
        /\ 2 * (f[m] + x) <= 2 * Cent * (g[m] + y) + Cent * (m + 1)
    BY <2>2, <2>4, <2>5, <2>7, OneMoreLine
  <2> QED BY <2>6, <2>8
<1>9. \A m \in Nat : m \in S
  <2> HIDE DEF S
  <2> QED BY <1>7, <1>8, Upwards
<1>10. Near(Len(a)) /\ f[Len(a)] \in Nat /\ g[Len(a)] \in Nat
  <2>1. Len(a) \in 0 .. Len(a)
    BY <1>1
  <2> QED BY <1>1, <1>5, <1>6, <1>9, <2>1
<1> QED BY <1>3, <1>4, <1>10 DEF c, r

----------------------------------------------------------------------------
(* What the estimate lists is what its total rounds; the export has rows.   *)
BillingInv ==
  /\ costs \in Seq(CostRow)
  /\ \E c : Sound(estimate.lines, c) /\ estimate.monthlyTotal = round2(c)

(* Every answer of the calculator keeps it, whatever the design.            *)
THEOREM BillingInductive == BillingSpec => []BillingInv
<1>1. BillingInit => BillingInv
  <2> SUFFICES ASSUME BillingInit
               PROVE  BillingInv
    OBVIOUS
  <2>1. costs \in Seq(CostRow)
    <3>1. \A i \in 1 .. 5 : <<23070, 12370, 4500, 15000, 2400>>[i] \in Nat
      OBVIOUS
    <3> QED BY <3>1 DEF BillingInit, Seeded, CostRow
  <2>2. round2(0) = 0
    BY SMT DEF round2, Cent, Quarters
  <2>3. Sound(estimate.lines, 0) /\ estimate.monthlyTotal = round2(0)
    BY <2>2, SoundNothing DEF BillingInit, NoEstimate
  <2> QED BY <2>1, <2>3 DEF BillingInv
<1>2. BillingInv /\ [BillingNext]_billingVars => BillingInv'
  <2> SUFFICES ASSUME BillingInv, [BillingNext]_billingVars
               PROVE  BillingInv'
    OBVIOUS
  <2>1. ASSUME NEW items \in Designs, calculateEstimate(items)
        PROVE  BillingInv'
    <3> DEFINE lines == FlattenSeq([i \in DOMAIN items |->
                          [j \in DOMAIN items |-> Estimated(items[j])][i].lines])
               c     == Total([i \in DOMAIN items |->
                          [j \in DOMAIN items |-> Estimated(items[j])][i].cost])
    <3>1. items \in Seq(Item)
      BY BillingAssumption DEF BillingAssumption
    <3>2. Sound(lines, c)
      BY <3>1, DesignSound
    <3>3. estimate' = [lines |-> lines, monthlyTotal |-> round2(c)] /\ costs' = costs
      BY <2>1, Zenon DEF calculateEstimate
    <3> HIDE DEF lines, c
    <3>4. Sound(estimate'.lines, c) /\ estimate'.monthlyTotal = round2(c)
      BY <3>2, <3>3
    <3> QED BY <3>3, <3>4, Zenon DEF BillingInv
  <2>2. ASSUME NEW row \in CostRows, seedCost(row)
        PROVE  BillingInv'
    <3>1. row \in CostRow
      BY BillingAssumption DEF BillingAssumption
    <3>2. costs' \in Seq(CostRow) /\ estimate' = estimate
      BY <2>2, <3>1 DEF seedCost, BillingInv
    <3> QED BY <3>2, Zenon DEF BillingInv
  <2>3. CASE UNCHANGED billingVars
    BY <2>3, Zenon DEF BillingInv, billingVars
  <2> QED BY <2>1, <2>2, <2>3 DEF BillingNext
<1> QED BY <1>1, <1>2, PTL DEF BillingSpec

(* The total is what its lines say, to half a cent for each and itself.     *)
THEOREM LinesTotal == BillingSpec => []TotalIsTheLines
<1>1. BillingInv => TotalIsTheLines
  <2> SUFFICES ASSUME BillingInv
               PROVE  TotalIsTheLines
    OBVIOUS
  <2>1. PICK c : Sound(estimate.lines, c) /\ estimate.monthlyTotal = round2(c)
    BY DEF BillingInv
  <2> DEFINE a == estimate.lines
             t == Total(Rounded(a))
             r == round2(c)
  <2>2. a \in Seq(Lines) /\ Len(a) \in Nat /\ c \in Nat /\ c = Total(Costs(a))
    BY <2>1 DEF Sound
  <2>3. t \in Nat /\ 2 * Cent * t <= 2 * c + Cent * Len(a) /\ 2 * c <= 2 * Cent * t + Cent * Len(a)
    BY <2>2, RoundedLines
  <2>4. r \in Nat /\ 2 * Cent * r <= 2 * c + Cent /\ 2 * c <= 2 * Cent * r + Cent
    BY <2>2, HalfACent
  <2> HIDE DEF t, r
  <2>5. 2 * Distance(r, t) <= Len(a) + 1
    <3> DEFINE n == Len(a)
    <3>1. n \in Nat
      BY <2>2
    <3>2. 2 * Cent * t <= 2 * c + Cent * n /\ 2 * c <= 2 * Cent * t + Cent * n
      BY <2>3
    <3> HIDE DEF n
    <3>3. 2 * Distance(r, t) <= n + 1
      BY SMT, <2>2, <2>3, <2>4, <3>1, <3>2 DEF Distance, Cent, Quarters
    <3> QED BY <3>3 DEF n
  <2> QED BY <2>1, <2>5, Zenon DEF TotalIsTheLines, Rounded, t, r
<1> QED BY <1>1, BillingInductive, PTL

(* The calculator spells the catalog's prices out right, for every item.    *)
THEOREM CatalogPrices == BillingSpec => []PricesAreTheCatalogs
<1>1. BillingInv => PricesAreTheCatalogs
  <2> SUFFICES ASSUME BillingInv, NEW i \in DOMAIN estimate.lines
               PROVE  LET l == estimate.lines[i] IN sku(l.sku, l.price, l.unit) \in Catalog
    BY Zenon DEF PricesAreTheCatalogs
  <2>1. estimate.lines \in Seq(Lines)
    BY DEF BillingInv, Sound
  <2>2. estimate.lines[i] \in Lines
    BY <2>1
  <2> QED BY <2>2, Zenon DEF Lines
<1> QED BY <1>1, BillingInductive, PTL

----------------------------------------------------------------------------
(* The totals of a query cut in two.                                        *)

\* The partial sums of a sequence of n numbers, step by step.
Sums(f, s, n) == /\ Total(s) = f[n] /\ f[0] = 0
                 /\ \A i \in 1 .. n : f[i] = f[i - 1] + s[i]
                 /\ \A i \in 0 .. n : f[i] \in Nat

LEMMA SumsOf ==
  ASSUME NEW s \in Seq(Nat)
  PROVE  \E f : Sums(f, s, Len(s))
<1>1. PICK f : Adds(f, s) /\ Total(s) = f[Len(s)]
  BY TotalSteps
<1>2. Sums(f, s, Len(s))
  BY <1>1, Steps DEF Sums
<1> QED BY <1>2

(* Sequences that balance at every place balance in their totals.           *)
LEMMA Balanced ==
  ASSUME NEW n \in Nat,
         NEW a \in Seq(Nat), NEW b \in Seq(Nat), NEW c \in Seq(Nat),
         NEW d \in Seq(Nat), NEW e \in Seq(Nat),
         Len(a) = n, Len(b) = n, Len(c) = n, Len(d) = n, Len(e) = n,
         \A i \in 1 .. n : a[i] + b[i] + c[i] = d[i] + e[i]
  PROVE  Total(a) + Total(b) + Total(c) = Total(d) + Total(e)
<1>1. PICK fa : Sums(fa, a, n)
  BY SumsOf
<1>2. PICK fb : Sums(fb, b, n)
  BY SumsOf
<1>3. PICK fc : Sums(fc, c, n)
  BY SumsOf
<1>4. PICK fd : Sums(fd, d, n)
  BY SumsOf
<1>5. PICK fe : Sums(fe, e, n)
  BY SumsOf
<1> DEFINE Even(m) == fa[m] + fb[m] + fc[m] = fd[m] + fe[m]
           S == {m \in Nat : m <= n => Even(m)}
<1>6. 0 \in S
  BY <1>1, <1>2, <1>3, <1>4, <1>5 DEF Sums
<1>7. ASSUME NEW m \in Nat, m \in S
      PROVE  m + 1 \in S
  <2> DEFINE k == m + 1
  <2> SUFFICES ASSUME k <= n
               PROVE  Even(k)
    OBVIOUS
  <2>1. m \in 0 .. n /\ k \in 1 .. n /\ k - 1 = m
    OBVIOUS
  <2>2. Even(m)
    BY <1>7, <2>1
  <2> HIDE DEF k, S
  <2>3. a[k] + b[k] + c[k] = d[k] + e[k]
    BY <2>1
  <2>4. a[k] \in Nat /\ b[k] \in Nat /\ c[k] \in Nat /\ d[k] \in Nat /\ e[k] \in Nat
    <3>1. a[k] \in Nat
      BY <2>1
    <3>2. b[k] \in Nat
      BY <2>1
    <3>3. c[k] \in Nat
      BY <2>1
    <3>4. d[k] \in Nat
      BY <2>1
    <3>5. e[k] \in Nat
      BY <2>1
    <3> QED BY <3>1, <3>2, <3>3, <3>4, <3>5
  <2>5. fa[m] \in Nat /\ fa[k] = fa[m] + a[k]
    BY <1>1, <2>1 DEF Sums
  <2>6. fb[m] \in Nat /\ fb[k] = fb[m] + b[k]
    BY <1>2, <2>1 DEF Sums
  <2>7. fc[m] \in Nat /\ fc[k] = fc[m] + c[k]
    BY <1>3, <2>1 DEF Sums
  <2>8. fd[m] \in Nat /\ fd[k] = fd[m] + d[k]
    BY <1>4, <2>1 DEF Sums
  <2>9. fe[m] \in Nat /\ fe[k] = fe[m] + e[k]
    BY <1>5, <2>1 DEF Sums
  <2> DEFINE u == fa[m]
             v == fb[m]
             w == fc[m]
             x == fd[m]
             y == fe[m]
             p == a[k]
             q == b[k]
             r == c[k]
             s == d[k]
             t == e[k]
  <2>10. /\ u \in Nat /\ v \in Nat /\ w \in Nat /\ x \in Nat /\ y \in Nat
         /\ p \in Nat /\ q \in Nat /\ r \in Nat /\ s \in Nat /\ t \in Nat
         /\ u + v + w = x + y /\ p + q + r = s + t
    BY <2>2, <2>3, <2>4, <2>5, <2>6, <2>7, <2>8, <2>9, Zenon
  <2> HIDE DEF u, v, w, x, y, p, q, r, s, t
  <2>11. (u + p) + (v + q) + (w + r) = (x + s) + (y + t)
    BY <2>10
  <2> QED BY <2>5, <2>6, <2>7, <2>8, <2>9, <2>11, Zenon DEF u, v, w, x, y, p, q, r, s, t
<1>8. \A m \in Nat : m \in S
  <2> HIDE DEF S
  <2> QED BY <1>6, <1>7, Upwards
<1>9. Even(n)
  BY <1>8
<1> QED BY <1>1, <1>2, <1>3, <1>4, <1>5, <1>9 DEF Sums

LEMMA HalfAMill ==
  ASSUME NEW x \in Nat
  PROVE  InCents(x) \in Nat /\ 10 * InCents(x) <= x + 5 /\ x <= 10 * InCents(x) + 5
BY SMT DEF InCents

(* The parts of a window total what it totals, and the rows over the cut.   *)
THEOREM WindowsMeet == BillingSpec => []CutsCountRowsOverThemTwice
<1>1. BillingInv => CutsCountRowsOverThemTwice
  <2> SUFFICES ASSUME BillingInv, NEW cut \in Days \ {NoDay},
                      NEW from \in Days \cup {NoDay}, NEW to \in Days \cup {NoDay},
                      from = NoDay \/ from < cut, to = NoDay \/ cut < to
               PROVE  2 * Distance(10 * (queryCost(from, cut) + queryCost(cut, to))
                                     + CostOf(Backward(from, cut, to)),
                                   10 * queryCost(from, to) + CostOf(Over(cut))) <= 30
    BY DEF CutsCountRowsOverThemTwice
  <2> DEFINE n == Len(costs)
             Charges(P) == [i \in DOMAIN costs |-> IF i \in P THEN costs[i].cost ELSE 0]
  <2>1. /\ n \in Nat /\ DOMAIN costs = 1 .. n
        /\ \A i \in 1 .. n : costs[i].usageStart \in Nat /\ costs[i].usageEnd \in Nat
                            /\ costs[i].cost \in Nat
    <3>1. costs \in Seq(CostRow)
      BY Zenon DEF BillingInv
    <3>2. n \in Nat /\ DOMAIN costs = 1 .. n /\ \A i \in 1 .. n : costs[i] \in CostRow
      BY <3>1
    <3> QED BY <3>2 DEF CostRow
  <2>2. from \in Int /\ cut \in Int /\ to \in Int /\ cut # NoDay
    <3>1. \A d \in Days : d \in Int
      BY <2>1 DEF Days
    <3> QED BY <3>1 DEF NoDay
  <2>3. ASSUME NEW P
        PROVE  /\ Charges(P) \in Seq(Nat) /\ Len(Charges(P)) = n /\ CostOf(P) = Total(Charges(P))
               /\ \A i \in 1 .. n : Charges(P)[i] = IF i \in P THEN costs[i].cost ELSE 0
    BY <2>1 DEF CostOf
  <2> DEFINE A == CountedRows(from, cut)
             B == CountedRows(cut, to)
             C == Backward(from, cut, to)
             D == CountedRows(from, to)
             E == Over(cut)
  <2>4. ASSUME NEW i \in 1 .. n
        PROVE  /\ i \in A /\ i \in B <=> i \in D /\ i \in E
               /\ i \in D /\ i \notin E <=> (i \in A /\ i \notin B) \/ (i \in B /\ i \notin A) \/ i \in C
               /\ i \in E => i \in D
               /\ i \in C => i \notin A /\ i \notin B
    BY <2>1, <2>2 DEF CountedRows, Counted, Backward, Over
  <2> HIDE DEF A, B, C, D, E, Charges, n
  <2>5. \A i \in 1 .. n : Charges(A)[i] + Charges(B)[i] + Charges(C)[i] = Charges(D)[i] + Charges(E)[i]
    <3> SUFFICES ASSUME NEW i \in 1 .. n
                 PROVE  Charges(A)[i] + Charges(B)[i] + Charges(C)[i] = Charges(D)[i] + Charges(E)[i]
      OBVIOUS
    <3>1. /\ Charges(A)[i] = (IF i \in A THEN costs[i].cost ELSE 0)
          /\ Charges(B)[i] = (IF i \in B THEN costs[i].cost ELSE 0)
          /\ Charges(C)[i] = (IF i \in C THEN costs[i].cost ELSE 0)
          /\ Charges(D)[i] = (IF i \in D THEN costs[i].cost ELSE 0)
          /\ Charges(E)[i] = (IF i \in E THEN costs[i].cost ELSE 0)
      BY <2>3
    <3>2. costs[i].cost \in Nat
      BY <2>1
    <3> QED BY <2>4, <3>1, <3>2
  <2>6. CostOf(A) + CostOf(B) + CostOf(C) = CostOf(D) + CostOf(E)
    BY <2>1, <2>3, <2>5, Balanced
  <2>7. CostOf(A) \in Nat /\ CostOf(B) \in Nat /\ CostOf(C) \in Nat /\ CostOf(D) \in Nat /\ CostOf(E) \in Nat
    BY <2>3, TotalNat
  <2> DEFINE qa == InCents(CostOf(A))
             qb == InCents(CostOf(B))
             qd == InCents(CostOf(D))
  <2>8. /\ qa \in Nat /\ 10 * qa <= CostOf(A) + 5 /\ CostOf(A) <= 10 * qa + 5
        /\ qb \in Nat /\ 10 * qb <= CostOf(B) + 5 /\ CostOf(B) <= 10 * qb + 5
        /\ qd \in Nat /\ 10 * qd <= CostOf(D) + 5 /\ CostOf(D) <= 10 * qd + 5
    BY <2>7, HalfAMill
  <2> HIDE DEF qa, qb, qd
  <2>9. 2 * Distance(10 * (qa + qb) + CostOf(C), 10 * qd + CostOf(E)) <= 30
    BY <2>6, <2>7, <2>8 DEF Distance
  <2> QED BY <2>9, Zenon DEF queryCost, qa, qb, qd, A, B, C, D, E
<1> QED BY <1>1, BillingInductive, PTL
=============================================================================
