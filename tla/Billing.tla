------------------------------- MODULE Billing -------------------------------
(***************************************************************************)
(* The computations of the billing service: the price calculator, the      *)
(* catalog it should agree with, and the cost query over the seeded rows.  *)
(* Quantities are counted in quarters (of a vCPU, a GiB, ...) and money in *)
(* ticks, a quarter of 10^-7 USD, in which every price and every quantity  *)
(* of the code is whole; the code rounds floats to cents.                  *)
(***************************************************************************)
EXTENDS Integers, Sequences, SequencesExt

CONSTANTS
  Designs,    \* the requests to the calculator: sequences of items
  CostRows,   \* rows of the billing export
  MaxRows     \* bound: rows seeded

\* What an item asks for; quantities a request leaves out are zero.
Item == [service : STRING, machineType : STRING, storageClass : STRING, instances : Nat,
         vcpus : Nat, memoryGiB : Nat, storageGiB : Nat, hoursPerMonth : Nat,
         dailyOnHours : Nat, queriesTiB : Nat, ingestionGiB : Nat, requests : Nat,
         executionSeconds : Nat, taskCount : Nat, taskDurationSeconds : Nat, nodeHours : Nat,
         gpuCount : Nat, inputTokens : Nat, outputTokens : Nat]

\* Costs of rows are in mills, tenths of a cent.
CostRow == [usageStart : Nat, usageEnd : Nat, cost : Nat]

\* A request without items is refused.
ASSUME BillingAssumption ==
  Designs \subseteq Seq(Item) \ {<<>>} /\ CostRows \subseteq CostRow /\ MaxRows \in Nat

VARIABLES
  costs,      \* s.state.Costs
  estimate    \* the calculator's last answer

billingVars == <<costs, estimate>>

Quarters == 4
Cent     == 100000 * Quarters

\* math.Round(f*100)/100, in cents; nothing is negative.
round2(ticks) == (ticks + Cent \div 2) \div Cent

----------------------------------------------------------------------------
(* The catalog seedDefaults installs.  Prices are in 10^-7 USD. *)

sku(name, price, unit) == [sku |-> name, price |-> price, unit |-> unit]

Catalog == {
  sku("N1 vCPU", 316110, "h"),          sku("N1 RAM", 42370, "GiB.h"),
  sku("E2 vCPU", 228000, "h"),          sku("E2 RAM", 30600, "GiB.h"),
  sku("PD", 400000, "GiB.mo"),          sku("SSD PD", 1700000, "GiB.mo"),
  sku("standard", 200000, "GiB.mo"),    sku("nearline", 100000, "GiB.mo"),
  sku("coldline", 40000, "GiB.mo"),     sku("archive", 12000, "GiB.mo"),
  sku("class A", 50000, "1k-ops"),      sku("class B", 4000, "1k-ops"),
  sku("analysis", 50000000, "TiB"),     sku("active", 200000, "GiB.mo"),
  sku("long-term", 100000, "GiB.mo"),   sku("messages", 400000, "GiB"),
  sku("run CPU", 240, "vCPU.s"),        sku("run RAM", 25, "GiB.s"),
  sku("requests", 4000000, "1M-req"),   sku("training", 2200000, "node.h"),
  sku("T4", 3500000, "gpu.h"),          sku("input", 1500, "1k-tokens"),
  sku("output", 6000, "1k-tokens")}

----------------------------------------------------------------------------
(* calculateEstimate: per item, the lines and what they add to the total.   *)
(* An item has every field, zero when the request leaves it out; hours,     *)
(* instances, counts, seconds and tokens are whole, the rest in quarters.   *)

Line(name, price, usage, unit, cost) ==
  [sku |-> name, price |-> price, usage |-> usage, unit |-> unit, cost |-> cost]

\* Added up in the order of the sequence.
Total(seq) ==
  LET sum[i \in 0 .. Len(seq)] == IF i = 0 THEN 0 ELSE sum[i - 1] + seq[i]
  IN  sum[Len(seq)]

When(on, line) == IF on THEN <<line>> ELSE <<>>
Or(x, default) == IF x > 0 THEN x ELSE default

hours(item)     == Or(item.hoursPerMonth, Or(item.dailyOnHours * 30, 730))
instances(item) == Or(item.instances, 1)

\* <<vCPUs, memory>> of the machine types the code knows, in quarters.
Machines == [n1_standard_1 |-> <<4, 15>>, n1_standard_2 |-> <<8, 30>>,
             n1_standard_4 |-> <<16, 60>>, e2_standard_2 |-> <<8, 32>>,
             e2_standard_4 |-> <<16, 64>>, e2_micro |-> <<1, 4>>]

Machine(item) ==
  IF item.machineType \in DOMAIN Machines THEN Machines[item.machineType]
  ELSE <<Or(item.vcpus, 4), Or(item.memoryGiB, 15)>>

Compute(item) ==
  LET cpu  == Machine(item)[1] * instances(item) * hours(item)
      ram  == Machine(item)[2] * instances(item) * hours(item)
      disk == item.storageGiB * instances(item)
  IN  [lines |-> <<Line("N1 vCPU", 316110, cpu, "h", cpu * 316110),
                   Line("N1 RAM", 42370, ram, "GiB.h", ram * 42370)>>
                 \o When(disk > 0, Line("PD", 400000, disk, "GiB.mo", disk * 400000)),
       cost  |-> disk * 400000 + cpu * 316110 + ram * 42370]

RunJobs(item) ==
  LET sec == Or(item.executionSeconds, Or(item.taskCount * item.taskDurationSeconds, 3600))
      cpu == Or(item.vcpus, 4) * instances(item) * sec
      ram == Or(item.memoryGiB, 8) * instances(item) * sec
  IN  [lines |-> <<Line("run CPU", 240, cpu, "vCPU.s", cpu * 240),
                   Line("run RAM", 25, ram, "GiB.s", ram * 25)>>,
       cost  |-> cpu * 240 + ram * 25]

\* Training is charged when the item asks for nodes, vCPUs or GPUs.
Trains(item) == item.nodeHours > 0 \/ item.vcpus > 0 \/ item.gpuCount > 0

nodeHours(item) == Or(item.nodeHours, Or(item.dailyOnHours * 30, hours(item)))

\* Mutant: the GPUs are listed and not added.
VertexCostWithoutGPUs(training, gpu, input, output) == training + input + output

VertexCost(training, gpu, input, output) == training + gpu + input + output

VertexAI(item) ==
  LET nodes  == IF Trains(item) THEN nodeHours(item) * instances(item) * Quarters ELSE 0
      gpus   == item.gpuCount * nodes
      input  == (item.inputTokens * Quarters * 1500) \div 1000
      output == (item.outputTokens * Quarters * 6000) \div 1000
  IN  [lines |-> When(Trains(item), Line("training", 2200000, nodes, "node.h", nodes * 2200000))
                 \o When(gpus > 0, Line("T4", 3500000, gpus, "gpu.h", gpus * 3500000))
                 \o When(input > 0,
                         Line("input", 1500, item.inputTokens * Quarters, "1k-tokens", input))
                 \o When(output > 0,
                         Line("output", 6000, item.outputTokens * Quarters, "1k-tokens", output)),
       cost  |-> VertexCost(nodes * 2200000, gpus * 3500000, input, output)]

\* Mutant: the rates of two storage classes are swapped.
RatesSwapped == [nearline |-> 40000, coldline |-> 100000, archive |-> 12000, standard |-> 200000]

Rates == [nearline |-> 100000, coldline |-> 40000, archive |-> 12000, standard |-> 200000]

Storage(item) ==
  LET class == IF item.storageClass \in DOMAIN Rates THEN item.storageClass ELSE "standard"
      cost  == item.storageGiB * Rates[class]
  IN  [lines |-> <<Line(class, Rates[class], item.storageGiB, "GiB.mo", cost)>>, cost |-> cost]

BigQuery(item) ==
  LET queries == item.queriesTiB * 50000000
      active  == item.storageGiB * 200000
  IN  [lines |-> When(queries > 0, Line("analysis", 50000000, item.queriesTiB, "TiB", queries))
                 \o When(active > 0, Line("active", 200000, item.storageGiB, "GiB.mo", active)),
       cost  |-> queries + active]

PubSub(item) ==
  [lines |-> <<Line("messages", 400000, item.ingestionGiB, "GiB", item.ingestionGiB * 400000)>>,
   cost  |-> item.ingestionGiB * 400000]

\* RequestsCount in millions.
CloudRun(item) ==
  [lines |-> <<Line("requests", 4000000, item.requests, "1M-req", item.requests * 4000000)>>,
   cost  |-> item.requests * 4000000]

Estimated(item) ==
  CASE item.service = "compute"      -> Compute(item)
    [] item.service = "cloudrunjobs" -> RunJobs(item)
    [] item.service = "vertexai"     -> VertexAI(item)
    [] item.service = "gcs"          -> Storage(item)
    [] item.service = "bigquery"     -> BigQuery(item)
    [] item.service = "pubsub"       -> PubSub(item)
    [] item.service = "cloudrun"     -> CloudRun(item)
    [] OTHER                         -> [lines |-> <<>>, cost |-> 0]

NoEstimate == [lines |-> <<>>, monthlyTotal |-> 0]

calculateEstimate(items) ==
  /\ LET answers == [i \in DOMAIN items |-> Estimated(items[i])]
     IN  estimate' = [lines |-> FlattenSeq([i \in DOMAIN items |-> answers[i].lines]),
                      monthlyTotal |-> round2(Total([i \in DOMAIN items |-> answers[i].cost]))]
  /\ UNCHANGED costs

----------------------------------------------------------------------------
(* The cost query.  A day is a number and NoDay a bound left out. *)

NoDay == -1

\* Mutant: the day a row ends on is no longer its own.
CountedBefore(row, start, end) ==
  /\ start # NoDay => row.usageEnd > start
  /\ end # NoDay => row.usageStart < end

\* Whether queryCost counts a row for a window: by its last day and by its first.
Counted(row, start, end) ==
  /\ start # NoDay => row.usageEnd >= start
  /\ end # NoDay => row.usageStart < end

CountedRows(start, end) == {i \in DOMAIN costs : Counted(costs[i], start, end)}

CostOf(places) == Total([i \in DOMAIN costs |-> IF i \in places THEN costs[i].cost ELSE 0])

\* round2 of an amount in mills, in cents.
InCents(mills) == (mills + 5) \div 10

\* The total of a query; that of a group, or of a filter, is the same sum over its rows.
queryCost(start, end) == InCents(CostOf(CountedRows(start, end)))

\* The five rows seedDefaults puts there run from yesterday, here day 1, to today.
Seeded == [i \in 1 .. 5 |-> [usageStart |-> 1, usageEnd |-> 2,
                             cost |-> <<23070, 12370, 4500, 15000, 2400>>[i]]]

seedCost(row) ==
  /\ Len(costs) < Len(Seeded) + MaxRows
  /\ costs' = Append(costs, row)
  /\ UNCHANGED estimate

----------------------------------------------------------------------------
BillingInit == costs = Seeded /\ estimate = NoEstimate

BillingNext ==
  \/ \E items \in Designs : calculateEstimate(items)
  \/ \E row \in CostRows : seedCost(row)

BillingSpec == BillingInit /\ [][BillingNext]_billingVars

----------------------------------------------------------------------------
Distance(a, b) == IF a < b THEN b - a ELSE a - b

(* The total is rounded from the sum of the unrounded costs, each line by   *)
(* itself: they differ by half a cent for each line and the total, and no   *)
(* cost is listed without being added or added without being listed.        *)
TotalIsTheLines ==
  2 * Distance(estimate.monthlyTotal,
               Total([i \in DOMAIN estimate.lines |-> round2(estimate.lines[i].cost)]))
    <= Len(estimate.lines) + 1

(* The calculator spells out prices the catalog has as well: every line has *)
(* the price and the unit of its SKU in the catalog.                        *)
PricesAreTheCatalogs ==
  \A i \in DOMAIN estimate.lines :
    LET l == estimate.lines[i] IN sku(l.sku, l.price, l.unit) \in Catalog

Days == UNION {costs[i].usageStart - 1 .. costs[i].usageEnd + 1 : i \in DOMAIN costs}

\* Rows that go over a cut, and rows a window counts that end before it and start after.
Over(cut) == {i \in DOMAIN costs : costs[i].usageStart < cut /\ cut <= costs[i].usageEnd}
Backward(start, cut, end) ==
  {i \in CountedRows(start, end) : costs[i].usageEnd < cut /\ cut <= costs[i].usageStart}

(* A window, open or closed, cut in two at any day: the totals of the two   *)
(* queries are the total of the one and, once more, the cost of every row   *)
(* that starts before the cut and ends on or after it, and of no other row. *)
(* Nothing is lost but a row that ends, as no export has it, before it      *)
(* starts.  Each total may be off by half a cent, for its rounding.         *)
(* This is not what "YYYY-MM-DD inclusive" and "exclusive" (billing.go:     *)
(* 496-497) and the "[start,end) window" of docs/specs/                     *)
(* 2026-07-22-billing-time-travel-plan.md:24-25 suggest, by which the parts *)
(* would add up: every row the server seeds is counted twice when the cut   *)
(* is the day it ends.                                                      *)
CutsCountRowsOverThemTwice ==
  \A cut \in Days \ {NoDay}, from, to \in Days \cup {NoDay} :
    (from = NoDay \/ from < cut) /\ (to = NoDay \/ cut < to) =>
      2 * Distance(10 * (queryCost(from, cut) + queryCost(cut, to))
                     + CostOf(Backward(from, cut, to)),
                   10 * queryCost(from, to) + CostOf(Over(cut))) <= 30

(* A line costs its usage at its unit price, to the cent: "1,000 k-tokens   *)
(* (1M tokens)" (billing_test.go:49) are 1000 units of "1k-tokens".         *)
CostIsUsageAtPrice ==
  \A i \in DOMAIN estimate.lines :
    LET l == estimate.lines[i] IN round2(l.cost) = round2(l.usage * l.price)
=============================================================================
