------------------------------ MODULE Valuation ------------------------------
(***************************************************************************)
(* materials_revalue(): the replay that gives every movement of the        *)
(* materials register its money (migrations/000054).  The quantity rows of *)
(* ra_materials are immutable; the replay walks them in business order,    *)
(* keeps a weighted-average stock per construction site and material, and  *)
(* calculates an amount and a pending flag for each.  It is a pure         *)
(* function of the rows and of the amounts that were stored before it.     *)
(*                                                                         *)
(* Quantities and amounts are numeric(19, 4) in the database.  Here both   *)
(* are integers, an amount counting units of the last decimal place, so    *)
(* that round(x, 4) is rounding to an integer, half away from zero.  The   *)
(* unit cost is kept exact: numeric division keeps 16 digits or more, so   *)
(* it can differ only where the exact result is half a unit.               *)
(***************************************************************************)
EXTENDS Integers, FiniteSets, FiniteSetsExt, Folds

CONSTANT Null          \* SQL NULL

ASSUME NullAssumption == Null \notin Int

-----------------------------------------------------------------------------
(* Rows.  A movement is a record with the fields                           *)
(*   id     - order of insertion (ra_materials.id)                         *)
(*   at     - effective_at                                                 *)
(*   type, rec, item, order                                                *)
(*          - recorder type, recorder id, recorder item id, movement order *)
(*   site, mat, quant                                                      *)
(*   source - the acquisition amount, or Null when the replay derives it.  *)

\* The unique name of a movement; val is keyed by it.
MovementKey(m) == <<m.type, m.rec, m.item, m.order>>

\* The balance a movement belongs to.
Position(m) == <<m.site, m.mat>>

TypeRank(type) ==
    CASE type = "Receipt"     -> 1
      [] type = "Transfer"    -> 2
      [] type = "Consumption" -> 3

\* Mutant: all receipts first, whatever their date.
ReceiptsFirstKey(m) == <<TypeRank(m.type), m.at, m.rec, m.item, m.order, m.id>>

ReplayKey(m) == <<m.at, TypeRank(m.type), m.rec, m.item, m.order, m.id>>

LexLess(a, b) ==
    \E i \in DOMAIN a : a[i] < b[i] /\ \A j \in 1..(i - 1) : a[j] = b[j]

\* The order in which the replay visits movements.
ReplayBefore(a, b) == LexLess(ReplayKey(a), ReplayKey(b))

\* The order in which a receipt pays the shortages it covers.
CoverBefore(a, b) == LexLess(<<a.at, a.id>>, <<b.at, b.id>>)

LastIn(Less(_, _), S) == CHOOSE m \in S : \A k \in S \ {m} : Less(k, m)

\* Fold Step over the rows of L from the first to the last of the order.
FoldInOrder(Less(_, _), Step(_, _), init, L) ==
    MapThenFoldSet(LAMBDA m, state : Step(state, m), init,
                   LAMBDA m : m, LAMBDA S : LastIn(Less, S), L)

-----------------------------------------------------------------------------
(* Running quantities, which no money depends on.                          *)

RunningQuant(L, m) ==
    MapThenSumSet(LAMBDA k : k.quant,
                  {k \in L : Position(k) = Position(m) /\ ~ReplayBefore(m, k)})

\* An outgoing movement after which its balance is below zero.
Overdraws(L, m) == m.quant < 0 /\ RunningQuant(L, m) < 0

NeverNegative(L) == \A m \in L : ~Overdraws(L, m)

-----------------------------------------------------------------------------
(* One replay pass.  The state of a pass is the stock of every position    *)
(* and the work row of every movement visited so far: what is known of its *)
(* amount and, for an outgoing one, the quantity not yet paid for.         *)

RoundDiv(n, d) == (2 * n + d) \div (2 * d)

InitialReplay(L) ==
    [stock |-> [p \in {Position(m) : m \in L} |-> [quant |-> 0, amount |-> 0]],
     work  |-> [k \in {MovementKey(m) : m \in L} |->
                  [known |-> 0, short |-> 0, pending |-> FALSE]]]

\* A transfer arrives with the amount its source movement had after the
\* previous pass; any other movement arrives with its own source amount.
IncomingAmount(L, prev, m) ==
    IF m.type = "Transfer" /\ m.order = 2
    THEN LET sent == prev[<<m.type, m.rec, m.item, 1>>].amount
         IN  IF sent = Null THEN Null ELSE IF sent < 0 THEN -sent ELSE sent
    ELSE m.source

\* An incoming movement whose amount is not known yet: it counts in
\* quantity and leaves the value of the stock unknown.
ReceiveUnvalued(state, m) ==
    [stock |-> [state.stock EXCEPT ![Position(m)] =
                  [quant |-> @.quant + m.quant, amount |-> Null]],
     work  |-> [state.work EXCEPT ![MovementKey(m)].pending = TRUE]]

\* Mutant: a receipt leaves the shortages before it alone.
CoverNothing(L, state, m, amount) ==
    [work |-> state.work, quant |-> m.quant, amount |-> amount, cover |-> m.quant]

\* Shortages of the position of m, paid in order out of what m brings in.
CoverShortages(L, state, m, amount) ==
    LET stock  == state.stock[Position(m)]
        shorts == IF stock.quant >= 0 THEN {}
                  ELSE {k \in L : /\ Position(k) = Position(m)
                                  /\ state.work[MovementKey(k)].short > 0}
        Pay(c, k) ==
          LET w    == c.work[MovementKey(k)]
              take == Min({c.cover, w.short})
              paid == IF take = c.quant THEN c.amount
                      ELSE RoundDiv(take * amount, m.quant)
          IN  IF c.cover <= 0 THEN c
              ELSE [work   |-> [c.work EXCEPT ![MovementKey(k)] =
                                  [known   |-> w.known + paid,
                                   short   |-> w.short - take,
                                   pending |-> w.short > take]],
                    quant  |-> c.quant - take,
                    amount |-> c.amount - paid,
                    cover  |-> c.cover - take]
    IN  FoldInOrder(CoverBefore, Pay,
                    [work |-> state.work, quant |-> m.quant, amount |-> amount,
                     cover |-> Min({m.quant, -stock.quant})],
                    shorts)

ReceiveValued(L, state, m, amount) ==
    LET stock   == state.stock[Position(m)]
        covered == CoverShortages(L, state, m, amount)
        quant   == stock.quant + m.quant
    IN  [stock |-> [state.stock EXCEPT ![Position(m)] =
                      [quant  |-> quant,
                       amount |->
                         CASE quant < 0 -> Null
                           [] quant >= 0 /\ stock.quant < 0 -> Max({covered.amount, 0})
                           [] quant >= 0 /\ stock.quant >= 0 /\ stock.amount = Null -> Null
                           [] OTHER -> stock.amount + amount]],
         work  |-> [covered.work EXCEPT ![MovementKey(m)] =
                      [known |-> amount, short |-> 0, pending |-> FALSE]]]

\* Mutant: the average cost is rounded before it is multiplied.
IssueAtRoundedCost(state, m) ==
    LET stock   == state.stock[Position(m)]
        out     == -m.quant
        covered == IF stock.quant > 0 /\ stock.amount # Null
                   THEN Min({out, stock.quant}) ELSE 0
        known   == IF covered = 0 THEN 0
                   ELSE RoundDiv(stock.amount, stock.quant) * covered
    IN  [stock |-> [state.stock EXCEPT ![Position(m)] =
                      [quant  |-> stock.quant - out,
                       amount |-> IF out > covered THEN Null ELSE stock.amount - known]],
         work  |-> [state.work EXCEPT ![MovementKey(m)] =
                      [known |-> known, short |-> out - covered,
                       pending |-> out > covered]]]

\* An outgoing movement takes the average cost of what the stock covers,
\* the whole remaining amount when it empties the stock, and leaves the
\* rest as a shortage.
Issue(state, m) ==
    LET stock   == state.stock[Position(m)]
        out     == -m.quant
        covered == IF stock.quant > 0 /\ stock.amount # Null
                   THEN Min({out, stock.quant}) ELSE 0
        known   == CASE covered = 0 -> 0
                     [] covered > 0 /\ covered = stock.quant -> stock.amount
                     [] OTHER -> RoundDiv(stock.amount * covered, stock.quant)
    IN  [stock |-> [state.stock EXCEPT ![Position(m)] =
                      [quant  |-> stock.quant - out,
                       amount |-> CASE out > covered -> Null
                                    [] out = covered /\ stock.quant = out -> 0
                                    [] OTHER -> stock.amount - known]],
         work  |-> [state.work EXCEPT ![MovementKey(m)] =
                      [known |-> known, short |-> out - covered,
                       pending |-> out > covered]]]

Visit(L, prev, state, m) ==
    LET amount == IncomingAmount(L, prev, m)
    IN  CASE m.quant > 0 /\ amount = Null -> ReceiveUnvalued(state, m)
          [] m.quant > 0 /\ amount # Null -> ReceiveValued(L, state, m, amount)
          [] m.quant < 0                  -> Issue(state, m)

Replay(L, prev) ==
    FoldInOrder(ReplayBefore, LAMBDA state, m : Visit(L, prev, state, m),
                InitialReplay(L), L)

\* What a pass stores: the amount is signed, and unknown while an outgoing
\* movement is pending.
StoredValue(m, w) ==
    [amount  |-> CASE m.quant > 0 -> w.known
                   [] m.quant < 0 /\ w.pending -> Null
                   [] OTHER -> -w.known,
     pending |-> w.pending]

Pass(L, prev) ==
    LET work == Replay(L, prev).work
        row(k) == CHOOSE m \in L : MovementKey(m) = k
    IN  [k \in {MovementKey(m) : m \in L} |-> StoredValue(row(k), work[k])]

-----------------------------------------------------------------------------
(* The whole replay.  The code stops as soon as a pass changes nothing;    *)
(* a pass is a function of the rows and of the previous amounts, so going  *)
(* on to the last permitted pass stores the same values.                   *)

\* Mutant: one pass is taken for enough.
OnePass(L) == 1

MaxPasses(L) == Max({Cardinality({m \in L : m.type = "Transfer"}) + 1, 2})

Revalued(L, val) ==
    LET after[n \in 0..(MaxPasses(L) - 1)] ==
          IF n = 0 THEN val ELSE Pass(L, after[n - 1])
    IN  Pass(L, after[MaxPasses(L) - 1])

\* The values ra_materials_add_act stores with a new row.
NewValue(m) == [amount |-> m.source, pending |-> m.source = Null /\ m.quant > 0]

NewValues(L) ==
    [k \in {MovementKey(m) : m \in L} |->
       NewValue(CHOOSE m \in L : MovementKey(m) = k)]

-----------------------------------------------------------------------------
(* Balances                                                                *)

QuantOf(S) == MapThenSumSet(LAMBDA m : m.quant, S)

Unvalued(val, m) ==
    val[MovementKey(m)].pending \/ val[MovementKey(m)].amount = Null

AmountOf(S, val) ==
    IF \E m \in S : Unvalued(val, m) THEN Null
    ELSE MapThenSumSet(LAMBDA m : val[MovementKey(m)].amount, S)

\* rg_materials_balance over the rows S: one line per position that is
\* neither empty nor worthless.
Balance(S, val) ==
    LET at(p)    == {m \in S : Position(m) = p}
        line(p)  == [quant |-> QuantOf(at(p)), amount |-> AmountOf(at(p), val)]
    IN  [p \in {q \in {Position(m) : m \in S} : line(q) # [quant |-> 0, amount |-> 0]}
           |-> line(p)]
=============================================================================
