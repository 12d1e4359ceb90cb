--------------------------- MODULE AccountingPeriods ---------------------------
(***************************************************************************)
(* What MaterialRegister and RegisterTransactions share of the state: the  *)
(* values stored with the rows of the register, the settings row with the  *)
(* cutoff, and the closures, with the guard that every statement on a      *)
(* document or a row passes (migrations/000054).                           *)
(***************************************************************************)
EXTENDS Valuation, Sequences

CONSTANT DayOf            \* the business day of an instant

VARIABLES val,            \* ra_materials: amount and amount_pending of each
          allowNegative,  \* materials_allow_negative_open_period
          closedThrough,  \* materials_closed_through, Null when all is open
          closures        \* material_valuation_closures, oldest first

\* Mutant: the last closed day counts as open.
OpenFromCutoff(at) == closedThrough # Null => DayOf[at] >= closedThrough

\* materials_assert_open_date
OpenDate(at) == closedThrough # Null => DayOf[at] > closedThrough

OnOrBefore(L, day) == {m \in L : DayOf[m.at] <= day}

\* The closures not reopened yet.
ActiveClosures == {i \in DOMAIN closures : ~closures[i].reopened}

KeysOf(L) == {MovementKey(m) : m \in L}
=============================================================================
