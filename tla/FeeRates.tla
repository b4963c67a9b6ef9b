------------------------------ MODULE FeeRates ------------------------------
(***************************************************************************)
(* Where the percentages come from (feeConfigService and the rate cache of *)
(* bookNowGstService).  SystemConfig holds a fee structure, the table      *)
(* CategoryFeeConfig overrides it by category and mode, and each instance  *)
(* of the service keeps the structure and the GST rates it loaded for TTL  *)
(* minutes.  Time is the minutes left until a service starts.              *)
(***************************************************************************)
EXTENDS Fees, FiniteSets, FiniteSetsExt

CONSTANTS
  Instances,     \* running copies of the service
  LookupKeys,    \* [category -> the row keys tried for it, in order]
  Forced18,      \* the categories taxed 18% whatever their row says
  DEFAULT,       \* the fee structure of the environment
  Structures,    \* the structures SystemConfig may be given
  CategoryRows,  \* the rows an administrator may write
  FirstRows,     \* the tables of rows a run starts from
  TTL,           \* minutes a cached value is served
  Moments,       \* the minutes left at which something happens
  MaxChanges,    \* bound: changes of the configuration
  Failures       \* "dbDown": a query for a percentage may fail

VARIABLES
  left,      \* minutes left until the service starts
  stored,    \* the structure in SystemConfig, a set of at most one
  rows,      \* the rows of CategoryFeeConfig
  cache,     \* [Instances -> the structure it keeps, a set of at most one]
  gstCache,  \* [Instances -> the GST rates it keeps]
  changes,   \* configuration changes so far
  changed    \* when the configuration last changed, or a query last failed

rateVars == <<left, stored, rows, cache, gstCache, changes, changed>>

Unset == -1
Failed == -2
FALLBACK_GST == 1800
LongAgo == 2 * (Max(Moments) + TTL)
Categories == DOMAIN LookupKeys

\* Percentages of at most 100%, the parts of a cancellation fee adding up to it.
Percent == 0 .. Whole
FeeStructures ==
  {s \in [platform: Percent, gst: Percent, toOtherParty: Percent, toPlatform: Percent]:
     s.toOtherParty + s.toPlatform = Whole}
FeeRows(keys) ==
  [key: keys, mode: {"BIDDING", "BOOK_NOW"}, platform: Percent \cup {Unset},
   gst: Percent \cup {Unset}, active: BOOLEAN]
RowNames(table) == {<<r.key, r.mode>>: r \in table}

ASSUME FeeRatesAssumption ==
  /\ "default" \in Categories
  /\ DEFAULT \in FeeStructures /\ Structures \subseteq FeeStructures
  /\ CategoryRows \subseteq FeeRows({r.key: r \in CategoryRows})
  /\ \A table \in FirstRows:
       table \subseteq FeeRows({r.key: r \in CategoryRows})
         /\ RowNames(table) \subseteq RowNames(CategoryRows)
  /\ TTL \in Nat \ {0} /\ MaxChanges \in Nat
  /\ IsFiniteSet(Moments) /\ Moments # {} /\ Moments \subseteq Nat

RatesInit ==
  /\ left = Max(Moments)
  /\ stored \in {{}} \cup {{s}: s \in Structures}
  /\ rows \in FirstRows
  /\ cache = [i \in Instances |-> {}]
  /\ gstCache = [i \in Instances |-> {}]
  /\ changes = 0
  /\ changed = LongAgo

\* Wrong on purpose: a value is served one moment too long.
X_Kept(entry) == entry.at - left <= TTL

Kept(entry) == entry.at - left < TTL

-----------------------------------------------------------------------------
(* The fee structure, by category for bidding tasks.                       *)

StoredStructure == IF stored = {} THEN DEFAULT ELSE CHOOSE s \in stored: TRUE

\* A request at instance i is served structure s: the kept one, or a load.
\* A failed load keeps the default like a loaded structure.
getFeeStructure(i, s, down) ==
  LET kept == {e \in cache[i]: Kept(e)} IN
  IF kept # {}
  THEN s = (CHOOSE e \in kept: TRUE).value /\ UNCHANGED cache
  ELSE /\ s = IF down THEN DEFAULT ELSE StoredStructure
       /\ cache' = [cache EXCEPT ![i] = {[value |-> s, at |-> left]}]

RowsAt(key, mode) == {r \in rows: r.key = key /\ r.mode = mode}
ActiveAt(key, mode) == {r \in RowsAt(key, mode): r.active}
CategoryRow(category, mode) ==
  LET keys == LookupKeys[category]
      hits == {n \in DOMAIN keys: ActiveAt(keys[n], mode) # {}}
  IN IF hits # {} THEN RowsAt(keys[Min(hits)], mode) ELSE RowsAt("default", mode)

getFeeStructureForCategory(base, category, mode, down) ==
  LET found == CategoryRow(category, mode)
      row == CHOOSE r \in found: TRUE
  IN IF down \/ found = {} THEN base
     ELSE [base EXCEPT
             !.platform = IF row.platform = Unset THEN @ ELSE row.platform,
             !.gst = IF category \in Forced18 THEN 1800
                     ELSE IF row.gst = Unset THEN @ ELSE row.gst]

-----------------------------------------------------------------------------
(* The GST rate of a Book Now category.                                    *)

RateAt(key) ==
  LET set(mode) == {r \in ActiveAt(key, mode): r.gst # Unset} IN
  IF set("BOOK_NOW") # {} THEN (CHOOSE r \in set("BOOK_NOW"): TRUE).gst
  ELSE IF set("BIDDING") # {} THEN (CHOOSE r \in set("BIDDING"): TRUE).gst
  ELSE Unset

queryGstPercentageForCategory(category) ==
  LET keys == LookupKeys[category]
      hits == {n \in DOMAIN keys: RateAt(keys[n]) # Unset}
      default == RowsAt("default", "BOOK_NOW")
  IN IF hits # {} THEN RateAt(keys[Min(hits)])
     ELSE IF category # "default" /\ default # {}
     THEN (CHOOSE r \in default: TRUE).gst ELSE Unset

\* What instance i answers for a category, and the entries of it kept
\* afterwards.  A failed query falls back on a kept rate of any age.
loadGstPercentageForCategory(i, category, down) ==
  LET old == {e \in gstCache[i]: e.key = category}
      entry == CHOOSE e \in old: TRUE
      rate == queryGstPercentageForCategory(category)
  IN IF old # {} /\ (Kept(entry) \/ down) THEN [rate |-> entry.rate, kept |-> old]
     ELSE IF down THEN [rate |-> Failed, kept |-> old]
     ELSE [rate |-> rate, kept |-> {[key |-> category, rate |-> rate, at |-> left]}]

\* A category without a rate has the rate of "default".
AsksDefault(i, category, down) ==
  category # "default" /\ loadGstPercentageForCategory(i, category, down).rate = Unset

resolveBookNowGstPercentage(i, category, down) ==
  LET asked == IF AsksDefault(i, category, down) THEN "default" ELSE category
      found == loadGstPercentageForCategory(i, asked, down).rate
  IN IF found \in {Unset, Failed} THEN FALLBACK_GST ELSE found

\* What instance i keeps after the rates of some categories were asked for, in
\* any order: a load touches the entry of its own category only.
KeptAfter(i, categories, down) ==
  LET defaults == IF \E c \in categories: AsksDefault(i, c, down) THEN {"default"} ELSE {}
      asked == categories \cup defaults
  IN {e \in gstCache[i]: e.key \notin asked}
       \cup UNION {loadGstPercentageForCategory(i, c, down).kept: c \in asked}

-----------------------------------------------------------------------------
(* Changes of the configuration, and of time.                              *)

\* An operator writes SystemConfig in the database: no instance is told.
StoreStructure(s) ==
  /\ changes < MaxChanges /\ stored # {s}
  /\ stored' = {s} /\ changes' = changes + 1 /\ changed' = left
  /\ UNCHANGED <<left, rows, cache, gstCache>>

\* The instance that changes a row drops its own structure; the GST rates stay.
ChangeRows(i, new) ==
  /\ changes < MaxChanges /\ rows' = new
  /\ cache' = [cache EXCEPT ![i] = {}]
  /\ changes' = changes + 1 /\ changed' = left
  /\ UNCHANGED <<left, stored, gstCache>>

\* A percentage left out of an update keeps its value in a row that exists.
upsertCategoryFeeConfig(i, r) ==
  LET old == RowsAt(r.key, r.mode)
      kept == IF old = {} THEN r ELSE CHOOSE o \in old: TRUE
      row == [r EXCEPT !.platform = IF @ = Unset THEN kept.platform ELSE @,
                       !.gst = IF @ = Unset THEN kept.gst ELSE @]
  IN row \notin rows /\ ChangeRows(i, (rows \ old) \cup {row})

deleteCategoryFeeConfig(i, r) ==
  /\ r \in rows /\ r.key # "default"
  /\ ChangeRows(i, rows \ {r})

Pass ==
  LET later == {m \in Moments: m < left} IN
  /\ later # {} /\ left' = Max(later)
  /\ UNCHANGED <<stored, rows, cache, gstCache, changes, changed>>

ConfigurationChanges ==
  \/ \E s \in Structures: StoreStructure(s)
  \/ \E i \in Instances, r \in CategoryRows:
       upsertCategoryFeeConfig(i, r) \/ deleteCategoryFeeConfig(i, r)

\* A request that asked for percentages while queries fail, or not.
Down == IF "dbDown" \in Failures THEN BOOLEAN ELSE {FALSE}
Noticed(down) == changed' = IF down THEN left ELSE changed

RatesTypeOK ==
  /\ left \in Moments
  /\ Cardinality(stored) <= 1 /\ stored \subseteq Structures
  /\ RowNames(rows) \subseteq RowNames(CategoryRows)
  /\ \A i \in Instances:
       /\ cache[i] \subseteq [value: Structures \cup {DEFAULT}, at: Moments]
       /\ \A e \in gstCache[i]: e.key \in Categories /\ e.at \in Moments
  /\ changes \in 0 .. MaxChanges
  /\ changed \in Moments \cup {LongAgo}

\* Once the configuration has stood for TTL minutes every instance serves it:
\* a structure or a rate still kept is the one a load would bring.
RatesSettle ==
  \/ changed - left < TTL
  \/ \A i \in Instances:
       /\ \A e \in cache[i]: Kept(e) => e.value = StoredStructure
       /\ \A e \in gstCache[i]:
            Kept(e) => e.rate = queryGstPercentageForCategory(e.key)
=============================================================================
