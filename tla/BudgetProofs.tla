------------------------- MODULE BudgetProofs ----------------------------
(***************************************************************************)
(* What the token and cost ledgers keep for any agents, scopes, estimates, *)
(* reports and limits.                                                     *)
(*                                                                         *)
(* The bound on spending (Inv) needs no sums over the reservations:        *)
(* a reservation fits into what remains, a bill adds to the spending what  *)
(* it takes from the reservations plus its excess, and everything else     *)
(* moves the limit and the spending together.  That no balance becomes     *)
(* negative does (LedgerInv): the balances are the sums of the             *)
(* reservations behind them, and a step changes one term of them.          *)
(***************************************************************************)
EXTENDS Budgets, FiniteSetTheorems, TLAPS

-----------------------------------------------------------------------------
(* Sums over finite sets: what the balances are made of. *)

(* The recursion of the fold, which takes the elements in some order.      *)
Adds(f, S, iter) ==
  iter = [s \in SUBSET S |->
            IF s = {} THEN 0
            ELSE LET x == CHOOSE x \in s : TRUE IN f[x] + iter[s \ {x}]]

LEMMA SumIsUnique ==
  ASSUME NEW f, NEW S, NEW h, Adds(f, S, h), \A g : Adds(f, S, g) => g[S] = h[S]
  PROVE  SumFunctionOnSet(f, S) = h[S]
BY DEF SumFunctionOnSet, FoldFunctionOnSet, MapThenFoldSet, Adds

(* Of some finite sets, one is no longer among them with any element less. *)
LEMMA SmallestSet ==
  ASSUME NEW T, T # {}, \A s \in T : IsFiniteSet(s)
  PROVE  \E s \in T : \A x \in s : s \ {x} \notin T
<1> DEFINE U == UNION T
<1>1. T \subseteq FiniteSubsetsOf(U)
  BY DEF FiniteSubsetsOf
<1> HIDE DEF U
<1>2. PICK s \in T : \A r \in T : <<r, s>> \notin StrictSubsetOrdering(U)
  BY <1>1, FS_StrictSubsetOrderingWellFounded, WFMin
<1>3. ASSUME NEW x \in s, s \ {x} \in T
      PROVE  FALSE
  <2>1. s \in SUBSET U /\ s \ {x} \in SUBSET U
    BY <1>1, <1>3 DEF FiniteSubsetsOf
  <2>2. <<s \ {x}, s>> \in StrictSubsetOrdering(U)
    BY <2>1 DEF StrictSubsetOrdering
  <2> QED
    BY <1>2, <1>3, <2>2
<1> QED
  BY <1>3

(* A sum does not depend on the order in which its parts are taken.        *)
Sums(f, D, n, h) ==
  /\ h \in [SUBSET D -> Int]
  /\ h[{}] = 0
  /\ \A s \in SUBSET D : Cardinality(s) <= n => \A x \in s : h[s] = f[x] + h[s \ {x}]

LEMMA OneMore ==
  ASSUME NEW D, IsFiniteSet(D), NEW f, \A x \in D : f[x] \in Int,
         NEW n \in Nat, \E h : Sums(f, D, n, h)
  PROVE  \E h : Sums(f, D, n + 1, h)
<1>1. PICK g : Sums(f, D, n, g)
  OBVIOUS
<1> DEFINE Pick(s) == CHOOSE x \in s : TRUE
           h == [s \in SUBSET D |-> IF Cardinality(s) <= n \/ s = {} THEN g[s]
                                    ELSE f[Pick(s)] + g[s \ {Pick(s)}]]
<1>2. \A s \in SUBSET D : s # {} => Pick(s) \in s
  OBVIOUS
<1>3. \A s \in SUBSET D : \A x \in s :
        /\ IsFiniteSet(s) /\ Cardinality(s) \in Nat
        /\ Cardinality(s \ {x}) = Cardinality(s) - 1
  BY FS_Subset, FS_CardinalityType, FS_RemoveElement
<1> HIDE DEF Pick
<1>4. h \in [SUBSET D -> Int]
  <2> SUFFICES ASSUME NEW s \in SUBSET D, s # {} PROVE f[Pick(s)] + g[s \ {Pick(s)}] \in Int
    BY <1>1 DEF Sums
  <2>1. Pick(s) \in D /\ s \ {Pick(s)} \in SUBSET D
    BY <1>2
  <2> QED
    BY <1>1, <2>1 DEF Sums
<1>5. h[{}] = 0
  BY <1>1 DEF Sums
<1>6. ASSUME NEW s \in SUBSET D, Cardinality(s) <= n + 1, NEW x \in s
      PROVE  h[s] = f[x] + h[s \ {x}]
  <2>1. h[s \ {x}] = g[s \ {x}] /\ s \ {x} \in SUBSET D
    BY <1>3, <1>6
  <2>2. CASE Cardinality(s) <= n
    BY <1>1, <2>1, <2>2 DEF Sums
  <2>3. CASE ~(Cardinality(s) <= n)
    <3> DEFINE y == Pick(s)
    <3>1. y \in s /\ h[s] = f[y] + g[s \ {y}]
      BY <1>2, <2>3
    <3> HIDE DEF y, h
    <3>2. CASE y = x
      BY <2>1, <3>1, <3>2
    <3>3. CASE y # x
      <4> DEFINE r == s \ {x, y}
      <4>1. /\ (s \ {y}) \ {x} = r /\ (s \ {x}) \ {y} = r /\ r \in SUBSET D
            /\ x \in s \ {y} /\ y \in s \ {x} /\ s \ {y} \in SUBSET D
        BY <3>1, <3>3
      <4>2. Cardinality(s \ {y}) <= n /\ Cardinality(s \ {x}) <= n
        BY <1>3, <1>6, <3>1
      <4> HIDE DEF r
      <4>3. g[s \ {y}] = f[x] + g[r] /\ g[s \ {x}] = f[y] + g[r]
        BY <1>1, <2>1, <4>1, <4>2 DEF Sums
      <4>4. g[r] \in Int /\ f[x] \in Int /\ f[y] \in Int
        BY <1>1, <3>1, <4>1 DEF Sums
      <4> QED
        BY <2>1, <3>1, <4>3, <4>4
    <3> QED
      BY <3>2, <3>3
  <2> QED
    BY <2>2, <2>3
<1> HIDE DEF h
<1>7. Sums(f, D, n + 1, h)
  BY <1>4, <1>5, <1>6 DEF Sums
<1> QED
  BY <1>7

LEMMA SumsExist ==
  ASSUME NEW D, IsFiniteSet(D), NEW f, \A x \in D : f[x] \in Int, NEW n \in Nat
  PROVE  \E h : Sums(f, D, n, h)
<1> DEFINE Missing == {m \in Nat : ~\E h : Sums(f, D, m, h)}
<1>1. CASE Missing = {}
  BY <1>1
<1>2. CASE Missing # {}
  <2>1. PICK m \in Missing : m - 1 \notin Missing
    <3> DEFINE T == {0 .. k : k \in Missing}
    <3>1. \A s \in T : IsFiniteSet(s)
      BY FS_Interval
    <3>2. T # {}
      BY <1>2
    <3>3. PICK s \in T : \A x \in s : s \ {x} \notin T
      <4> HIDE DEF T
      <4> QED
        BY <3>1, <3>2, SmallestSet
    <3>4. PICK k \in Missing : s = 0 .. k
      BY <3>3
    <3>5. k \in Nat /\ (0 .. k) \ {k} = 0 .. (k - 1) /\ k \in 0 .. k
      BY <3>4
    <3>6. k - 1 \notin Missing
      BY <3>3, <3>4, <3>5
    <3> QED
      BY <3>4, <3>5, <3>6
  <2>2. CASE m = 0
    <3> DEFINE h == [s \in SUBSET D |-> 0]
    <3>1. \A s \in SUBSET D : Cardinality(s) <= 0 => s = {}
      BY FS_Subset, FS_CardinalityType, FS_EmptySet
    <3>2. Sums(f, D, 0, h)
      BY <3>1 DEF Sums
    <3> QED
      BY <2>1, <2>2, <3>2
  <2>3. CASE m # 0
    <3>1. m - 1 \in Nat /\ m - 1 \notin Missing /\ m = (m - 1) + 1
      BY <2>1, <2>3
    <3>2. \E h : Sums(f, D, m - 1, h)
      BY <3>1
    <3> HIDE DEF Missing
    <3>3. \E h : Sums(f, D, (m - 1) + 1, h)
      BY <3>1, <3>2, OneMore
    <3> QED
      BY <2>1, <3>1, <3>3 DEF Missing
  <2> QED
    BY <2>2, <2>3
<1> QED
  BY <1>1, <1>2

Totals(f, D, h) ==
  /\ h \in [SUBSET D -> Int]
  /\ h[{}] = 0
  /\ \A s \in SUBSET D : \A x \in s : h[s] = f[x] + h[s \ {x}]
  /\ \A s \in SUBSET D : SumFunctionOnSet(f, s) = h[s]

LEMMA SumsAreTotals ==
  ASSUME NEW D, IsFiniteSet(D), NEW f, \A x \in D : f[x] \in Int
  PROVE  \E h : Totals(f, D, h)
<1>1. \A s \in SUBSET D : IsFiniteSet(s) /\ Cardinality(s) <= Cardinality(D)
  BY FS_Subset
<1>2. PICK h : Sums(f, D, Cardinality(D), h)
  BY SumsExist, FS_CardinalityType
<1>3. /\ h \in [SUBSET D -> Int] /\ h[{}] = 0
      /\ \A s \in SUBSET D : \A x \in s : h[s] = f[x] + h[s \ {x}]
  BY <1>1, <1>2 DEF Sums
<1>4. ASSUME NEW S \in SUBSET D
      PROVE  SumFunctionOnSet(f, S) = h[S]
  <2> DEFINE k == [s \in SUBSET S |-> h[s]]
  <2>1. Adds(f, S, k)
    <3>1. ASSUME NEW s \in SUBSET S
          PROVE  k[s] = IF s = {} THEN 0
                        ELSE LET x == CHOOSE x \in s : TRUE IN f[x] + k[s \ {x}]
      BY <1>3
    <3> QED
      BY <3>1 DEF Adds
  <2>2. ASSUME NEW g, Adds(f, S, g)
        PROVE  g[S] = k[S]
    <3> DEFINE T == {s \in SUBSET S : g[s] # h[s]}
    <3>1. CASE T = {}
      BY <3>1
    <3>2. CASE T # {}
      <4>1. \A s \in T : IsFiniteSet(s)
        BY <1>1
      <4>2. PICK s \in T : \A x \in s : s \ {x} \notin T
        <5> HIDE DEF T
        <5> QED
          BY <3>2, <4>1, SmallestSet
      <4>3. s \in SUBSET S /\ g[s] # h[s] /\ \A x \in s : g[s \ {x}] = h[s \ {x}]
        BY <4>2
      <4>4. g[s] = IF s = {} THEN 0
                   ELSE LET x == CHOOSE x \in s : TRUE IN f[x] + g[s \ {x}]
        BY <2>2, <4>3 DEF Adds
      <4> QED
        BY <1>3, <4>3, <4>4
    <3> QED
      BY <3>1, <3>2
  <2> HIDE DEF k
  <2>3. SumFunctionOnSet(f, S) = k[S]
    BY <2>1, <2>2, SumIsUnique
  <2> QED
    BY <2>3 DEF k
<1> QED
  BY <1>3, <1>4 DEF Totals

(* The sum over nothing, and the sum with an element taken out.            *)
LEMMA SumOfNone == ASSUME NEW f PROVE SumFunctionOnSet(f, {}) = 0
<1>1. IsFiniteSet({}) /\ \A x \in {} : f[x] \in Int
  BY FS_EmptySet
<1>2. PICK h : Totals(f, {}, h)
  BY <1>1, SumsAreTotals
<1> QED
  BY <1>2 DEF Totals

LEMMA SumTakeOut ==
  ASSUME NEW S, IsFiniteSet(S), NEW f, \A y \in S : f[y] \in Int, NEW x \in S
  PROVE  /\ SumFunctionOnSet(f, S) = f[x] + SumFunctionOnSet(f, S \ {x})
         /\ SumFunctionOnSet(f, S) \in Int /\ SumFunctionOnSet(f, S \ {x}) \in Int
<1>1. PICK h : Totals(f, S, h)
  BY SumsAreTotals
<1>2. S \in SUBSET S /\ S \ {x} \in SUBSET S
  OBVIOUS
<1>3. h[S] \in Int /\ h[S \ {x}] \in Int /\ h[S] = f[x] + h[S \ {x}]
  BY <1>1, <1>2 DEF Totals
<1>4. SumFunctionOnSet(f, S) = h[S] /\ SumFunctionOnSet(f, S \ {x}) = h[S \ {x}]
  BY <1>1, <1>2 DEF Totals
<1> QED
  BY <1>3, <1>4

LEMMA SumIsInt ==
  ASSUME NEW S, IsFiniteSet(S), NEW f, \A y \in S : f[y] \in Int
  PROVE  SumFunctionOnSet(f, S) \in Int
<1>1. PICK h : Totals(f, S, h)
  BY SumsAreTotals
<1>2. S \in SUBSET S
  OBVIOUS
<1> QED
  BY <1>1, <1>2 DEF Totals

(* The sum depends only on the parts.                                      *)
LEMMA SumOfSame ==
  ASSUME NEW S, IsFiniteSet(S), NEW f, \A y \in S : f[y] \in Int,
         NEW g, \A y \in S : g[y] = f[y]
  PROVE  SumFunctionOnSet(g, S) = SumFunctionOnSet(f, S)
<1> DEFINE T == {s \in SUBSET S : SumFunctionOnSet(g, s) # SumFunctionOnSet(f, s)}
<1>1. CASE T = {}
  BY <1>1
<1>2. CASE T # {}
  <2>1. \A s \in SUBSET S : IsFiniteSet(s)
    BY FS_Subset
  <2>2. PICK s \in T : \A x \in s : s \ {x} \notin T
    <3>1. \A s \in T : IsFiniteSet(s)
      BY <2>1
    <3> HIDE DEF T
    <3> QED
      BY <1>2, <3>1, SmallestSet
  <2>3. CASE s = {}
    BY <2>2, <2>3, SumOfNone
  <2>4. CASE s # {}
    <3>1. PICK x \in s : TRUE
      BY <2>4
    <3>2. SumFunctionOnSet(g, s \ {x}) = SumFunctionOnSet(f, s \ {x})
      BY <2>2, <3>1
    <3>3. SumFunctionOnSet(g, s) = g[x] + SumFunctionOnSet(g, s \ {x})
      <4>1. IsFiniteSet(s) /\ \A y \in s : g[y] \in Int
        BY <2>1, <2>2
      <4> QED
        BY <4>1, <3>1, SumTakeOut
    <3>4. SumFunctionOnSet(f, s) = f[x] + SumFunctionOnSet(f, s \ {x})
      <4>1. IsFiniteSet(s) /\ \A y \in s : f[y] \in Int
        BY <2>1, <2>2
      <4> QED
        BY <4>1, <3>1, SumTakeOut
    <3> QED
      BY <2>2, <3>1, <3>2, <3>3, <3>4
  <2> QED
    BY <2>3, <2>4
<1> QED
  BY <1>1, <1>2

LEMMA SumIsNat ==
  ASSUME NEW S, IsFiniteSet(S), NEW f, \A y \in S : f[y] \in Nat
  PROVE  SumFunctionOnSet(f, S) \in Nat
<1> DEFINE T == {s \in SUBSET S : SumFunctionOnSet(f, s) \notin Nat}
<1>1. CASE T = {}
  BY <1>1
<1>2. CASE T # {}
  <2>1. \A s \in SUBSET S : IsFiniteSet(s)
    BY FS_Subset
  <2>2. PICK s \in T : \A x \in s : s \ {x} \notin T
    <3>1. \A s \in T : IsFiniteSet(s)
      BY <2>1
    <3> HIDE DEF T
    <3> QED
      BY <1>2, <3>1, SmallestSet
  <2>3. CASE s = {}
    BY <2>2, <2>3, SumOfNone
  <2>4. CASE s # {}
    <3>1. PICK x \in s : TRUE
      BY <2>4
    <3>2. SumFunctionOnSet(f, s \ {x}) \in Nat
      BY <2>2, <3>1
    <3>3. SumFunctionOnSet(f, s) = f[x] + SumFunctionOnSet(f, s \ {x})
      BY <2>1, <2>2, <3>1, SumTakeOut
    <3> QED
      BY <2>2, <3>1, <3>2, <3>3
  <2> QED
    BY <2>3, <2>4
<1> QED
  BY <1>1, <1>2

(* Two sums that differ in one element at most.                            *)
At(f, S, x) == IF x \in S THEN f[x] ELSE 0

Differ(f, S, g, T, x) ==
  /\ IsFiniteSet(S) /\ \A y \in S : f[y] \in Int
  /\ IsFiniteSet(T) /\ \A y \in T : g[y] \in Int
  /\ S \ {x} = T \ {x} /\ \A y \in S \ {x} : g[y] = f[y]

LEMMA SumChanges ==
  ASSUME NEW f, NEW S, NEW g, NEW T, NEW x, Differ(f, S, g, T, x)
  PROVE  /\ SumFunctionOnSet(g, T) = SumFunctionOnSet(f, S) - At(f, S, x) + At(g, T, x)
         /\ SumFunctionOnSet(f, S) \in Int
<1> DEFINE R == S \ {x}
           rest == SumFunctionOnSet(f, R)
<1> USE DEF Differ
<1>1. IsFiniteSet(R) /\ \A y \in R : f[y] \in Int /\ g[y] = f[y]
  BY FS_Subset
<1> HIDE DEF R
<1>2. SumFunctionOnSet(g, R) = rest /\ rest \in Int
  BY <1>1, SumOfSame, SumIsInt
<1>3. SumFunctionOnSet(f, S) = rest + At(f, S, x) /\ SumFunctionOnSet(f, S) \in Int
  <2>1. CASE x \in S
    <3>1. SumFunctionOnSet(f, S) = f[x] + SumFunctionOnSet(f, S \ {x})
      BY <2>1, SumTakeOut
    <3> QED
      BY <1>2, <2>1, <3>1 DEF At, R
  <2>2. CASE x \notin S
    <3>1. R = S
      BY <2>2 DEF R
    <3> QED
      BY <1>2, <2>2, <3>1 DEF At
  <2> QED
    BY <2>1, <2>2
<1>4. SumFunctionOnSet(g, T) = rest + At(g, T, x)
  <2>1. CASE x \in T
    <3>1. SumFunctionOnSet(g, T) = g[x] + SumFunctionOnSet(g, T \ {x})
      BY <2>1, SumTakeOut
    <3>2. T \ {x} = R /\ g[x] \in Int
      BY <2>1 DEF R
    <3>3. SumFunctionOnSet(g, T) = g[x] + rest
      BY <1>2, <3>1, <3>2
    <3> HIDE DEF rest
    <3> QED
      BY <1>2, <2>1, <3>2, <3>3 DEF At
  <2>2. CASE x \notin T
    <3>1. R = T
      BY <2>2 DEF R
    <3> QED
      BY <1>2, <2>2, <3>1 DEF At
  <2> QED
    BY <2>1, <2>2
<1>5. At(f, S, x) \in Int
  BY DEF At
<1> HIDE DEF rest
<1> QED
  BY <1>2, <1>3, <1>4, <1>5

(* The image of a finite set is finite.                                    *)
LEMMA FiniteImage ==
  ASSUME NEW S, IsFiniteSet(S), NEW e
  PROVE  IsFiniteSet({e[y] : y \in S})
<1> DEFINE T == {e[y] : y \in S}
           f == [y \in S |-> e[y]]
<1>1. f \in Surjection(S, T)
  BY DEF Surjection
<1> HIDE DEF f, T
<1>2. IsFiniteSet(T)
  BY <1>1, FS_Surjection
<1> QED
  BY <1>2 DEF T

(* The parts of a sum under other names.                                   *)
Renames(e, S, f, g) ==
  /\ IsFiniteSet(S) /\ \A y \in S : f[y] \in Int
  /\ \A y, z \in S : e[y] = e[z] => y = z
  /\ \A y \in S : g[e[y]] = f[y]

LEMMA SumRenamed ==
  ASSUME NEW e, NEW S, NEW f, NEW g, Renames(e, S, f, g)
  PROVE  SumFunctionOnSet(g, {e[y] : y \in S}) = SumFunctionOnSet(f, S)
<1> USE DEF Renames
<1> DEFINE Image(s) == {e[y] : y \in s}
           T == {s \in SUBSET S : SumFunctionOnSet(g, Image(s)) # SumFunctionOnSet(f, s)}
<1>1. CASE T = {}
  <2>1. S \in SUBSET S
    OBVIOUS
  <2> QED
    BY <1>1, <2>1
<1>2. CASE T # {}
  <2>1. ASSUME NEW s \in SUBSET S PROVE IsFiniteSet(s) /\ IsFiniteSet(Image(s))
    <3>1. IsFiniteSet(s)
      BY FS_Subset
    <3> QED
      BY <3>1, FiniteImage
  <2>2. PICK s \in T : \A x \in s : s \ {x} \notin T
    <3>1. \A s \in T : IsFiniteSet(s)
      BY <2>1
    <3> HIDE DEF T
    <3> QED
      BY <1>2, <3>1, SmallestSet
  <2>3. CASE s = {}
    <3>1. Image(s) = {}
      BY <2>3
    <3> QED
      BY <2>2, <2>3, <3>1, SumOfNone
  <2>4. CASE s # {}
    <3>1. PICK x \in s : TRUE
      BY <2>4
    <3>2. s \ {x} \in SUBSET S /\ s \in SUBSET S
      BY <2>2
    <3>3. SumFunctionOnSet(g, Image(s \ {x})) = SumFunctionOnSet(f, s \ {x})
      <4> HIDE DEF Image
      <4> QED
        BY <2>2, <3>1, <3>2
    <3>4. Image(s \ {x}) = Image(s) \ {e[x]}
      BY <3>1, <3>2
    <3>5. e[x] \in Image(s) /\ \A z \in Image(s) : g[z] \in Int
      BY <3>1, <3>2
    <3>6. IsFiniteSet(Image(s)) /\ IsFiniteSet(s) /\ \A y \in s : f[y] \in Int
      BY <2>1, <3>2
    <3> HIDE DEF Image, T
    <3>7. SumFunctionOnSet(g, Image(s)) = g[e[x]] + SumFunctionOnSet(g, Image(s) \ {e[x]})
      BY <3>5, <3>6, SumTakeOut
    <3>8. SumFunctionOnSet(f, s) = f[x] + SumFunctionOnSet(f, s \ {x})
      BY <3>1, <3>6, SumTakeOut
    <3>9. SumFunctionOnSet(g, Image(s)) = SumFunctionOnSet(f, s)
      BY <3>1, <3>2, <3>3, <3>4, <3>7, <3>8
    <3> QED
      BY <2>2, <3>9 DEF T
  <2> QED
    BY <2>3, <2>4
<1> QED
  BY <1>1, <1>2

-----------------------------------------------------------------------------
(* Tokens. *)

Balances == [configured : BOOLEAN, base : Int, extension : Int,
             spent : Int, reserved : Int, uncertain : Int]
Shares == [allocated : Int, spent : Int, reserved : Int]

Typed ==
  /\ account \in Balances
  /\ holders \subseteq Holders
  /\ share \in [Holders -> Shares]
  /\ reservation \in [Calls -> Reservation]
  /\ used \subseteq Approvals
  /\ excess \in [Holders \cup {"account"} -> Nat]

(* Nothing happens before the budget is configured.                        *)
Untouched ==
  ~account.configured =>
    /\ account.extension = 0 /\ account.spent = 0 /\ account.reserved = 0
    /\ used = {} /\ holders = {}
    /\ \A h \in Holders : share[h].spent = 0 /\ share[h].reserved = 0
    /\ \A c \in Calls : reservation[c].state = "NONE"

Inv ==
  /\ Typed /\ Untouched
  /\ OverspendIsBilled /\ ExtensionsAreApproved /\ BillCoversReport

(* A quarter of the ceiling, and a mode's part of it, are natural numbers. *)
LEMMA Parts ==
  ASSUME BudgetAssumption
  PROVE  /\ Increment \in Nat
         /\ \A mode \in DOMAIN Percent :
              /\ (FullLimit * Percent[mode]) \div 100 \in Nat
              /\ (FullLimit * Percent[mode]) \div 100 <= FullLimit
<1>1. Increment \in Nat
  BY DEF Increment, BudgetAssumption
<1>2. ASSUME NEW mode \in DOMAIN Percent
      PROVE  /\ (FullLimit * Percent[mode]) \div 100 \in Nat
             /\ (FullLimit * Percent[mode]) \div 100 <= FullLimit
  <2>1. Percent[mode] \in {25, 50, 100}
    BY <1>2 DEF Percent
  <2> QED
    BY <2>1 DEF BudgetAssumption
<1> QED
  BY <1>1, <1>2

(* A known bill is a number that covers the reported input and output.     *)
LEMMA KnownBill ==
  ASSUME BudgetAssumption, NEW usage \in Usages, BilledTokens(usage) # Unknown
  PROVE  /\ BilledTokens(usage) \in Nat
         /\ Expected(usage) # Unknown => BilledTokens(usage) >= Expected(usage)
<1>1. /\ usage.input \in Nat \cup {Unknown} /\ usage.output \in Nat \cup {Unknown}
      /\ usage.total \in Nat \cup {Unknown}
  BY DEF BudgetAssumption, Usage, Counts
<1>2. Expected(usage) \in Nat \cup {Unknown}
  BY <1>1 DEF Expected
<1> QED
  BY <1>1, <1>2 DEF BilledTokens

(* The empty ledger.                                                       *)
LEMMA InitInv == ASSUME BudgetAssumption, Init PROVE Inv
<1>1. Typed /\ Untouched
  BY DEF Init, Typed, Untouched, Balances, Shares, Reservation, Usage, Counts, NoUsage, Holders
<1>2. OverspendIsBilled
  BY DEF Init, OverspendIsBilled, Effective, BudgetAssumption, Holders
<1>3. Cardinality(used) = 0
  BY FS_EmptySet DEF Init
<1>4. ExtensionsAreApproved
  BY <1>3, Parts DEF Init, ExtensionsAreApproved, BudgetAssumption
<1> QED
  BY <1>1, <1>2, <1>4 DEF Init, Inv, BillCoversReport, In

(* The budget is set up while everything is still zero.                    *)
LEMMA ConfigureStep ==
  ASSUME BudgetAssumption, Inv, NEW mode \in DOMAIN Percent, NEW list \in ShareLists,
         ConfigureTokenBudget(mode, list)
  PROVE  Inv'
<1> DEFINE base == (FullLimit * Percent[mode]) \div 100
<1>1. base \in Nat /\ base <= FullLimit
  BY Parts
<1> HIDE DEF base
<1>2. /\ ~account.configured /\ account' = [account EXCEPT !.configured = TRUE, !.base = base]
      /\ holders' = {list[i][1] : i \in DOMAIN list}
      /\ UNCHANGED <<reservation, used, excess>>
  BY DEF ConfigureTokenBudget, base
<1>3. PICK allotted \in Allotments(list, base) :
        share' = [h \in Holders |->
            IF \E i \in DOMAIN list : list[i][1] = h
            THEN [share[h] EXCEPT !.allocated = allotted[CHOOSE i \in DOMAIN list : list[i][1] = h]]
            ELSE share[h]]
  BY DEF ConfigureTokenBudget, base
<1>4. allotted \in [DOMAIN list -> 0 .. base]
  BY <1>3 DEF Allotments
<1>5. ASSUME NEW h \in Holders
      PROVE  /\ share'[h] \in Shares
             /\ share'[h].spent = 0 /\ share'[h].reserved = 0
             /\ share'[h].allocated >= 0 \/ share'[h] = share[h]
  <2>1. share[h] \in Shares /\ share[h].spent = 0 /\ share[h].reserved = 0
    BY <1>2 DEF Inv, Typed, Untouched
  <2>2. CASE \E i \in DOMAIN list : list[i][1] = h
    <3> DEFINE k == CHOOSE i \in DOMAIN list : list[i][1] = h
    <3>1. k \in DOMAIN list
      BY <2>2
    <3>2. allotted[k] \in 0 .. base
      BY <3>1, <1>4
    <3>3. share'[h] = [share[h] EXCEPT !.allocated = allotted[k]]
      BY <1>3, <2>2
    <3> HIDE DEF k
    <3> QED
      BY <2>1, <3>2, <3>3, <1>1 DEF Shares
  <2>3. CASE ~\E i \in DOMAIN list : list[i][1] = h
    BY <1>3, <2>1, <2>3
  <2> QED
    BY <2>2, <2>3
<1>6. holders' \subseteq Holders
  <2>1. \A i \in DOMAIN list : list[i] \in Agents \X (1 .. 100)
    BY DEF BudgetAssumption
  <2> QED
    BY <1>2, <2>1 DEF Holders
<1>7. share' \in [Holders -> Shares]
  BY <1>3, <1>5
<1>8. /\ account' \in Balances /\ account'.configured
      /\ account'.base = base /\ account'.extension = 0
      /\ account'.spent = 0 /\ account'.reserved = 0
  <2>1. /\ account \in Balances
        /\ account.extension = 0 /\ account.spent = 0 /\ account.reserved = 0
    BY <1>2 DEF Inv, Typed, Untouched
  <2>2. account' = [configured |-> TRUE, base |-> base, extension |-> account.extension,
                    spent |-> account.spent, reserved |-> account.reserved,
                    uncertain |-> account.uncertain]
    BY <1>2, <2>1 DEF Balances
  <2>3. account.uncertain \in Int
    BY <2>1 DEF Balances
  <2> QED
    BY <1>1, <2>1, <2>2, <2>3 DEF Balances
<1>9. Typed' /\ Untouched'
  BY <1>2, <1>6, <1>7, <1>8 DEF Inv, Typed, Untouched
<1>10. OverspendIsBilled'
  <2>1. account'.spent + account'.reserved <= (Effective(account))' + excess'["account"]
    BY <1>1, <1>2, <1>8 DEF Inv, Typed, Effective, BudgetAssumption
  <2>2. ASSUME NEW h \in Holders
        PROVE  share'[h].spent + share'[h].reserved <= share'[h].allocated + excess'[h]
    BY <1>2, <1>5 DEF Inv, Typed, Shares, OverspendIsBilled
  <2> QED
    BY <2>1, <2>2 DEF OverspendIsBilled
<1>11. ExtensionsAreApproved'
  <2>1. Cardinality(used') = 0
    BY <1>2, FS_EmptySet DEF Inv, Untouched
  <2> QED
    BY <1>1, <1>8, <2>1, Parts DEF ExtensionsAreApproved, BudgetAssumption
<1> QED
  BY <1>2, <1>9, <1>10, <1>11 DEF Inv, BillCoversReport, In

(* A reservation fits into what remains.                                   *)
LEMMA ReserveStep ==
  ASSUME BudgetAssumption, Inv, NEW c \in Calls, NEW agent \in Agents, NEW amount \in Amounts,
         ReserveTokens(c, agent, amount)
  PROVE  Inv'
<1> USE DEF Inv, Typed
<1>1. amount \in Nat /\ agent \in Holders
  BY DEF BudgetAssumption, Holders
<1>2. /\ account' \in Balances /\ account.configured /\ account'.configured
      /\ account'.base = account.base /\ account'.extension = account.extension
      /\ account'.spent = account.spent /\ account'.reserved = account.reserved + amount
  BY <1>1 DEF ReserveTokens, Balances
<1>3. ASSUME NEW h \in Holders
      PROVE  /\ share'[h] \in Shares /\ share'[h].spent = share[h].spent
             /\ share'[h].allocated = share[h].allocated
             /\ share'[h].reserved = share[h].reserved
                \/ /\ amount <= Remaining(share[h].allocated, share[h])
                   /\ share'[h].reserved = share[h].reserved + amount
  BY <1>1 DEF ReserveTokens, Shares
<1>4. share' \in [Holders -> Shares]
  BY <1>3 DEF ReserveTokens
<1>5. reservation' \in [Calls -> Reservation]
  BY <1>1 DEF ReserveTokens, Reservation
<1>6. Typed' /\ Untouched'
  BY <1>2, <1>4, <1>5 DEF ReserveTokens, Untouched
<1>7. OverspendIsBilled'
  <2>1. amount <= Remaining(Effective(account), account)
    BY DEF ReserveTokens
  <2>2. /\ account.spent \in Int /\ account.reserved \in Int
        /\ account.base \in Int /\ account.extension \in Int
        /\ excess["account"] \in Nat /\ excess' = excess
    BY DEF Balances, ReserveTokens
  <2>3. (Effective(account))' = Effective(account) /\ Effective(account) \in Int
    BY <1>2, <2>2 DEF Effective, BudgetAssumption
  <2>4. account'.spent + account'.reserved <= (Effective(account))' + excess'["account"]
    BY <1>1, <1>2, <2>1, <2>2, <2>3 DEF Remaining, OverspendIsBilled
  <2>5. ASSUME NEW h \in Holders
        PROVE  share'[h].spent + share'[h].reserved <= share'[h].allocated + excess'[h]
    BY <1>1, <1>3, <2>2 DEF Remaining, OverspendIsBilled, Shares
  <2> QED
    BY <2>4, <2>5 DEF OverspendIsBilled
<1>8. ExtensionsAreApproved'
  BY <1>2 DEF ReserveTokens, ExtensionsAreApproved
<1>9. BillCoversReport'
  <2>1. ASSUME NEW d \in In({"RECONCILED"})'
        PROVE  d \in In({"RECONCILED"}) /\ reservation'[d] = reservation[d]
    BY DEF In, ReserveTokens, Reservation
  <2> QED
    BY <2>1 DEF BillCoversReport
<1> QED
  BY <1>6, <1>7, <1>8, <1>9

(* A bill takes its estimate from the reservations; what it adds beyond    *)
(* the estimate is excess.                                                 *)
LEMMA BillStep ==
  ASSUME BudgetAssumption, Inv, NEW c \in Calls, NEW usage \in Usages,
         ReconcileTokens(c, usage), ReconcileKnown(c, usage)
  PROVE  Inv'
<1> USE DEF Inv, Typed
<1> DEFINE row == reservation[c]
           billed == BilledTokens(usage)
           over == Excess(billed, row.amount)
<1>1. /\ billed \in Nat /\ row.amount \in Nat /\ row.agent \in Holders
      /\ account.configured
      /\ Expected(usage) # Unknown => billed >= Expected(usage)
  BY KnownBill DEF ReconcileKnown, Reservation, ReconcileTokens, OpenToBill, Untouched
<1>2. over \in Nat /\ billed <= row.amount + over
  BY <1>1 DEF Excess
<1>3. /\ account' = [account EXCEPT
           !.reserved = @ - row.amount,
           !.uncertain = @ - (IF row.state = "UNKNOWN" THEN row.amount ELSE 0),
           !.spent = @ + billed]
      /\ share' = [h \in Holders |->
           IF h = row.agent /\ h \in holders
           THEN [share[h] EXCEPT !.reserved = @ - row.amount, !.spent = @ + billed] ELSE share[h]]
      /\ reservation' = [reservation EXCEPT
           ![c] = [@ EXCEPT !.state = "RECONCILED", !.billed = billed, !.usage = usage]]
      /\ excess' = [h \in DOMAIN excess |->
           IF h = "account" \/ (h = row.agent /\ h \in holders) THEN excess[h] + over ELSE excess[h]]
      /\ UNCHANGED <<holders, used>>
  BY DEF ReconcileTokens, ReconcileKnown
<1>4. usage \in Usage
  BY DEF BudgetAssumption
<1> DEFINE settled == IF row.state = "UNKNOWN" THEN row.amount ELSE 0
<1> HIDE DEF billed, over
<1>5. /\ account' \in Balances
      /\ account'.configured = account.configured
      /\ account'.base = account.base /\ account'.extension = account.extension
      /\ account'.spent = account.spent + billed
      /\ account'.reserved = account.reserved - row.amount
  <2>1. settled \in Int
    BY <1>1
  <2>2. account' = [account EXCEPT !.reserved = @ - row.amount, !.uncertain = @ - settled,
                                   !.spent = @ + billed]
    BY <1>3
  <2>3. /\ account.reserved \in Int /\ account.uncertain \in Int /\ account.spent \in Int
        /\ account.base \in Int /\ account.extension \in Int /\ account.configured \in BOOLEAN
    BY DEF Balances
  <2>4. account' = [configured |-> account.configured, base |-> account.base,
                    extension |-> account.extension, spent |-> account.spent + billed,
                    reserved |-> account.reserved - row.amount,
                    uncertain |-> account.uncertain - settled]
    BY <2>2 DEF Balances
  <2>5. /\ account.spent + billed \in Int /\ account.reserved - row.amount \in Int
        /\ account.uncertain - settled \in Int
    BY <1>1, <2>1, <2>3
  <2> HIDE DEF settled, row
  <2> QED
    BY <2>3, <2>4, <2>5 DEF Balances
<1>6. ASSUME NEW h \in Holders
      PROVE  /\ share'[h] \in Shares
             /\ share'[h].allocated = share[h].allocated
             /\ \/ share'[h] = share[h] /\ excess'[h] >= excess[h]
                \/ /\ share'[h].spent = share[h].spent + billed
                   /\ share'[h].reserved = share[h].reserved - row.amount
                   /\ excess'[h] = excess[h] + over
  <2>1. /\ share[h] \in Shares /\ excess[h] \in Nat /\ h \in DOMAIN excess
        /\ excess'[h] = IF h = "account" \/ (h = row.agent /\ h \in holders)
                        THEN excess[h] + over ELSE excess[h]
    BY <1>3
  <2>2. CASE h = row.agent /\ h \in holders
    <3>1. share'[h] = [share[h] EXCEPT !.reserved = @ - row.amount, !.spent = @ + billed]
      BY <1>3, <2>2
    <3>2. excess'[h] = excess[h] + over
      BY <2>1, <2>2
    <3>3. /\ share[h].reserved \in Int /\ share[h].spent \in Int /\ share[h].allocated \in Int
      BY <2>1 DEF Shares
    <3>4. share[h].reserved - row.amount \in Int /\ share[h].spent + billed \in Int
      BY <1>1, <3>3
    <3>5. share'[h] = [allocated |-> share[h].allocated, spent |-> share[h].spent + billed,
                       reserved |-> share[h].reserved - row.amount]
      BY <2>1, <3>1 DEF Shares
    <3> QED
      BY <3>2, <3>3, <3>4, <3>5 DEF Shares
  <2>3. CASE ~(h = row.agent /\ h \in holders)
    <3>1. share'[h] = share[h]
      BY <1>3, <2>3
    <3>2. excess'[h] >= excess[h]
      BY <1>2, <2>1
    <3> QED
      BY <2>1, <3>1, <3>2
  <2> QED
    BY <2>2, <2>3
<1>7. /\ share' \in [Holders -> Shares]
      /\ excess' \in [Holders \cup {"account"} -> Nat]
  <2>1. \A h \in Holders \cup {"account"} : excess[h] + over \in Nat
    BY <1>2
  <2> QED
    BY <1>3, <1>6, <2>1
<1>8. reservation' \in [Calls -> Reservation]
  BY <1>1, <1>3, <1>4 DEF Reservation
<1>9. Typed' /\ Untouched'
  BY <1>1, <1>3, <1>5, <1>7, <1>8 DEF Untouched
<1>10. OverspendIsBilled'
  <2>1. excess'["account"] = excess["account"] + over
    BY <1>3
  <2>2. /\ account.spent \in Int /\ account.reserved \in Int
        /\ account.base \in Int /\ account.extension \in Int
        /\ excess["account"] \in Nat
    BY DEF Balances
  <2>3. (Effective(account))' = Effective(account) /\ Effective(account) \in Int
    BY <1>5, <2>2 DEF Effective, BudgetAssumption
  <2>4. account'.spent + account'.reserved <= (Effective(account))' + excess'["account"]
    BY <1>1, <1>2, <1>5, <2>1, <2>2, <2>3 DEF OverspendIsBilled
  <2>5. ASSUME NEW h \in Holders
        PROVE  share'[h].spent + share'[h].reserved <= share'[h].allocated + excess'[h]
    <3>1. /\ share[h] \in Shares /\ excess[h] \in Nat /\ excess'[h] \in Nat
          /\ share[h].spent + share[h].reserved <= share[h].allocated + excess[h]
      BY <1>7 DEF OverspendIsBilled
    <3> QED
      BY <1>1, <1>2, <1>6, <3>1 DEF Shares
  <2> QED
    BY <2>4, <2>5 DEF OverspendIsBilled
<1>11. ExtensionsAreApproved'
  BY <1>3, <1>5 DEF ExtensionsAreApproved
<1>12. BillCoversReport'
  <2>1. ASSUME NEW d \in In({"RECONCILED"})'
        PROVE  LET u == reservation'[d].usage
               IN Expected(u) # Unknown => reservation'[d].billed >= Expected(u)
    <3>1. CASE d = c
      <4>1. reservation'[d].usage = usage /\ reservation'[d].billed = billed
        BY <1>3, <3>1 DEF Reservation
      <4> QED
        BY <1>1, <4>1
    <3>2. CASE d # c
      BY <1>3, <2>1, <3>2 DEF BillCoversReport, In
    <3> QED
      BY <3>1, <3>2
  <2> QED
    BY <2>1 DEF BillCoversReport, Expected
<1> QED
  BY <1>9, <1>10, <1>11, <1>12

(* Unknown usage leaves all that is reserved where it is.                  *)
LEMMA UncertainStep ==
  ASSUME BudgetAssumption, Inv, NEW c \in Calls, NEW usage \in Usages,
         ReconcileTokens(c, usage), ReconcileUnknown(c, usage)
  PROVE  Inv'
<1> USE DEF Inv, Typed
<1>1. usage \in Usage /\ account.configured
  BY DEF BudgetAssumption, ReconcileTokens, OpenToBill, Untouched
<1>2. BecomesUncertain(c) \in Int
  BY DEF BecomesUncertain, Reservation
<1>3. /\ account' = [account EXCEPT !.uncertain = @ + BecomesUncertain(c)]
      /\ reservation' = [reservation EXCEPT ![c] = [@ EXCEPT !.state = "UNKNOWN", !.usage = usage]]
      /\ UNCHANGED <<holders, share, used, excess>>
  BY DEF ReconcileTokens, ReconcileUnknown
<1>4. /\ account' \in Balances
      /\ account'.configured = account.configured
      /\ account'.base = account.base /\ account'.extension = account.extension
      /\ account'.spent = account.spent /\ account'.reserved = account.reserved
  BY <1>2, <1>3 DEF Balances
<1>5. reservation' \in [Calls -> Reservation]
  BY <1>1, <1>3 DEF Reservation
<1>6. Typed' /\ Untouched'
  BY <1>1, <1>3, <1>4, <1>5 DEF Untouched
<1>7. OverspendIsBilled'
  BY <1>3, <1>4 DEF OverspendIsBilled, Effective
<1>8. ExtensionsAreApproved'
  BY <1>3, <1>4 DEF ExtensionsAreApproved
<1>9. BillCoversReport'
  <2>1. ASSUME NEW d \in In({"RECONCILED"})'
        PROVE  d \in In({"RECONCILED"}) /\ reservation'[d] = reservation[d]
    BY <1>3 DEF In, Reservation
  <2> QED
    BY <2>1 DEF BillCoversReport
<1> QED
  BY <1>6, <1>7, <1>8, <1>9

(* A release gives back what was reserved.                                 *)
LEMMA ReleaseStep ==
  ASSUME BudgetAssumption, Inv, NEW c \in Calls, ReleaseTokens(c)
  PROVE  Inv'
<1> USE DEF Inv, Typed
<1> DEFINE amount == reservation[c].amount
<1>1. amount \in Nat /\ account.configured
  BY DEF Reservation, ReleaseTokens, Untouched
<1>2. /\ account' = [account EXCEPT !.reserved = @ - amount]
      /\ share' = [h \in Holders |-> IF h = reservation[c].agent /\ h \in holders
                                     THEN [share[h] EXCEPT !.reserved = @ - amount] ELSE share[h]]
      /\ reservation' = [reservation EXCEPT ![c].state = "RELEASED"]
      /\ UNCHANGED <<holders, used, excess>>
  BY DEF ReleaseTokens
<1> HIDE DEF amount
<1>3. /\ account' \in Balances
      /\ account'.configured = account.configured
      /\ account'.base = account.base /\ account'.extension = account.extension
      /\ account'.spent = account.spent /\ account'.reserved = account.reserved - amount
  <2>1. account.reserved - amount \in Int
    BY <1>1 DEF Balances
  <2>2. account' = [configured |-> account.configured, base |-> account.base,
                    extension |-> account.extension, spent |-> account.spent,
                    reserved |-> account.reserved - amount, uncertain |-> account.uncertain]
    BY <1>2 DEF Balances
  <2> QED
    BY <2>1, <2>2 DEF Balances
<1>4. ASSUME NEW h \in Holders
      PROVE  /\ share'[h] \in Shares /\ share'[h].spent = share[h].spent
             /\ share'[h].allocated = share[h].allocated
             /\ share'[h].reserved <= share[h].reserved
  BY <1>1, <1>2 DEF Shares
<1>5. share' \in [Holders -> Shares]
  BY <1>2, <1>4
<1>6. reservation' \in [Calls -> Reservation]
  BY <1>2 DEF Reservation
<1>7. Typed' /\ Untouched'
  BY <1>1, <1>2, <1>3, <1>5, <1>6 DEF Untouched
<1>8. OverspendIsBilled'
  <2>1. /\ account.spent \in Int /\ account.reserved \in Int
        /\ account.base \in Int /\ account.extension \in Int
        /\ excess["account"] \in Nat
    BY DEF Balances
  <2>2. account'.spent + account'.reserved <= (Effective(account))' + excess'["account"]
    BY <1>1, <1>2, <1>3, <2>1 DEF OverspendIsBilled, Effective, BudgetAssumption
  <2>3. ASSUME NEW h \in Holders
        PROVE  share'[h].spent + share'[h].reserved <= share'[h].allocated + excess'[h]
    BY <1>2, <1>4 DEF OverspendIsBilled, Shares
  <2> QED
    BY <2>2, <2>3 DEF OverspendIsBilled
<1>9. ExtensionsAreApproved'
  BY <1>2, <1>3 DEF ExtensionsAreApproved
<1>10. BillCoversReport'
  <2>1. ASSUME NEW d \in In({"RECONCILED"})'
        PROVE  d \in In({"RECONCILED"}) /\ reservation'[d] = reservation[d]
    BY <1>2 DEF In, Reservation
  <2> QED
    BY <2>1 DEF BillCoversReport
<1> QED
  BY <1>7, <1>8, <1>9, <1>10

(* An agent gives away no more than it has left.                           *)
LEMMA ReassignStep ==
  ASSUME BudgetAssumption, Inv, NEW from \in Holders, NEW to \in Holders, NEW amount \in Amounts,
         ReassignAgentTokens(from, to, amount)
  PROVE  Inv'
<1> USE DEF Inv, Typed
<1>1. amount \in Nat /\ account.configured
  BY DEF BudgetAssumption, ReassignAgentTokens, Untouched
<1>2. /\ amount > 0 /\ from # to
      /\ amount <= Remaining(share[from].allocated, share[from])
      /\ share' = [share EXCEPT ![from].allocated = @ - amount, ![to].allocated = @ + amount]
      /\ UNCHANGED <<account, holders, reservation, used, excess>>
  BY DEF ReassignAgentTokens, Moved
<1>3. ASSUME NEW h \in Holders
      PROVE  /\ share'[h] \in Shares
             /\ share'[h].spent = share[h].spent /\ share'[h].reserved = share[h].reserved
             /\ \/ share'[h].allocated >= share[h].allocated
                \/ share'[h].spent + share'[h].reserved <= share'[h].allocated
  <2>1. /\ share[h].reserved \in Int /\ share[h].spent \in Int /\ share[h].allocated \in Int
    BY DEF Shares
  <2>2. CASE h = from
    <3>1. share'[h] = [share[h] EXCEPT !.allocated = @ - amount]
      BY <1>2, <2>2
    <3> QED
      BY <1>1, <1>2, <2>1, <2>2, <3>1 DEF Shares, Remaining
  <2>3. CASE h = to
    <3>1. share'[h] = [share[h] EXCEPT !.allocated = @ + amount]
      BY <1>2, <2>3
    <3> QED
      BY <1>1, <2>1, <3>1 DEF Shares
  <2>4. CASE h # from /\ h # to
    BY <1>2, <2>1, <2>4
  <2> QED
    BY <2>2, <2>3, <2>4
<1>4. share' \in [Holders -> Shares]
  BY <1>2, <1>3
<1>5. Typed' /\ Untouched'
  BY <1>1, <1>2, <1>4 DEF Untouched
<1>6. OverspendIsBilled'
  <2>1. ASSUME NEW h \in Holders
        PROVE  share'[h].spent + share'[h].reserved <= share'[h].allocated + excess'[h]
    <3>1. /\ excess'[h] \in Nat /\ excess'[h] = excess[h]
          /\ share[h].spent + share[h].reserved <= share[h].allocated + excess[h]
      BY <1>2 DEF OverspendIsBilled
    <3> QED
      BY <1>3, <3>1 DEF Shares
  <2>2. account'.spent + account'.reserved <= (Effective(account))' + excess'["account"]
    BY <1>2 DEF OverspendIsBilled, Effective
  <2> QED
    BY <2>1, <2>2 DEF OverspendIsBilled
<1> QED
  BY <1>2, <1>5, <1>6 DEF ExtensionsAreApproved, BillCoversReport, In

(* An extension lifts the limit and adds one approval to those used.       *)
LEMMA ExtendStep ==
  ASSUME BudgetAssumption, Inv, NEW approval \in Approvals, ExtendTokenBudget(approval)
  PROVE  Inv'
<1> USE DEF Inv, Typed
<1>1. Increment \in Nat
  BY Parts
<1>2. /\ account.configured /\ approval \notin used /\ used' = used \cup {approval}
      /\ Effective(account) + Increment <= FullLimit
      /\ account' = [account EXCEPT !.extension = @ + Increment]
      /\ UNCHANGED <<reservation, excess>>
  BY DEF ExtendTokenBudget, FitsCeiling
<1>3. /\ account' \in Balances /\ account'.configured
      /\ account'.base = account.base /\ account'.extension = account.extension + Increment
      /\ account'.spent = account.spent /\ account'.reserved = account.reserved
  BY <1>1, <1>2 DEF Balances
<1>4. Pool \in Holders
  BY DEF Holders
<1>5. ASSUME NEW h \in Holders
      PROVE  /\ share'[h] \in Shares
             /\ share'[h].spent = share[h].spent /\ share'[h].reserved = share[h].reserved
             /\ share'[h].allocated >= share[h].allocated
  BY <1>1, <1>4 DEF ExtendTokenBudget, Shares
<1>6. share' \in [Holders -> Shares] /\ holders' \subseteq Holders
  BY <1>4, <1>5 DEF ExtendTokenBudget
<1>7. Typed' /\ Untouched'
  BY <1>2, <1>3, <1>6 DEF Untouched
<1>8. /\ account.spent \in Int /\ account.reserved \in Int
      /\ account.base \in Int /\ account.extension \in Int /\ excess["account"] \in Nat
  BY DEF Balances
<1>9. OverspendIsBilled'
  <2>1. account'.spent + account'.reserved <= (Effective(account))' + excess'["account"]
    BY <1>1, <1>2, <1>3, <1>8 DEF OverspendIsBilled, Effective, BudgetAssumption
  <2>2. ASSUME NEW h \in Holders
        PROVE  share'[h].spent + share'[h].reserved <= share'[h].allocated + excess'[h]
    BY <1>2, <1>5 DEF OverspendIsBilled, Shares
  <2> QED
    BY <2>1, <2>2 DEF OverspendIsBilled
<1>10. ExtensionsAreApproved'
  <2>1. account'.base + account'.extension <= FullLimit
    BY <1>1, <1>2, <1>3, <1>8 DEF ExtensionsAreApproved, Effective, BudgetAssumption
  <2>2. IsFiniteSet(used)
    BY FS_Subset DEF BudgetAssumption
  <2>3. Cardinality(used') = Cardinality(used) + 1 /\ Cardinality(used) \in Nat
    BY <1>2, <2>2, FS_AddElement, FS_CardinalityType
  <2>4. Increment * (Cardinality(used) + 1) = Increment * Cardinality(used) + Increment
    BY <1>1, <2>3
  <2> QED
    BY <1>3, <2>1, <2>3, <2>4 DEF ExtensionsAreApproved
<1> QED
  BY <1>2, <1>7, <1>9, <1>10 DEF BillCoversReport, In

(* Every transaction keeps the invariant.                                  *)
LEMMA InvStep == ASSUME BudgetAssumption, Inv, Next PROVE Inv'
<1>1. ASSUME NEW mode \in DOMAIN Percent, NEW list \in ShareLists, ConfigureTokenBudget(mode, list)
      PROVE  Inv'
  BY <1>1, ConfigureStep
<1>2. ASSUME NEW c \in Calls, NEW agent \in Agents, NEW amount \in Amounts,
             ReserveTokens(c, agent, amount)
      PROVE  Inv'
  BY <1>2, ReserveStep
<1>3. ASSUME NEW c \in Calls, NEW usage \in Usages, ReconcileTokens(c, usage)
      PROVE  Inv'
  BY <1>3, UncertainStep, BillStep DEF ReconcileTokens
<1>4. ASSUME NEW c \in Calls, ReleaseTokens(c)
      PROVE  Inv'
  BY <1>4, ReleaseStep
<1>5. ASSUME NEW from \in Holders, NEW to \in Holders, NEW amount \in Amounts,
             ReassignAgentTokens(from, to, amount)
      PROVE  Inv'
  BY <1>5, ReassignStep
<1>6. ASSUME NEW approval \in Approvals, ExtendTokenBudget(approval)
      PROVE  Inv'
  BY <1>6, ExtendStep
<1> QED
  BY <1>1, <1>2, <1>3, <1>4, <1>5, <1>6 DEF Next

(* The ledger keeps its types and the three invariants below.              *)
THEOREM BudgetInvariant ==
  ASSUME BudgetAssumption
  PROVE  Spec => []Inv
<1>1. ASSUME Inv, UNCHANGED vars
      PROVE  Inv'
  BY <1>1 DEF Inv, vars, Typed, Untouched, OverspendIsBilled, ExtensionsAreApproved,
              BillCoversReport, In, Effective
<1>2. Inv /\ [Next]_vars => Inv'
  BY <1>1, InvStep
<1> QED
  BY InitInv, <1>2, PTL DEF Spec

(* Whatever the estimates and the reports, a run spends and reserves beyond*)
(* its limit only what providers billed beyond the estimates, and so does  *)
(* every agent with its share.                                             *)
THEOREM SpendingIsBounded ==
  ASSUME BudgetAssumption
  PROVE  Spec => []OverspendIsBilled
<1>1. Inv => OverspendIsBilled
  BY DEF Inv
<1> QED
  BY <1>1, BudgetInvariant, PTL

(* Extensions add a quarter per approval and stay below the full ceiling,  *)
(* also when four quarters are not the whole.                              *)
THEOREM CeilingHolds ==
  ASSUME BudgetAssumption
  PROVE  Spec => []ExtensionsAreApproved
<1>1. Inv => ExtensionsAreApproved
  BY DEF Inv
<1> QED
  BY <1>1, BudgetInvariant, PTL

(* No settled call was billed less than its reported input and output.     *)
THEOREM BillsAreComplete ==
  ASSUME BudgetAssumption
  PROVE  Spec => []BillCoversReport
<1>1. Inv => BillCoversReport
  BY DEF Inv
<1> QED
  BY <1>1, BudgetInvariant, PTL

(* A call that was billed or released is never billed or released again.   *)
THEOREM SettlementIsFinal ==
  ASSUME BudgetAssumption
  PROVE  Spec => SettledForGood
<1>1. ASSUME Inv, [Next]_vars, NEW c \in Calls
      PROVE  /\ reservation[c].state \in {"RECONCILED", "RELEASED"} => reservation'[c] = reservation[c]
             /\ reservation[c].state = "UNKNOWN" => reservation'[c].state \in {"UNKNOWN", "RECONCILED"}
  <2>1. reservation \in [Calls -> Reservation]
    BY <1>1 DEF Inv, Typed
  <2>2. ASSUME NEW d \in Calls, NEW agent \in Agents, NEW amount \in Amounts,
               ReserveTokens(d, agent, amount)
        PROVE  reservation[d].state = "NONE" /\ \A e \in Calls \ {d} : reservation'[e] = reservation[e]
    BY <2>1, <2>2 DEF ReserveTokens
  <2>3. ASSUME NEW d \in Calls, NEW usage \in Usages, ReconcileTokens(d, usage)
        PROVE  /\ reservation[d].state \in {"ACTIVE", "UNKNOWN"}
               /\ reservation'[d].state \in {"UNKNOWN", "RECONCILED"}
               /\ \A e \in Calls \ {d} : reservation'[e] = reservation[e]
    <3>1. reservation[d].state \in {"ACTIVE", "UNKNOWN"}
      BY <2>3 DEF ReconcileTokens, OpenToBill
    <3>2. CASE ReconcileKnown(d, usage)
      BY <2>1, <3>1, <3>2 DEF ReconcileKnown, Reservation
    <3>3. CASE ReconcileUnknown(d, usage)
      BY <2>1, <3>1, <3>3 DEF ReconcileUnknown, Reservation
    <3> QED
      BY <2>3, <3>2, <3>3 DEF ReconcileTokens
  <2>4. ASSUME NEW d \in Calls, ReleaseTokens(d)
        PROVE  /\ reservation[d].state = "ACTIVE"
               /\ \A e \in Calls \ {d} : reservation'[e] = reservation[e]
    BY <2>1, <2>4 DEF ReleaseTokens
  <2>5. CASE UNCHANGED vars
    BY <2>5 DEF vars
  <2>6. ASSUME \/ \E mode \in DOMAIN Percent, list \in ShareLists : ConfigureTokenBudget(mode, list)
               \/ \E from, to \in Holders, amount \in Amounts : ReassignAgentTokens(from, to, amount)
               \/ \E approval \in Approvals : ExtendTokenBudget(approval)
        PROVE  reservation' = reservation
    BY <2>6 DEF ConfigureTokenBudget, ReassignAgentTokens, ExtendTokenBudget
  <2> QED
    BY <1>1, <2>2, <2>3, <2>4, <2>5, <2>6 DEF Next
<1>2. Inv /\ [Next]_vars =>
             [\A c \in Calls :
                /\ reservation[c].state \in {"RECONCILED", "RELEASED"} => reservation'[c] = reservation[c]
                /\ reservation[c].state = "UNKNOWN" => reservation'[c].state \in {"UNKNOWN", "RECONCILED"}]_vars
  BY <1>1
<1> QED
  BY <1>2, BudgetInvariant, PTL DEF Spec, SettledForGood

-----------------------------------------------------------------------------
(***************************************************************************)
(* The balances.  They are the sums of the reservations behind them, so    *)
(* they are natural numbers; that an agent gives away only what remains,   *)
(* and that a share belongs to a holder, keeps the shares at the limit.    *)
(***************************************************************************)
Begun(rows) == {c \in Calls : rows[c].state # "NONE"}
Open == {"ACTIVE", "UNKNOWN"}

(* The calls of some agents in some states, and the sums over them.        *)
Some(rows, states, agents) == {c \in Calls : rows[c].state \in states /\ rows[c].agent \in agents}
Amounted(rows) == [c \in Calls |-> rows[c].amount]
Billed(rows) == [c \in Calls |-> rows[c].billed]
Reserved(rows, agents) == SumFunctionOnSet(Amounted(rows), Some(rows, Open, agents))
Uncertain(rows) == SumFunctionOnSet(Amounted(rows), Some(rows, {"UNKNOWN"}, Holders))
Spent(rows, agents) == SumFunctionOnSet(Billed(rows), Some(rows, {"RECONCILED"}, agents))

(* What one call adds to such a sum.                                       *)
Part(row, states, agents, tokens) ==
  IF row.state \in states /\ row.agent \in agents THEN tokens ELSE 0

Balanced ==
  /\ account.reserved = Reserved(reservation, Holders)
  /\ account.uncertain = Uncertain(reservation)
  /\ account.spent = Spent(reservation, Holders)
  /\ \A h \in holders : /\ share[h].reserved = Reserved(reservation, {h})
                        /\ share[h].spent = Spent(reservation, {h})

(* Only holders have a share, and only they have calls if there are any.   *)
Shared ==
  /\ account.base \in Nat
  /\ \A h \in Holders : share[h].allocated \in Nat
  /\ \A h \in Holders \ holders :
       share[h].allocated = 0 /\ share[h].spent = 0 /\ share[h].reserved = 0
  /\ holders # {} => \A c \in Begun(reservation) : reservation[c].agent \in holders

Allocated == [h \in Holders |-> share[h].allocated]

LedgerInv ==
  /\ Inv /\ Shared /\ Balanced
  /\ SharesCoverLimit
  /\ IsFiniteSet(holders) /\ IsFiniteSet(Begun(reservation))

(* One call changes, and with it the sums that it is part of.              *)
Replaced(rows, c, row, new) ==
  /\ rows \in [Calls -> Reservation] /\ IsFiniteSet(Begun(rows))
  /\ c \in Calls /\ row \in Reservation
  /\ new = [rows EXCEPT ![c] = row]

Fields(f, g, c) ==
  /\ f \in [Calls -> Nat] /\ g \in [Calls -> Nat]
  /\ \A d \in Calls \ {c} : g[d] = f[d]

LEMMA BegunChanges ==
  ASSUME NEW rows, NEW c, NEW row, NEW new, Replaced(rows, c, row, new)
  PROVE  /\ IsFiniteSet(Begun(rows) \cup {c}) /\ IsFiniteSet(Begun(new))
         /\ Begun(new) \in SUBSET (Begun(rows) \cup {c})
<1>1. IsFiniteSet(Begun(rows) \cup {c}) /\ Begun(new) \in SUBSET (Begun(rows) \cup {c})
  BY FS_AddElement DEF Begun, Replaced
<1> QED
  BY <1>1, FS_Subset

LEMMA PartChanges ==
  ASSUME NEW rows, NEW c, NEW row, NEW new, Replaced(rows, c, row, new),
         NEW f, NEW g, Fields(f, g, c),
         NEW states \in {Open, {"UNKNOWN"}, {"RECONCILED"}}, NEW agents
  PROVE  SumFunctionOnSet(g, Some(new, states, agents)) = SumFunctionOnSet(f, Some(rows, states, agents))
           - Part(rows[c], states, agents, f[c]) + Part(row, states, agents, g[c])
<1> DEFINE S == Some(rows, states, agents)
           T == Some(new, states, agents)
<1>1. S \in SUBSET (Begun(rows) \cup {c}) /\ T \in SUBSET (Begun(rows) \cup {c})
  BY DEF Some, Begun, Replaced, Open
<1>2. IsFiniteSet(S) /\ IsFiniteSet(T)
  BY <1>1, BegunChanges, FS_Subset
<1>3. S \ {c} = T \ {c} /\ S \subseteq Calls /\ T \subseteq Calls
  BY DEF Some, Replaced
<1>4. At(f, S, c) = Part(rows[c], states, agents, f[c]) /\ At(g, T, c) = Part(row, states, agents, g[c])
  BY DEF At, Part, Some, Replaced
<1> HIDE DEF S, T
<1>5. \A y \in Calls : f[y] \in Int /\ g[y] \in Int
  BY DEF Fields
<1>6. \A y \in S \ {c} : g[y] = f[y]
  BY <1>3 DEF Fields
<1>7. Differ(f, S, g, T, c)
  BY <1>2, <1>3, <1>5, <1>6 DEF Differ
<1>8. SumFunctionOnSet(g, T) = SumFunctionOnSet(f, S) - At(f, S, c) + At(g, T, c)
  BY <1>7, SumChanges
<1> QED
  BY <1>4, <1>8 DEF S, T

LEMMA RowChanges ==
  ASSUME NEW rows, NEW c, NEW row, NEW new, Replaced(rows, c, row, new), NEW agents
  PROVE  /\ Reserved(new, agents) = Reserved(rows, agents)
              - Part(rows[c], Open, agents, rows[c].amount) + Part(row, Open, agents, row.amount)
         /\ Uncertain(new) = Uncertain(rows)
              - Part(rows[c], {"UNKNOWN"}, Holders, rows[c].amount)
              + Part(row, {"UNKNOWN"}, Holders, row.amount)
         /\ Spent(new, agents) = Spent(rows, agents)
              - Part(rows[c], {"RECONCILED"}, agents, rows[c].billed)
              + Part(row, {"RECONCILED"}, agents, row.billed)
<1>1. /\ new \in [Calls -> Reservation] /\ new[c] = row /\ c \in Calls
      /\ rows \in [Calls -> Reservation]
      /\ \A d \in Calls \ {c} : new[d] = rows[d]
  BY DEF Replaced
<1>2. Fields(Amounted(rows), Amounted(new), c)
  BY <1>1 DEF Fields, Amounted, Reservation
<1>3. Fields(Billed(rows), Billed(new), c)
  BY <1>1 DEF Fields, Billed, Reservation
<1>4. /\ Amounted(rows)[c] = rows[c].amount /\ Amounted(new)[c] = row.amount
      /\ Billed(rows)[c] = rows[c].billed /\ Billed(new)[c] = row.billed
  BY <1>1 DEF Amounted, Billed
<1>5. ASSUME NEW states \in {Open, {"UNKNOWN"}, {"RECONCILED"}}, NEW some
      PROVE  SumFunctionOnSet(Amounted(new), Some(new, states, some))
               = SumFunctionOnSet(Amounted(rows), Some(rows, states, some))
                 - Part(rows[c], states, some, Amounted(rows)[c])
                 + Part(row, states, some, Amounted(new)[c])
  BY <1>2, PartChanges
<1>6. SumFunctionOnSet(Billed(new), Some(new, {"RECONCILED"}, agents))
        = SumFunctionOnSet(Billed(rows), Some(rows, {"RECONCILED"}, agents))
          - Part(rows[c], {"RECONCILED"}, agents, Billed(rows)[c])
          + Part(row, {"RECONCILED"}, agents, Billed(new)[c])
  BY <1>3, PartChanges
<1> QED
  BY <1>4, <1>5, <1>6 DEF Reserved, Uncertain, Spent

(* The sums are natural numbers.                                           *)
LEMMA SumsAreNat ==
  ASSUME NEW rows \in [Calls -> Reservation], IsFiniteSet(Begun(rows)), NEW agents
  PROVE  Reserved(rows, agents) \in Nat /\ Uncertain(rows) \in Nat /\ Spent(rows, agents) \in Nat
<1>1. ASSUME NEW f \in [Calls -> Nat], NEW states, "NONE" \notin states, NEW some
      PROVE  SumFunctionOnSet(f, Some(rows, states, some)) \in Nat
  <2>1. Some(rows, states, some) \in SUBSET Begun(rows)
    BY <1>1 DEF Some, Begun
  <2>2. IsFiniteSet(Some(rows, states, some))
    BY <2>1, FS_Subset
  <2>3. \A d \in Some(rows, states, some) : f[d] \in Nat
    BY <1>1 DEF Some
  <2> QED
    BY <2>2, <2>3, SumIsNat
<1>2. Amounted(rows) \in [Calls -> Nat] /\ Billed(rows) \in [Calls -> Nat]
  BY DEF Amounted, Billed, Reservation
<1>3. "NONE" \notin Open /\ "NONE" \notin {"UNKNOWN"} /\ "NONE" \notin {"RECONCILED"}
  BY DEF Open
<1> QED
  BY <1>1, <1>2, <1>3 DEF Reserved, Uncertain, Spent

(* No calls, no sums.                                                      *)
LEMMA NothingBooked ==
  ASSUME NEW rows, NEW agents, \A c \in Begun(rows) : rows[c].agent \notin agents
  PROVE  Reserved(rows, agents) = 0 /\ Spent(rows, agents) = 0
<1>1. Some(rows, Open, agents) = {} /\ Some(rows, {"RECONCILED"}, agents) = {}
  BY DEF Some, Begun, Open
<1> QED
  BY <1>1, SumOfNone DEF Reserved, Spent

(* A transaction about one call: what it takes from and adds to the        *)
(* balances is what the call was and is part of.                           *)
Rebooks(c, row) ==
  LET old == reservation[c]
  IN /\ Replaced(reservation, c, row, reservation') /\ row.state # "NONE"
     /\ UNCHANGED holders
     /\ old.state # "NONE" => row.agent = old.agent
     /\ old.state = "NONE" => row.agent \in holders \/ holders = {}
     /\ account'.base = account.base /\ account'.extension = account.extension
     /\ account'.reserved = account.reserved
          - Part(old, Open, Holders, old.amount) + Part(row, Open, Holders, row.amount)
     /\ account'.uncertain = account.uncertain
          - Part(old, {"UNKNOWN"}, Holders, old.amount) + Part(row, {"UNKNOWN"}, Holders, row.amount)
     /\ account'.spent = account.spent
          - Part(old, {"RECONCILED"}, Holders, old.billed)
          + Part(row, {"RECONCILED"}, Holders, row.billed)
     /\ \A h \in Holders : share'[h].allocated = share[h].allocated
     /\ \A h \in Holders \ holders : share'[h].spent = share[h].spent /\ share'[h].reserved = share[h].reserved
     /\ \A h \in holders :
          /\ share'[h].reserved = share[h].reserved
               - Part(old, Open, {h}, old.amount) + Part(row, Open, {h}, row.amount)
          /\ share'[h].spent = share[h].spent
               - Part(old, {"RECONCILED"}, {h}, old.billed)
               + Part(row, {"RECONCILED"}, {h}, row.billed)

LEMMA RebookStep ==
  ASSUME LedgerInv, Inv', NEW c, NEW row, Rebooks(c, row)
  PROVE  LedgerInv'
<1> DEFINE old == reservation[c]
<1>1. Replaced(reservation, c, row, reservation') /\ holders' = holders
  BY DEF Rebooks
<1>2. IsFiniteSet(holders') /\ IsFiniteSet(Begun(reservation'))
  BY <1>1, BegunChanges DEF LedgerInv
<1>3. Balanced'
  <2>1. ASSUME NEW agents
        PROVE  /\ Reserved(reservation', agents) = Reserved(reservation, agents)
                    - Part(old, Open, agents, old.amount) + Part(row, Open, agents, row.amount)
               /\ Spent(reservation', agents) = Spent(reservation, agents)
                    - Part(old, {"RECONCILED"}, agents, old.billed)
                    + Part(row, {"RECONCILED"}, agents, row.billed)
    BY <1>1, RowChanges
  <2>2. Uncertain(reservation') = Uncertain(reservation)
          - Part(old, {"UNKNOWN"}, Holders, old.amount) + Part(row, {"UNKNOWN"}, Holders, row.amount)
    BY <1>1, RowChanges
  <2>3. /\ account'.reserved = Reserved(reservation', Holders)
        /\ account'.spent = Spent(reservation', Holders)
    BY <2>1 DEF Rebooks, LedgerInv, Balanced
  <2>4. account'.uncertain = Uncertain(reservation')
    BY <2>2 DEF Rebooks, LedgerInv, Balanced
  <2>5. ASSUME NEW h \in holders
        PROVE  share'[h].reserved = Reserved(reservation', {h}) /\ share'[h].spent = Spent(reservation', {h})
    BY <2>1, <2>5 DEF Rebooks, LedgerInv, Balanced
  <2> QED
    BY <1>1, <2>3, <2>4, <2>5 DEF Balanced
<1>4. Shared'
  <2>1. account'.base \in Nat /\ \A h \in Holders : share'[h].allocated \in Nat
    BY DEF Rebooks, LedgerInv, Shared
  <2>2. ASSUME NEW h \in Holders \ holders
        PROVE  share'[h].allocated = 0 /\ share'[h].spent = 0 /\ share'[h].reserved = 0
    BY <2>2 DEF Rebooks, LedgerInv, Shared
  <2>3. ASSUME holders # {}, NEW d \in Begun(reservation')
        PROVE  reservation'[d].agent \in holders
    <3>1. CASE d = c
      <4>1. reservation'[c] = row /\ c \in Calls
        BY <1>1 DEF Replaced
      <4> QED
        BY <2>3, <3>1, <4>1 DEF Rebooks, LedgerInv, Shared, Begun
    <3>2. CASE d # c
      <4>1. d \in Begun(reservation) /\ reservation'[d] = reservation[d]
        BY <1>1, <2>3, <3>2 DEF Replaced, Begun
      <4> QED
        BY <2>3, <4>1 DEF LedgerInv, Shared
    <3> QED
      BY <3>1, <3>2
  <2> QED
    BY <1>1, <2>1, <2>2, <2>3 DEF Shared
<1>5. SharesCoverLimit'
  <2>1. Allocated' = Allocated
    BY DEF Allocated, Rebooks
  <2> QED
    BY <1>1, <2>1 DEF SharesCoverLimit, Allocated, Rebooks, LedgerInv
<1> QED
  BY <1>2, <1>3, <1>4, <1>5 DEF LedgerInv

LEMMA ReserveBooks ==
  ASSUME BudgetAssumption, LedgerInv, NEW c \in Calls, NEW agent \in Agents, NEW amount \in Amounts,
         ReserveTokens(c, agent, amount)
  PROVE  LedgerInv'
<1> DEFINE old == reservation[c]
           row == [old EXCEPT !.state = "ACTIVE", !.agent = agent, !.amount = amount]
<1>1. Inv' /\ Inv /\ amount \in Nat /\ agent \in Holders
  BY ReserveStep DEF LedgerInv, BudgetAssumption, Holders
<1>2. /\ old \in Reservation /\ reservation \in [Calls -> Reservation] /\ account \in Balances
      /\ share \in [Holders -> Shares] /\ holders \subseteq Holders
  BY <1>1 DEF Inv, Typed
<1>3. /\ row \in Reservation /\ row.state = "ACTIVE" /\ row.agent = agent /\ row.amount = amount
      /\ row.billed = old.billed
  BY <1>1, <1>2 DEF Reservation
<1>4. reservation' = [reservation EXCEPT ![c] = row] /\ old.state = "NONE" /\ holders' = holders
  BY DEF ReserveTokens
<1> HIDE DEF row, old
<1>5. Replaced(reservation, c, row, reservation')
  BY <1>2, <1>3, <1>4 DEF Replaced, LedgerInv
<1>6. /\ account'.base = account.base /\ account'.extension = account.extension
      /\ account'.reserved = account.reserved + amount
      /\ account'.uncertain = account.uncertain /\ account'.spent = account.spent
      /\ account.uncertain \in Int /\ account.spent \in Int /\ account.reserved \in Int
  BY <1>1, <1>2 DEF ReserveTokens, Balances
<1>7. \A h \in Holders :
        /\ share'[h].allocated = share[h].allocated /\ share'[h].spent = share[h].spent
        /\ share'[h].reserved = IF h = agent /\ h \in holders THEN share[h].reserved + amount
                                ELSE share[h].reserved
        /\ share[h].spent \in Int /\ share[h].reserved \in Int
  BY <1>1, <1>2 DEF ReserveTokens, Shares
<1>8. \A agents : /\ Part(old, Open, agents, old.amount) = 0 /\ Part(old, {"UNKNOWN"}, agents, old.amount) = 0
                  /\ Part(old, {"RECONCILED"}, agents, old.billed) = 0
                  /\ Part(row, {"UNKNOWN"}, agents, row.amount) = 0
                  /\ Part(row, {"RECONCILED"}, agents, row.billed) = 0
                  /\ Part(row, Open, agents, row.amount) = IF agent \in agents THEN amount ELSE 0
  BY <1>3, <1>4 DEF Part, Open
<1>9. \A h \in holders : share'[h].reserved = share[h].reserved
               - Part(old, Open, {h}, old.amount) + Part(row, Open, {h}, row.amount)
  BY <1>1, <1>2, <1>7, <1>8
<1>10. agent \in holders \/ holders = {}
  BY DEF ReserveTokens
<1>11. Rebooks(c, row)
  BY <1>1, <1>2, <1>3, <1>4, <1>5, <1>6, <1>7, <1>8, <1>9, <1>10 DEF Rebooks, old
<1> QED
  BY <1>1, <1>11, RebookStep

LEMMA UncertainBooks ==
  ASSUME BudgetAssumption, LedgerInv, NEW c \in Calls, NEW usage \in Usages,
         ReconcileTokens(c, usage), ReconcileUnknown(c, usage)
  PROVE  LedgerInv'
<1> DEFINE old == reservation[c]
           row == [old EXCEPT !.state = "UNKNOWN", !.usage = usage]
<1>1. Inv' /\ Inv /\ usage \in Usage
  BY UncertainStep DEF LedgerInv, BudgetAssumption
<1>2. /\ old \in Reservation /\ reservation \in [Calls -> Reservation] /\ account \in Balances
      /\ share \in [Holders -> Shares] /\ holders \subseteq Holders
      /\ old.agent \in Holders /\ old.amount \in Nat
  BY <1>1 DEF Inv, Typed, Reservation
<1>3. /\ row \in Reservation /\ row.state = "UNKNOWN" /\ row.agent = old.agent
      /\ row.amount = old.amount /\ row.billed = old.billed
  BY <1>1, <1>2 DEF Reservation
<1>4. /\ reservation' = [reservation EXCEPT ![c] = row] /\ holders' = holders /\ share' = share
      /\ old.state \in {"ACTIVE", "UNKNOWN"}
  BY DEF ReconcileTokens, ReconcileUnknown, OpenToBill
<1>5. account' = [account EXCEPT !.uncertain = @ + IF old.state = "ACTIVE" THEN old.amount ELSE 0]
  BY DEF ReconcileUnknown, BecomesUncertain
<1> HIDE DEF row, old
<1>6. Replaced(reservation, c, row, reservation')
  BY <1>2, <1>3, <1>4 DEF Replaced, LedgerInv
<1>7. /\ account'.base = account.base /\ account'.extension = account.extension
      /\ account'.reserved = account.reserved /\ account'.spent = account.spent
      /\ account'.uncertain = account.uncertain + IF old.state = "ACTIVE" THEN old.amount ELSE 0
      /\ account.uncertain \in Int /\ account.spent \in Int /\ account.reserved \in Int
  BY <1>2, <1>5 DEF Balances
<1>8. \A h \in Holders : share[h].spent \in Int /\ share[h].reserved \in Int
  BY <1>2 DEF Shares
<1>9. \A agents : /\ Part(old, Open, agents, old.amount) = Part(row, Open, agents, row.amount)
                  /\ Part(old, Open, agents, old.amount) \in Nat
                  /\ Part(old, {"RECONCILED"}, agents, old.billed) = 0
                  /\ Part(row, {"RECONCILED"}, agents, row.billed) = 0
  BY <1>2, <1>3, <1>4 DEF Part, Open
<1>10. /\ Part(row, {"UNKNOWN"}, Holders, row.amount) = old.amount
       /\ Part(old, {"UNKNOWN"}, Holders, old.amount) = IF old.state = "ACTIVE" THEN 0 ELSE old.amount
  BY <1>2, <1>3, <1>4 DEF Part
<1>11. account'.uncertain = account.uncertain
          - Part(old, {"UNKNOWN"}, Holders, old.amount) + Part(row, {"UNKNOWN"}, Holders, row.amount)
  BY <1>2, <1>7, <1>10
<1>12. Rebooks(c, row)
  BY <1>2, <1>3, <1>4, <1>6, <1>7, <1>8, <1>9, <1>11 DEF Rebooks, old
<1> QED
  BY <1>1, <1>12, RebookStep

LEMMA BillBooks ==
  ASSUME BudgetAssumption, LedgerInv, NEW c \in Calls, NEW usage \in Usages,
         ReconcileTokens(c, usage), ReconcileKnown(c, usage)
  PROVE  LedgerInv'
<1> DEFINE old == reservation[c]
           billed == BilledTokens(usage)
           row == [old EXCEPT !.state = "RECONCILED", !.billed = billed, !.usage = usage]
<1>1. Inv' /\ Inv /\ usage \in Usage /\ billed \in Nat
  BY BillStep, KnownBill DEF LedgerInv, BudgetAssumption, ReconcileKnown
<1> HIDE DEF billed
<1>2. /\ old \in Reservation /\ reservation \in [Calls -> Reservation] /\ account \in Balances
      /\ share \in [Holders -> Shares] /\ holders \subseteq Holders
      /\ old.agent \in Holders /\ old.amount \in Nat
  BY <1>1 DEF Inv, Typed, Reservation
<1>3. /\ row \in Reservation /\ row.state = "RECONCILED" /\ row.agent = old.agent
      /\ row.amount = old.amount /\ row.billed = billed
  BY <1>1, <1>2 DEF Reservation
<1>4. /\ reservation' = [reservation EXCEPT ![c] = row] /\ holders' = holders
      /\ old.state \in {"ACTIVE", "UNKNOWN"}
  BY DEF ReconcileTokens, ReconcileKnown, OpenToBill, billed
<1>5. /\ account' = [account EXCEPT
           !.reserved = @ - old.amount,
           !.uncertain = @ - (IF old.state = "UNKNOWN" THEN old.amount ELSE 0),
           !.spent = @ + billed]
      /\ share' = [h \in Holders |->
           IF h = old.agent /\ h \in holders
           THEN [share[h] EXCEPT !.reserved = @ - old.amount, !.spent = @ + billed] ELSE share[h]]
  BY DEF ReconcileKnown, billed
<1> HIDE DEF row, old
<1>6. Replaced(reservation, c, row, reservation')
  BY <1>2, <1>3, <1>4 DEF Replaced, LedgerInv
<1>7. /\ account'.base = account.base /\ account'.extension = account.extension
      /\ account'.reserved = account.reserved - old.amount /\ account'.spent = account.spent + billed
      /\ account'.uncertain = account.uncertain - (IF old.state = "UNKNOWN" THEN old.amount ELSE 0)
      /\ account.uncertain \in Int /\ account.spent \in Int /\ account.reserved \in Int
  BY <1>2, <1>5 DEF Balances
<1>8. \A h \in Holders :
        /\ share'[h].allocated = share[h].allocated
        /\ share'[h].spent = IF h = old.agent /\ h \in holders THEN share[h].spent + billed
                             ELSE share[h].spent
        /\ share'[h].reserved = IF h = old.agent /\ h \in holders THEN share[h].reserved - old.amount
                                ELSE share[h].reserved
        /\ share[h].spent \in Int /\ share[h].reserved \in Int
  BY <1>2, <1>5 DEF Shares
<1>9. \A agents : /\ Part(old, Open, agents, old.amount) = IF old.agent \in agents THEN old.amount ELSE 0
                  /\ Part(row, Open, agents, row.amount) = 0
                  /\ Part(row, {"UNKNOWN"}, agents, row.amount) = 0
                  /\ Part(old, {"RECONCILED"}, agents, old.billed) = 0
                  /\ Part(row, {"RECONCILED"}, agents, row.billed) = IF old.agent \in agents THEN billed ELSE 0
  BY <1>2, <1>3, <1>4 DEF Part, Open
<1>10. Part(old, {"UNKNOWN"}, Holders, old.amount) = IF old.state = "UNKNOWN" THEN old.amount ELSE 0
  BY <1>2 DEF Part
<1>11. \A h \in holders :
          /\ share'[h].reserved = share[h].reserved
               - Part(old, Open, {h}, old.amount) + Part(row, Open, {h}, row.amount)
          /\ share'[h].spent = share[h].spent
               - Part(old, {"RECONCILED"}, {h}, old.billed)
               + Part(row, {"RECONCILED"}, {h}, row.billed)
  BY <1>1, <1>2, <1>8, <1>9
<1>12. Rebooks(c, row)
  BY <1>1, <1>2, <1>3, <1>4, <1>6, <1>7, <1>8, <1>9, <1>10, <1>11 DEF Rebooks, old
<1> QED
  BY <1>1, <1>12, RebookStep

LEMMA ReleaseBooks ==
  ASSUME BudgetAssumption, LedgerInv, NEW c \in Calls, ReleaseTokens(c)
  PROVE  LedgerInv'
<1> DEFINE old == reservation[c]
           row == [old EXCEPT !.state = "RELEASED"]
<1>1. Inv' /\ Inv
  BY ReleaseStep DEF LedgerInv
<1>2. /\ old \in Reservation /\ reservation \in [Calls -> Reservation] /\ account \in Balances
      /\ share \in [Holders -> Shares] /\ holders \subseteq Holders
      /\ old.agent \in Holders /\ old.amount \in Nat
  BY <1>1 DEF Inv, Typed, Reservation
<1>3. /\ row \in Reservation /\ row.state = "RELEASED" /\ row.agent = old.agent
      /\ row.amount = old.amount /\ row.billed = old.billed
  BY <1>2 DEF Reservation
<1>4. /\ reservation' = [reservation EXCEPT ![c] = row] /\ holders' = holders /\ old.state = "ACTIVE"
  BY DEF ReleaseTokens
<1>5. /\ account' = [account EXCEPT !.reserved = @ - old.amount]
      /\ share' = [h \in Holders |-> IF h = old.agent /\ h \in holders
                                     THEN [share[h] EXCEPT !.reserved = @ - old.amount] ELSE share[h]]
  BY DEF ReleaseTokens
<1> HIDE DEF row, old
<1>6. Replaced(reservation, c, row, reservation')
  BY <1>2, <1>3, <1>4 DEF Replaced, LedgerInv
<1>7. /\ account'.base = account.base /\ account'.extension = account.extension
      /\ account'.reserved = account.reserved - old.amount /\ account'.spent = account.spent
      /\ account'.uncertain = account.uncertain
      /\ account.uncertain \in Int /\ account.spent \in Int /\ account.reserved \in Int
  BY <1>2, <1>5 DEF Balances
<1>8. \A h \in Holders :
        /\ share'[h].allocated = share[h].allocated /\ share'[h].spent = share[h].spent
        /\ share'[h].reserved = IF h = old.agent /\ h \in holders THEN share[h].reserved - old.amount
                                ELSE share[h].reserved
        /\ share[h].spent \in Int /\ share[h].reserved \in Int
  BY <1>2, <1>5 DEF Shares
<1>9. \A agents : /\ Part(old, Open, agents, old.amount) = IF old.agent \in agents THEN old.amount ELSE 0
                  /\ Part(row, Open, agents, row.amount) = 0
                  /\ Part(old, {"UNKNOWN"}, agents, old.amount) = 0
                  /\ Part(row, {"UNKNOWN"}, agents, row.amount) = 0
                  /\ Part(old, {"RECONCILED"}, agents, old.billed) = 0
                  /\ Part(row, {"RECONCILED"}, agents, row.billed) = 0
  BY <1>2, <1>3, <1>4 DEF Part, Open
<1>10. \A h \in holders :
          share'[h].reserved = share[h].reserved
            - Part(old, Open, {h}, old.amount) + Part(row, Open, {h}, row.amount)
  BY <1>2, <1>8, <1>9
<1>11. Rebooks(c, row)
  BY <1>2, <1>3, <1>4, <1>6, <1>7, <1>8, <1>9, <1>10 DEF Rebooks, old
<1> QED
  BY <1>1, <1>11, RebookStep

(* What the others do leaves the calls alone.                              *)
LEMMA SameBooks ==
  ASSUME LedgerInv, reservation' = reservation, holders' = holders,
         \A h \in holders : share'[h].spent = share[h].spent /\ share'[h].reserved = share[h].reserved,
         account'.spent = account.spent, account'.reserved = account.reserved,
         account'.uncertain = account.uncertain
  PROVE  Balanced' /\ IsFiniteSet(holders') /\ IsFiniteSet(Begun(reservation'))
BY DEF LedgerInv, Balanced


LEMMA ReassignBooks ==
  ASSUME BudgetAssumption, LedgerInv, NEW from \in Holders, NEW to \in Holders, NEW amount \in Amounts,
         ReassignAgentTokens(from, to, amount)
  PROVE  LedgerInv'
<1>1. /\ Inv' /\ Inv /\ amount \in Nat /\ share \in [Holders -> Shares] /\ holders \subseteq Holders
      /\ from # to /\ amount > 0 /\ from \in holders /\ to \in holders
      /\ amount <= Remaining(share[from].allocated, share[from])
      /\ account' = account /\ holders' = holders /\ reservation' = reservation
  <2>1. /\ from # to /\ amount > 0 /\ from \in holders /\ to \in holders
        /\ amount <= Remaining(share[from].allocated, share[from])
        /\ account' = account /\ holders' = holders /\ reservation' = reservation
    BY DEF ReassignAgentTokens
  <2>2. Inv /\ amount \in Nat
    BY DEF LedgerInv, BudgetAssumption
  <2>3. Inv'
    BY <2>2, ReassignStep
  <2>4. share \in [Holders -> Shares] /\ holders \subseteq Holders
    BY <2>2 DEF Inv, Typed
  <2> QED
    BY <2>1, <2>2, <2>3, <2>4
<1>2. share' = [share EXCEPT ![from].allocated = @ - amount, ![to].allocated = @ + amount]
  BY DEF ReassignAgentTokens, Moved
<1>3. \A h \in Holders :
        /\ share'[h].spent = share[h].spent /\ share'[h].reserved = share[h].reserved
        /\ share'[h].allocated = IF h = from THEN share[h].allocated - amount
                                 ELSE IF h = to THEN share[h].allocated + amount
                                 ELSE share[h].allocated
  BY <1>1, <1>2 DEF Shares
<1>4. share[from].spent \in Nat /\ share[from].reserved \in Nat
  <2>1. reservation \in [Calls -> Reservation] /\ IsFiniteSet(Begun(reservation))
    BY <1>1 DEF Inv, Typed, LedgerInv
  <2>2. Reserved(reservation, {from}) \in Nat /\ Spent(reservation, {from}) \in Nat
    BY <2>1, SumsAreNat
  <2> QED
    BY <1>1, <2>2 DEF LedgerInv, Balanced
<1>5. \A h \in Holders : share[h].allocated \in Nat
  BY DEF LedgerInv, Shared
<1>6. amount <= share[from].allocated
  BY <1>1, <1>4, <1>5 DEF Remaining
<1>7. Shared'
  <2>1. \A h \in Holders : share'[h].allocated \in Nat
    BY <1>1, <1>3, <1>5, <1>6
  <2>2. \A h \in Holders \ holders :
          share'[h].allocated = 0 /\ share'[h].spent = 0 /\ share'[h].reserved = 0
    BY <1>1, <1>3 DEF LedgerInv, Shared
  <2> QED
    BY <1>1, <2>1, <2>2 DEF LedgerInv, Shared
<1>8. Balanced' /\ IsFiniteSet(holders') /\ IsFiniteSet(Begun(reservation'))
  BY <1>1, <1>3, SameBooks
<1>9. SharesCoverLimit'
  <2> DEFINE H == holders
             both == [Allocated EXCEPT ![from] = @ - amount]
  <2>1. Allocated \in [Holders -> Nat] /\ both \in [Holders -> Int] /\ Allocated' \in [Holders -> Int]
    BY <1>1, <1>3, <1>5 DEF Allocated
  <2>2. /\ both[from] = Allocated[from] - amount /\ Allocated'[to] = both[to] + amount
        /\ \A h \in Holders \ {from} : both[h] = Allocated[h]
        /\ \A h \in Holders \ {to} : Allocated'[h] = both[h]
    BY <1>1, <1>3, <1>5 DEF Allocated
  <2> DEFINE after == Allocated'
  <2> HIDE DEF both, after
  <2>3. IsFiniteSet(H) /\ H \subseteq Holders
    BY <1>1 DEF LedgerInv
  <2>4. Differ(Allocated, H, both, H, from) /\ Differ(both, H, after, H, to)
    BY <2>1, <2>2, <2>3 DEF Differ, after
  <2>5. /\ SumFunctionOnSet(both, H) = SumFunctionOnSet(Allocated, H)
             - At(Allocated, H, from) + At(both, H, from)
        /\ SumFunctionOnSet(Allocated, H) \in Int /\ SumFunctionOnSet(both, H) \in Int
    BY <2>4, SumChanges
  <2>6. SumFunctionOnSet(after, H) = SumFunctionOnSet(both, H) - At(both, H, to) + At(after, H, to)
    BY <2>4, SumChanges
  <2>7. /\ At(Allocated, H, from) = Allocated[from] /\ At(both, H, from) = both[from]
        /\ At(both, H, to) = both[to] /\ At(after, H, to) = after[to]
    BY <1>1 DEF At
  <2>8. /\ after[to] = both[to] + amount /\ both[from] = Allocated[from] - amount
        /\ Allocated[from] \in Int /\ both[to] \in Int
    BY <1>1, <2>1, <2>2 DEF after
  <2>9. SumFunctionOnSet(after, H) = SumFunctionOnSet(Allocated, H)
    BY <1>1, <2>5, <2>6, <2>7, <2>8
  <2> QED
    BY <1>1, <2>9 DEF SharesCoverLimit, Allocated, LedgerInv, after
<1> QED
  BY <1>1, <1>7, <1>8, <1>9 DEF LedgerInv

LEMMA ExtendBooks ==
  ASSUME BudgetAssumption, LedgerInv, NEW approval \in Approvals, ExtendTokenBudget(approval)
  PROVE  LedgerInv'
<1>1. /\ Inv' /\ Inv /\ share \in [Holders -> Shares] /\ holders \subseteq Holders
      /\ account \in Balances /\ reservation' = reservation /\ Increment \in Nat
  BY ExtendStep, Parts DEF LedgerInv, ExtendTokenBudget, Inv, Typed
<1>2. /\ account'.spent = account.spent /\ account'.reserved = account.reserved
      /\ account'.uncertain = account.uncertain /\ account'.base = account.base
      /\ account'.extension = account.extension + Increment
      /\ account.base \in Int /\ account.extension \in Int
  BY <1>1 DEF ExtendTokenBudget, Balances
<1>3. CASE holders = {}
  <2>1. holders' = {} /\ share' = share
    BY <1>3 DEF ExtendTokenBudget
  <2>2. Balanced' /\ IsFiniteSet(holders') /\ IsFiniteSet(Begun(reservation'))
    BY <1>1, <1>2, <1>3, <2>1, SameBooks
  <2>3. Shared' /\ SharesCoverLimit'
    BY <1>1, <1>2, <1>3, <2>1 DEF LedgerInv, Shared, SharesCoverLimit
  <2> QED
    BY <1>1, <2>2, <2>3 DEF LedgerInv
<1>4. CASE holders # {}
  <2>1. /\ holders' = holders \cup {Pool} /\ Pool \in Holders
        /\ share' = [share EXCEPT ![Pool].allocated = @ + Increment]
    BY <1>4 DEF ExtendTokenBudget, Holders
  <2>2. \A h \in Holders :
          /\ share'[h].spent = share[h].spent /\ share'[h].reserved = share[h].reserved
          /\ share'[h].allocated = IF h = Pool THEN share[h].allocated + Increment ELSE share[h].allocated
          /\ share[h].allocated \in Nat
    BY <1>1, <2>1 DEF Shares, LedgerInv, Shared
  <2>3. IsFiniteSet(holders') /\ IsFiniteSet(Begun(reservation'))
    BY <1>1, <2>1, FS_AddElement DEF LedgerInv
  <2>4. Shared'
    <3>1. \A h \in Holders : share'[h].allocated \in Nat
      BY <1>1, <2>2
    <3>2. \A h \in Holders \ holders' :
            share'[h].allocated = 0 /\ share'[h].spent = 0 /\ share'[h].reserved = 0
      BY <2>1, <2>2 DEF LedgerInv, Shared
    <3>3. \A c \in Begun(reservation') : reservation'[c].agent \in holders'
      BY <1>1, <1>4, <2>1 DEF LedgerInv, Shared
    <3> QED
      BY <1>2, <3>1, <3>2, <3>3 DEF LedgerInv, Shared
  <2>5. Balanced'
    <3>1. ASSUME NEW h \in holders'
          PROVE  share'[h].reserved = Reserved(reservation', {h}) /\ share'[h].spent = Spent(reservation', {h})
      <4>1. CASE h \in holders
        BY <1>1, <2>2, <4>1 DEF LedgerInv, Balanced
      <4>2. CASE h \notin holders
        <5>1. share'[h].reserved = 0 /\ share'[h].spent = 0
          BY <2>1, <2>2, <4>2 DEF LedgerInv, Shared
        <5>2. \A c \in Begun(reservation) : reservation[c].agent \notin {h}
          BY <1>4, <4>2 DEF LedgerInv, Shared
        <5>3. Reserved(reservation, {h}) = 0 /\ Spent(reservation, {h}) = 0
          BY <5>2, NothingBooked
        <5> QED
          BY <1>1, <5>1, <5>3
      <4> QED
        BY <4>1, <4>2
    <3> QED
      BY <1>1, <1>2, <3>1 DEF LedgerInv, Balanced
  <2>6. SharesCoverLimit'
    <3> DEFINE after == Allocated'
               S == holders
               T == holders \cup {Pool}
    <3>1. Allocated \in [Holders -> Nat] /\ after \in [Holders -> Int]
      BY <1>1, <2>2 DEF Allocated
    <3>2. after[Pool] = Allocated[Pool] + Increment /\ \A h \in Holders \ {Pool} : after[h] = Allocated[h]
      BY <2>1, <2>2 DEF Allocated
    <3>3. S \subseteq Holders /\ T \subseteq Holders /\ S \ {Pool} = T \ {Pool} /\ IsFiniteSet(S) /\ IsFiniteSet(T)
      BY <1>1, <2>1, <2>3 DEF LedgerInv
    <3>4. Pool \notin holders => Allocated[Pool] = 0
      BY <2>1 DEF Allocated, LedgerInv, Shared
    <3> HIDE DEF after, S, T
    <3>5. Differ(Allocated, S, after, T, Pool)
      BY <3>1, <3>2, <3>3 DEF Differ
    <3>6. /\ SumFunctionOnSet(after, T) = SumFunctionOnSet(Allocated, S)
               - At(Allocated, S, Pool) + At(after, T, Pool)
          /\ SumFunctionOnSet(Allocated, S) \in Int
      BY <3>5, SumChanges
    <3>7. At(Allocated, S, Pool) = Allocated[Pool] /\ At(after, T, Pool) = after[Pool]
      BY <3>4 DEF At, S, T
    <3>8. SumFunctionOnSet(after, T) = SumFunctionOnSet(Allocated, S) + Increment
      <4>1. Allocated[Pool] \in Int /\ after[Pool] = Allocated[Pool] + Increment
        BY <2>1, <3>1, <3>2
      <4> QED
        BY <1>1, <3>6, <3>7, <4>1
    <3>9. SumFunctionOnSet(Allocated, S) = account.base + account.extension
      BY <1>4 DEF LedgerInv, SharesCoverLimit, Allocated, S
    <3>10. SumFunctionOnSet(after, T) = account'.base + account'.extension
      BY <1>1, <1>2, <3>8, <3>9
    <3> QED
      BY <2>1, <3>10 DEF SharesCoverLimit, Allocated, after, T
  <2> QED
    BY <1>1, <2>3, <2>4, <2>5, <2>6 DEF LedgerInv
<1> QED
  BY <1>3, <1>4


(* The last agent of a list gets what the others leave, so the shares of   *)
(* the list add up to the limit.                                           *)
LEMMA ConfigureBooks ==
  ASSUME BudgetAssumption, LedgerInv, NEW mode \in DOMAIN Percent, NEW list \in ShareLists,
         ConfigureTokenBudget(mode, list)
  PROVE  LedgerInv'
<1> DEFINE base == (FullLimit * Percent[mode]) \div 100
           I == DOMAIN list
           agent == [i \in I |-> list[i][1]]
<1>1. Inv' /\ Inv /\ base \in Nat
  BY ConfigureStep, Parts DEF LedgerInv
<1> HIDE DEF base
<1>2. /\ ~account.configured /\ account' = [account EXCEPT !.configured = TRUE, !.base = base]
      /\ holders' = {list[i][1] : i \in I} /\ reservation' = reservation
  BY DEF ConfigureTokenBudget, base
<1>3. PICK allotted \in Allotments(list, base) :
        share' = [h \in Holders |->
            IF \E i \in I : list[i][1] = h
            THEN [share[h] EXCEPT !.allocated = allotted[CHOOSE i \in I : list[i][1] = h]]
            ELSE share[h]]
  BY DEF ConfigureTokenBudget, base
<1>4. /\ allotted \in [I -> 0 .. base]
      /\ list # <<>> => SumFunctionOnSet(allotted, I) = base
  BY <1>3 DEF Allotments, SumFunction
<1>5. /\ account.extension = 0 /\ account.spent = 0 /\ account.reserved = 0 /\ holders = {}
      /\ \A h \in Holders : share[h].spent = 0 /\ share[h].reserved = 0
      /\ Begun(reservation) = {}
      /\ account \in Balances /\ share \in [Holders -> Shares] /\ holders' \subseteq Holders
  BY <1>1, <1>2 DEF Inv, Untouched, Typed, Begun
<1>6. /\ account'.base = base /\ account'.extension = 0 /\ account'.spent = 0
      /\ account'.reserved = 0 /\ account'.uncertain = account.uncertain
  BY <1>2, <1>5 DEF Balances
<1>7. \A i, j \in I : agent[i] = agent[j] => i = j
  BY DEF BudgetAssumption
<1>8. IsFiniteSet(I)
  <2>1. list \in Seq(Agents \X (1 .. 100))
    BY DEF BudgetAssumption
  <2> QED
    BY <2>1, FS_Interval
<1>9. holders' = {agent[i] : i \in I} /\ \A i \in I : agent[i] \in holders' /\ agent[i] = list[i][1]
  BY <1>2
<1> HIDE DEF I
<1>10. IsFiniteSet(holders')
  <2> HIDE DEF agent
  <2>1. IsFiniteSet({agent[i] : i \in I})
    BY <1>8, FiniteImage
  <2> QED
    BY <1>9, <2>1
<1>11. ASSUME NEW h \in Holders
       PROVE  /\ share'[h].spent = 0 /\ share'[h].reserved = 0 /\ share'[h].allocated \in Nat
              /\ h \notin holders' => share'[h].allocated = 0
  <2>1. share[h] \in Shares /\ share[h].spent = 0 /\ share[h].reserved = 0 /\ share[h].allocated = 0
    BY <1>5 DEF LedgerInv, Shared
  <2>2. CASE \E i \in I : list[i][1] = h
    <3> DEFINE k == CHOOSE i \in I : list[i][1] = h
    <3>1. k \in I /\ list[k][1] = h
      BY <2>2
    <3>2. share'[h] = [share[h] EXCEPT !.allocated = allotted[k]]
      BY <1>3, <2>2
    <3> HIDE DEF k
    <3>3. allotted[k] \in Nat
      BY <1>1, <1>4, <3>1
    <3> QED
      BY <1>2, <2>1, <3>1, <3>2, <3>3 DEF Shares
  <2>3. CASE ~\E i \in I : list[i][1] = h
    BY <1>3, <2>1, <2>3
  <2> QED
    BY <2>2, <2>3
<1>12. ASSUME NEW i \in I
       PROVE  share'[agent[i]].allocated = allotted[i]
  <2> DEFINE h == list[i][1]
             k == CHOOSE j \in I : list[j][1] = h
  <2>1. k \in I /\ list[k][1] = h
    OBVIOUS
  <2>2. k = i
    BY <1>7, <1>9, <2>1
  <2>3. h \in Holders /\ h = agent[i]
    BY <1>5, <1>9
  <2>4. share'[h] = [share[h] EXCEPT !.allocated = allotted[k]]
    BY <1>3, <2>3
  <2> HIDE DEF h, k
  <2>5. share[h] \in Shares
    BY <1>5, <2>3
  <2> QED
    BY <2>2, <2>3, <2>4, <2>5 DEF Shares
<1>13. Shared'
  BY <1>1, <1>2, <1>5, <1>6, <1>11 DEF Shared, Begun
<1>14. Balanced'
  <2>1. \A agents : Reserved(reservation, agents) = 0 /\ Spent(reservation, agents) = 0
    BY <1>5, NothingBooked
  <2>2. \A h \in holders' : share'[h].spent = 0 /\ share'[h].reserved = 0
    BY <1>5, <1>11
  <2> QED
    BY <1>2, <1>5, <1>6, <2>1, <2>2 DEF LedgerInv, Balanced
<1>15. SharesCoverLimit'
  <2>1. CASE list = <<>>
    <3>1. holders' = {}
      BY <1>2, <2>1 DEF I
    <3> QED
      BY <3>1 DEF SharesCoverLimit
  <2>2. CASE list # <<>>
    <3> DEFINE after == Allocated'
    <3>1. \A i \in I : after[agent[i]] = allotted[i]
      BY <1>5, <1>9, <1>12 DEF Allocated
    <3>2. \A i \in I : allotted[i] \in Int
      BY <1>1, <1>4
    <3> HIDE DEF after, agent
    <3>3. Renames(agent, I, allotted, after)
      BY <1>7, <1>8, <3>1, <3>2 DEF Renames
    <3>4. SumFunctionOnSet(after, {agent[i] : i \in I}) = SumFunctionOnSet(allotted, I)
      BY <3>3, SumRenamed
    <3>5. SumFunctionOnSet(after, holders') = account'.base + account'.extension
      BY <1>1, <1>4, <1>6, <1>9, <2>2, <3>4
    <3> QED
      BY <3>5 DEF SharesCoverLimit, Allocated, after
  <2> QED
    BY <2>1, <2>2
<1>16. IsFiniteSet(Begun(reservation'))
  BY <1>2 DEF LedgerInv
<1> QED
  BY <1>1, <1>10, <1>13, <1>14, <1>15, <1>16 DEF LedgerInv

LEMMA InitBooks == ASSUME BudgetAssumption, Init PROVE LedgerInv
<1>1. Inv
  BY InitInv
<1>2. holders = {} /\ Begun(reservation) = {}
  BY DEF Init, Begun
<1>3. IsFiniteSet(holders) /\ IsFiniteSet(Begun(reservation)) /\ SharesCoverLimit
  BY <1>2, FS_EmptySet DEF SharesCoverLimit
<1>4. Shared
  BY <1>2 DEF Init, Shared
<1>5. Reserved(reservation, Holders) = 0 /\ Spent(reservation, Holders) = 0
  BY <1>2, NothingBooked
<1>6. Uncertain(reservation) = 0
  <2>1. Some(reservation, {"UNKNOWN"}, Holders) = {}
    BY DEF Init, Some
  <2> QED
    BY <2>1, SumOfNone DEF Uncertain
<1>7. Balanced
  BY <1>2, <1>5, <1>6 DEF Init, Balanced
<1> QED
  BY <1>1, <1>3, <1>4, <1>7 DEF LedgerInv

LEMMA LedgerStep == ASSUME BudgetAssumption, LedgerInv, Next PROVE LedgerInv'
<1>1. ASSUME NEW c \in Calls, NEW usage \in Usages, ReconcileTokens(c, usage)
      PROVE  LedgerInv'
  BY <1>1, UncertainBooks, BillBooks DEF ReconcileTokens
<1> QED
  BY <1>1, ConfigureBooks, ReserveBooks, ReleaseBooks, ReassignBooks, ExtendBooks DEF Next

(* The balances are the sums of the reservations, and the shares of the    *)
(* agents add up to the limit (BudgetLedger).                              *)
THEOREM LedgerHolds ==
  ASSUME BudgetAssumption
  PROVE  Spec => []LedgerInv
<1>1. ASSUME LedgerInv, UNCHANGED vars
      PROVE  LedgerInv'
  <2>1. Inv'
    BY <1>1 DEF LedgerInv, Inv, vars, Typed, Untouched, OverspendIsBilled, ExtensionsAreApproved,
                BillCoversReport, In, Effective
  <2> QED
    BY <1>1, <2>1 DEF LedgerInv, vars, Shared, Balanced, SharesCoverLimit
<1>2. LedgerInv /\ [Next]_vars => LedgerInv'
  BY <1>1, LedgerStep
<1> QED
  BY InitBooks, <1>2, PTL DEF Spec

(* LedgerIsSound: so no balance is ever negative and every balance and     *)
(* every share is accounted for (budgets, all operations on tokens).       *)
THEOREM LedgerSound ==
  ASSUME BudgetAssumption
  PROVE  Spec => []LedgerIsSound
<1>1. ASSUME LedgerInv
      PROVE  LedgerIsSound
  <2>1. /\ Inv /\ Shared /\ Balanced /\ SharesCoverLimit /\ IsFiniteSet(Begun(reservation))
        /\ ExtensionsAreApproved /\ BillCoversReport
    BY <1>1 DEF LedgerInv, Inv
  <2>2. /\ account \in Balances /\ share \in [Holders -> Shares] /\ holders \subseteq Holders
        /\ reservation \in [Calls -> Reservation] /\ used \subseteq Approvals
        /\ excess \in [Holders \cup {"account"} -> Nat]
    BY <2>1 DEF Inv, Typed
  <2>3. /\ Uncertain(reservation) \in Nat
        /\ \A agents : Reserved(reservation, agents) \in Nat /\ Spent(reservation, agents) \in Nat
    BY <2>1, <2>2, SumsAreNat
  <2>4. TypeOK
    <3>1. account.extension \in Nat
      <4>1. Cardinality(used) \in Nat
        BY <2>2, FS_Subset, FS_CardinalityType DEF BudgetAssumption
      <4> QED
        BY <2>1, <4>1, Parts DEF ExtensionsAreApproved
    <3>2. account \in Account
      BY <2>1, <2>2, <2>3, <3>1 DEF Balances, Account, Balanced, Shared
    <3>3. ASSUME NEW h \in Holders
          PROVE  share[h] \in Share
      <4>1. share[h].spent \in Nat /\ share[h].reserved \in Nat /\ share[h].allocated \in Nat
        BY <2>1, <2>3 DEF Balanced, Shared
      <4> QED
        BY <2>2, <4>1 DEF Shares, Share
    <3> QED
      BY <2>2, <3>2, <3>3 DEF TypeOK
  <2>5. LedgerBalances
    <3>1. /\ In({"ACTIVE", "UNKNOWN"}) = Some(reservation, Open, Holders)
          /\ In({"UNKNOWN"}) = Some(reservation, {"UNKNOWN"}, Holders)
          /\ In({"RECONCILED"}) = Some(reservation, {"RECONCILED"}, Holders)
      BY <2>2 DEF In, Some, Open, Reservation
    <3>2. ASSUME NEW a
          PROVE  /\ In({"ACTIVE", "UNKNOWN"}) \cap By(a) = Some(reservation, Open, {a})
                 /\ In({"RECONCILED"}) \cap By(a) = Some(reservation, {"RECONCILED"}, {a})
      BY DEF In, By, Some, Open
    <3> QED
      BY <2>1, <3>1, <3>2
      DEF LedgerBalances, Balanced, Reserved, Uncertain, Spent, Amounted, Billed
  <2> QED
    BY <2>1, <2>4, <2>5 DEF LedgerIsSound
<1> QED
  BY <1>1, LedgerHolds, PTL

-----------------------------------------------------------------------------
(***************************************************************************)
(* Costs.  The bound needs no sums (CostInv): a reservation and an excess  *)
(* fit into what remains of the limit, or add nothing when nothing remains,*)
(* and everything else lowers what is spent or reserved, or sets the limit *)
(* anew.  The sums follow after it.                                        *)
(***************************************************************************)
(* The balances are integers in the bound, which does not depend on their  *)
(* not being negative: the sums show that (CostsSound).                    *)
CostBalances == [known : BOOLEAN, limit : Nat, spent : Int, reserved : Int]

CostInv ==
  /\ costs \in [Scopes -> CostBalances]
  /\ bookings \in [Bookings -> Costs!Reservation]
  /\ highest \in [Scopes -> Nat]
  /\ \A s \in Scopes : costs[s].limit <= highest[s]
  /\ Costs!SpendingStaysUnderLimits

(* What remains is nothing, or ends at the limit.                          *)
LEMMA RemainingFits ==
  ASSUME NEW acc \in CostBalances
  PROVE  /\ Costs!Remaining(acc) \in Nat
         /\ \/ Costs!Remaining(acc) = 0
            \/ acc.spent + acc.reserved + Costs!Remaining(acc) = acc.limit
BY DEF Costs!Remaining, CostBalances

(* One account and one reservation change.                                 *)
Booked(s, id, spent, reserved, row) ==
  /\ costs' = [costs EXCEPT ![s] = [@ EXCEPT !.spent = spent, !.reserved = reserved]]
  /\ bookings' = [bookings EXCEPT ![id] = row]
  /\ UNCHANGED highest
  /\ spent + reserved <= highest[s]

LEMMA BookingKeepsCostInv ==
  ASSUME CostInv,
         \E s \in Scopes, id \in Bookings, spent, reserved \in Int, row \in Costs!Reservation :
           Booked(s, id, spent, reserved, row)
  PROVE  CostInv'
<1> PICK s \in Scopes, id \in Bookings, spent \in Int, reserved \in Int, row \in Costs!Reservation :
           Booked(s, id, spent, reserved, row)
  OBVIOUS
<1> USE DEF Booked
<1> DEFINE acc == [costs[s] EXCEPT !.spent = spent, !.reserved = reserved]
<1>1. /\ acc \in CostBalances /\ acc.limit = costs[s].limit
      /\ acc.spent = spent /\ acc.reserved = reserved
  <2>1. costs[s] \in CostBalances
    BY DEF CostInv
  <2> QED
    BY <2>1 DEF CostBalances
<1>1a. costs' = [costs EXCEPT ![s] = acc]
  OBVIOUS
<1> HIDE DEF acc
<1>2. costs' \in [Scopes -> CostBalances] /\ bookings' \in [Bookings -> Costs!Reservation]
  BY <1>1, <1>1a DEF CostInv
<1>3. /\ costs'[s].limit = costs[s].limit
      /\ costs'[s].spent = spent /\ costs'[s].reserved = reserved
      /\ \A t \in Scopes \ {s} : costs'[t] = costs[t]
  BY <1>1, <1>1a DEF CostInv
<1>4. Costs!SpendingStaysUnderLimits'
  BY <1>3 DEF CostInv, Costs!SpendingStaysUnderLimits
<1> QED
  BY <1>2, <1>3, <1>4 DEF CostInv

LEMMA SetLimitStep ==
  ASSUME Costs!AmountsAssumption, CostInv, NEW s \in Scopes, NEW limit \in Limits, Costs!SetLimit(s, limit)
  PROVE  CostInv'
<1>1. limit \in Nat /\ costs[s] \in CostBalances /\ highest[s] \in Nat
  BY DEF Costs!AmountsAssumption, CostInv
<1>2. [costs[s] EXCEPT !.known = TRUE, !.limit = limit] \in CostBalances
  BY <1>1 DEF CostBalances
<1>3. /\ costs' \in [Scopes -> CostBalances]
      /\ costs'[s].limit = limit
      /\ costs'[s].spent = costs[s].spent /\ costs'[s].reserved = costs[s].reserved
      /\ \A t \in Scopes \ {s} : costs'[t] = costs[t]
  BY <1>1, <1>2 DEF Costs!SetLimit, CostInv, CostBalances
<1>4. /\ highest' \in [Scopes -> Nat] /\ limit <= highest'[s] /\ highest[s] <= highest'[s]
      /\ \A t \in Scopes \ {s} : highest'[t] = highest[t]
  BY <1>1 DEF Costs!SetLimit, CostInv
<1>5. Costs!SpendingStaysUnderLimits'
  <2>1. costs[s].spent + costs[s].reserved <= highest[s]
        /\ costs[s].spent \in Int /\ costs[s].reserved \in Int
    BY <1>1 DEF CostInv, Costs!SpendingStaysUnderLimits, CostBalances
  <2>2. costs'[s].spent + costs'[s].reserved <= highest'[s]
    BY <1>1, <1>3, <1>4, <2>1
  <2> QED
    BY <1>3, <1>4, <2>2 DEF CostInv, Costs!SpendingStaysUnderLimits
<1> QED
  BY <1>1, <1>3, <1>4, <1>5 DEF CostInv, Costs!SetLimit

LEMMA CostReserveStep ==
  ASSUME Costs!AmountsAssumption, CostInv, NEW id \in Bookings, NEW amount \in Estimates,
         Costs!Reserve(id, amount)
  PROVE  CostInv'
<1> DEFINE s == bookings[id].scope
           acc == costs[s]
           row == [bookings[id] EXCEPT !.state = "ACTIVE", !.amount = amount]
<1>1. s \in Scopes /\ acc \in CostBalances /\ amount \in Nat /\ row \in Costs!Reservation
  BY DEF Costs!AmountsAssumption, CostInv, Costs!Reservation
<1>2. acc.spent \in Int /\ acc.reserved + amount \in Int /\ highest[s] \in Nat
      /\ acc.limit \in Nat /\ acc.limit <= highest[s] /\ acc.spent + acc.reserved <= highest[s]
      /\ acc.reserved \in Int
  BY <1>1 DEF CostInv, Costs!SpendingStaysUnderLimits, CostBalances
<1>3. acc.spent + (acc.reserved + amount) <= highest[s]
  BY <1>1, <1>2, RemainingFits DEF Costs!Reserve
<1>4. /\ costs' = [costs EXCEPT ![s] = [@ EXCEPT !.spent = acc.spent,
                                                     !.reserved = acc.reserved + amount]]
      /\ bookings' = [bookings EXCEPT ![id] = row]
      /\ UNCHANGED highest
  BY <1>1 DEF Costs!Reserve, CostInv, CostBalances
<1>6. Booked(s, id, acc.spent, acc.reserved + amount, row)
  BY <1>3, <1>4 DEF Booked
<1> HIDE DEF s, acc, row
<1> QED
  BY <1>1, <1>2, <1>6, BookingKeepsCostInv

LEMMA CostReconcileStep ==
  ASSUME Costs!AmountsAssumption, CostInv, NEW id \in Bookings, NEW actual \in Estimates,
         Costs!Reconcile(id, actual)
  PROVE  CostInv'
<1> DEFINE s == bookings[id].scope
           acc == costs[s]
           amount == bookings[id].amount
           row == [bookings[id] EXCEPT !.state = "RECONCILED", !.amount = actual]
<1>1. s \in Scopes /\ acc \in CostBalances /\ actual \in Nat /\ amount \in Nat /\ row \in Costs!Reservation
  BY DEF Costs!AmountsAssumption, CostInv, Costs!Reservation
<1>2. acc.spent + actual \in Int /\ acc.reserved - amount \in Int /\ highest[s] \in Nat
      /\ acc.limit \in Nat /\ acc.limit <= highest[s] /\ acc.spent + acc.reserved <= highest[s]
      /\ acc.reserved \in Int /\ acc.spent \in Int
  BY <1>1 DEF CostInv, Costs!SpendingStaysUnderLimits, CostBalances
<1>3. actual <= amount + Costs!Remaining(acc)
  BY DEF Costs!Reconcile, Costs!Affordable
<1>4. (acc.spent + actual) + (acc.reserved - amount) <= highest[s]
  BY <1>1, <1>2, <1>3, RemainingFits
<1>5. /\ costs' = [costs EXCEPT ![s] = [@ EXCEPT !.spent = acc.spent + actual,
                                                     !.reserved = acc.reserved - amount]]
      /\ bookings' = [bookings EXCEPT ![id] = row]
      /\ UNCHANGED highest
  BY <1>1 DEF Costs!Reconcile, CostInv, CostBalances
<1>6. Booked(s, id, acc.spent + actual, acc.reserved - amount, row)
  BY <1>4, <1>5 DEF Booked
<1> HIDE DEF s, acc, row, amount
<1> QED
  BY <1>1, <1>2, <1>6, BookingKeepsCostInv

LEMMA CostReleaseStep ==
  ASSUME CostInv, NEW id \in Bookings, Costs!Release(id)
  PROVE  CostInv'
<1> DEFINE s == bookings[id].scope
           acc == costs[s]
           amount == bookings[id].amount
           row == [bookings[id] EXCEPT !.state = "RELEASED"]
<1>1. s \in Scopes /\ acc \in CostBalances /\ amount \in Nat /\ row \in Costs!Reservation
  BY DEF CostInv, Costs!Reservation
<1>2. acc.spent \in Int /\ acc.reserved - amount \in Int /\ highest[s] \in Nat
      /\ acc.reserved \in Int /\ acc.spent + acc.reserved <= highest[s]
  BY <1>1 DEF CostInv, Costs!SpendingStaysUnderLimits, CostBalances
<1>3. acc.spent + (acc.reserved - amount) <= highest[s]
  BY <1>1, <1>2
<1>4. /\ costs' = [costs EXCEPT ![s] = [@ EXCEPT !.spent = acc.spent,
                                                     !.reserved = acc.reserved - amount]]
      /\ bookings' = [bookings EXCEPT ![id] = row]
      /\ UNCHANGED highest
  BY <1>1 DEF Costs!Release, CostInv, CostBalances
<1>6. Booked(s, id, acc.spent, acc.reserved - amount, row)
  BY <1>3, <1>4 DEF Booked
<1> HIDE DEF s, acc, row, amount
<1> QED
  BY <1>1, <1>2, <1>6, BookingKeepsCostInv

LEMMA CostInitInv == ASSUME Costs!Init PROVE CostInv
<1>1. \A s \in Scopes : costs[s] = [known |-> FALSE, limit |-> 0, spent |-> 0, reserved |-> 0]
      /\ highest[s] = 0
  BY DEF Costs!Init
<1>2. costs \in [Scopes -> CostBalances] /\ highest \in [Scopes -> Nat]
  BY DEF Costs!Init, CostBalances
<1>3. bookings \in [Bookings -> Costs!Reservation]
  BY DEF Costs!Init, Costs!Reservation
<1> QED
  BY <1>1, <1>2, <1>3 DEF CostInv, Costs!SpendingStaysUnderLimits

LEMMA CostStep == ASSUME Costs!AmountsAssumption, CostInv, [Costs!Next]_(Costs!vars) PROVE CostInv'
<1>1. CASE UNCHANGED Costs!vars
  BY <1>1 DEF Costs!vars, CostInv, Costs!SpendingStaysUnderLimits
<1> QED
  BY <1>1, SetLimitStep, CostReserveStep, CostReconcileStep, CostReleaseStep DEF Costs!Next

-----------------------------------------------------------------------------
(* budgets reserve, reconcile, setLimit: nothing is booked beyond the      *)
(* highest limit that an account has had.                                  *)
THEOREM CostsAreBounded ==
  ASSUME Costs!AmountsAssumption
  PROVE  Costs!Spec => []Costs!SpendingStaysUnderLimits
<1>1. CostInv => Costs!SpendingStaysUnderLimits
  BY DEF CostInv
<1>2. Costs!Init => CostInv
  BY CostInitInv
<1>3. CostInv /\ [Costs!Next]_(Costs!vars) => CostInv'
  BY CostStep
<1> QED
  BY <1>1, <1>2, <1>3, PTL DEF Costs!Spec

(* The balances are the sums of the reservations behind them.              *)
CostBegun(rows) == {id \in Bookings : rows[id].state # "NONE"}
CostsIn(rows, s, state) == {id \in Bookings : rows[id].scope = s /\ rows[id].state = state}
CostSum(rows, s, state) ==
  SumFunctionOnSet([id \in Bookings |-> rows[id].amount], CostsIn(rows, s, state))
CostPart(row, s, state) == IF row.scope = s /\ row.state = state THEN row.amount ELSE 0

CostsBalanced ==
  \A s \in Scopes : /\ costs[s].reserved = CostSum(bookings, s, "ACTIVE")
                    /\ costs[s].spent = CostSum(bookings, s, "RECONCILED")

CostBooks == CostInv /\ CostsBalanced /\ IsFiniteSet(CostBegun(bookings))

CostReplaced(rows, id, row, new) ==
  /\ rows \in [Bookings -> Costs!Reservation] /\ IsFiniteSet(CostBegun(rows))
  /\ id \in Bookings /\ row \in Costs!Reservation
  /\ new = [rows EXCEPT ![id] = row]

LEMMA CostRowChanges ==
  ASSUME NEW rows, NEW id, NEW row, NEW new, CostReplaced(rows, id, row, new)
  PROVE  /\ IsFiniteSet(CostBegun(new))
         /\ \A s, state : state # "NONE" =>
              CostSum(new, s, state)
                = CostSum(rows, s, state) - CostPart(rows[id], s, state) + CostPart(row, s, state)
<1> DEFINE f == [i \in Bookings |-> rows[i].amount]
           g == [i \in Bookings |-> new[i].amount]
<1>1. /\ IsFiniteSet(CostBegun(rows) \cup {id})
      /\ CostBegun(new) \in SUBSET (CostBegun(rows) \cup {id})
  BY FS_AddElement DEF CostReplaced, CostBegun
<1>2. IsFiniteSet(CostBegun(new))
  BY <1>1, FS_Subset
<1>3. /\ new \in [Bookings -> Costs!Reservation] /\ new[id] = row /\ id \in Bookings
      /\ rows \in [Bookings -> Costs!Reservation]
      /\ \A i \in Bookings \ {id} : new[i] = rows[i]
  BY DEF CostReplaced
<1>4. /\ \A i \in Bookings : f[i] \in Int /\ g[i] \in Int
      /\ \A i \in Bookings \ {id} : g[i] = f[i]
      /\ f[id] = rows[id].amount /\ g[id] = row.amount
  BY <1>3 DEF Costs!Reservation
<1> HIDE DEF f, g
<1>5. ASSUME NEW s, NEW state, state # "NONE"
      PROVE  CostSum(new, s, state)
               = CostSum(rows, s, state) - CostPart(rows[id], s, state) + CostPart(row, s, state)
  <2> DEFINE S == CostsIn(rows, s, state)
             T == CostsIn(new, s, state)
  <2>1. S \in SUBSET CostBegun(rows) /\ T \in SUBSET CostBegun(new)
    BY <1>5 DEF CostsIn, CostBegun
  <2>2. IsFiniteSet(S) /\ IsFiniteSet(T)
    BY <1>2, <2>1, FS_Subset DEF CostReplaced
  <2>3. S \ {id} = T \ {id} /\ S \subseteq Bookings /\ T \subseteq Bookings
    BY <1>3 DEF CostsIn
  <2>4. At(f, S, id) = CostPart(rows[id], s, state) /\ At(g, T, id) = CostPart(row, s, state)
    BY <1>3, <1>4 DEF At, CostPart, CostsIn
  <2> HIDE DEF S, T
  <2>5. Differ(f, S, g, T, id)
    <3>1. (\A i \in S : f[i] \in Int) /\ (\A i \in T : g[i] \in Int)
      BY <1>4, <2>3
    <3>2. \A i \in S \ {id} : g[i] = f[i]
      BY <1>4, <2>3
    <3> QED
      BY <2>2, <2>3, <3>1, <3>2 DEF Differ
  <2>6. SumFunctionOnSet(g, T) = SumFunctionOnSet(f, S) - At(f, S, id) + At(g, T, id)
    BY <2>5, SumChanges
  <2> QED
    BY <2>4, <2>6 DEF S, T, f, g, CostSum
<1> QED
  BY <1>2, <1>5

LEMMA CostSumsAreNat ==
  ASSUME NEW rows \in [Bookings -> Costs!Reservation], IsFiniteSet(CostBegun(rows)),
         NEW s, NEW state, state # "NONE"
  PROVE  CostSum(rows, s, state) \in Nat
<1> DEFINE f == [i \in Bookings |-> rows[i].amount]
           S == CostsIn(rows, s, state)
<1>1. S \in SUBSET CostBegun(rows) /\ S \subseteq Bookings
  BY DEF CostsIn, CostBegun
<1>2. IsFiniteSet(S)
  BY <1>1, FS_Subset
<1>3. \A i \in S : f[i] \in Nat
  BY <1>1 DEF Costs!Reservation
<1> HIDE DEF f, S
<1>4. SumFunctionOnSet(f, S) \in Nat
  BY <1>2, <1>3, SumIsNat
<1> QED
  BY <1>4 DEF f, S, CostSum

(* A transaction about one reservation, which stays in its scope.          *)
Settles(id, row) ==
  LET old == bookings[id]
      s == old.scope
  IN /\ CostReplaced(bookings, id, row, bookings')
     /\ row.scope = s /\ s \in Scopes
     /\ \A t \in Scopes \ {s} : costs'[t] = costs[t]
     /\ costs'[s].reserved = costs[s].reserved - CostPart(old, s, "ACTIVE") + CostPart(row, s, "ACTIVE")
     /\ costs'[s].spent = costs[s].spent - CostPart(old, s, "RECONCILED") + CostPart(row, s, "RECONCILED")

LEMMA SettlesStep ==
  ASSUME CostBooks, CostInv', NEW id, NEW row, Settles(id, row)
  PROVE  CostBooks'
<1> DEFINE old == bookings[id]
<1>1. /\ IsFiniteSet(CostBegun(bookings'))
      /\ \A t, state : state # "NONE" =>
           CostSum(bookings', t, state)
             = CostSum(bookings, t, state) - CostPart(old, t, state) + CostPart(row, t, state)
  BY CostRowChanges DEF Settles
<1>2. ASSUME NEW t \in Scopes
      PROVE  /\ costs'[t].reserved = CostSum(bookings', t, "ACTIVE")
             /\ costs'[t].spent = CostSum(bookings', t, "RECONCILED")
  <2>1. /\ costs[t].reserved = CostSum(bookings, t, "ACTIVE")
        /\ costs[t].spent = CostSum(bookings, t, "RECONCILED")
        /\ costs[t].reserved \in Int /\ costs[t].spent \in Int
    BY DEF CostBooks, CostsBalanced, CostInv, CostBalances
  <2>2. CASE t = old.scope
    BY <1>1, <2>1, <2>2 DEF Settles
  <2>3. CASE t # old.scope
    <3>1. \A state : CostPart(old, t, state) = 0 /\ CostPart(row, t, state) = 0
      BY <2>3 DEF CostPart, Settles
    <3>2. costs'[t] = costs[t]
      BY <2>3 DEF Settles
    <3> QED
      BY <1>1, <2>1, <3>1, <3>2
  <2> QED
    BY <2>2, <2>3
<1> QED
  BY <1>1, <1>2 DEF CostBooks, CostsBalanced

LEMMA CostReserveBooks ==
  ASSUME Costs!AmountsAssumption, CostBooks, NEW id \in Bookings, NEW amount \in Estimates,
         Costs!Reserve(id, amount)
  PROVE  CostBooks'
<1> DEFINE old == bookings[id]
           s == old.scope
           row == [old EXCEPT !.state = "ACTIVE", !.amount = amount]
<1>1. CostInv' /\ CostInv /\ amount \in Nat
  BY CostReserveStep DEF CostBooks, Costs!AmountsAssumption
<1>2. /\ bookings \in [Bookings -> Costs!Reservation] /\ old \in Costs!Reservation /\ s \in Scopes
      /\ costs \in [Scopes -> CostBalances]
  BY <1>1 DEF CostInv, Costs!Reservation
<1>3. row \in Costs!Reservation /\ row.state = "ACTIVE" /\ row.scope = s /\ row.amount = amount
  BY <1>1, <1>2 DEF Costs!Reservation
<1>4. /\ old.state = "NONE" /\ bookings' = [bookings EXCEPT ![id] = row]
      /\ costs' = [costs EXCEPT ![s].reserved = @ + amount]
  BY DEF Costs!Reserve
<1> HIDE DEF row, old, s
<1>5. /\ costs'[s].reserved = costs[s].reserved + amount /\ costs'[s].spent = costs[s].spent
      /\ costs[s].reserved \in Int /\ costs[s].spent \in Int
      /\ \A t \in Scopes \ {s} : costs'[t] = costs[t]
  BY <1>2, <1>4 DEF CostBalances
<1>6. /\ CostPart(old, s, "ACTIVE") = 0 /\ CostPart(old, s, "RECONCILED") = 0
      /\ CostPart(row, s, "ACTIVE") = amount /\ CostPart(row, s, "RECONCILED") = 0
  BY <1>3, <1>4 DEF CostPart
<1>7. CostReplaced(bookings, id, row, bookings')
  BY <1>2, <1>3, <1>4 DEF CostReplaced, CostBooks
<1>8. Settles(id, row)
  BY <1>1, <1>2, <1>3, <1>5, <1>6, <1>7 DEF Settles, old, s
<1> QED
  BY <1>1, <1>8, SettlesStep

LEMMA CostReconcileBooks ==
  ASSUME Costs!AmountsAssumption, CostBooks, NEW id \in Bookings, NEW actual \in Estimates,
         Costs!Reconcile(id, actual)
  PROVE  CostBooks'
<1> DEFINE old == bookings[id]
           s == old.scope
           row == [old EXCEPT !.state = "RECONCILED", !.amount = actual]
<1>1. CostInv' /\ CostInv /\ actual \in Nat
  BY CostReconcileStep DEF CostBooks, Costs!AmountsAssumption
<1>2. /\ bookings \in [Bookings -> Costs!Reservation] /\ old \in Costs!Reservation /\ s \in Scopes
      /\ costs \in [Scopes -> CostBalances] /\ old.amount \in Nat
  BY <1>1 DEF CostInv, Costs!Reservation
<1>3. row \in Costs!Reservation /\ row.state = "RECONCILED" /\ row.scope = s /\ row.amount = actual
  BY <1>1, <1>2 DEF Costs!Reservation
<1>4. /\ old.state = "ACTIVE" /\ bookings' = [bookings EXCEPT ![id] = row]
      /\ costs' = [costs EXCEPT ![s].reserved = @ - old.amount, ![s].spent = @ + actual]
  BY DEF Costs!Reconcile, Costs!Settleable
<1> HIDE DEF row, old, s
<1>5. /\ costs'[s].reserved = costs[s].reserved - old.amount /\ costs'[s].spent = costs[s].spent + actual
      /\ costs[s].reserved \in Int /\ costs[s].spent \in Int
      /\ \A t \in Scopes \ {s} : costs'[t] = costs[t]
  BY <1>2, <1>4 DEF CostBalances
<1>6. /\ CostPart(old, s, "ACTIVE") = old.amount /\ CostPart(old, s, "RECONCILED") = 0
      /\ CostPart(row, s, "ACTIVE") = 0 /\ CostPart(row, s, "RECONCILED") = actual
  BY <1>3, <1>4 DEF CostPart, s
<1>7. CostReplaced(bookings, id, row, bookings')
  BY <1>2, <1>3, <1>4 DEF CostReplaced, CostBooks
<1>8. Settles(id, row)
  BY <1>1, <1>2, <1>3, <1>5, <1>6, <1>7 DEF Settles, old, s
<1> QED
  BY <1>1, <1>8, SettlesStep

LEMMA CostReleaseBooks ==
  ASSUME CostBooks, NEW id \in Bookings, Costs!Release(id)
  PROVE  CostBooks'
<1> DEFINE old == bookings[id]
           s == old.scope
           row == [old EXCEPT !.state = "RELEASED"]
<1>1. CostInv' /\ CostInv
  BY CostReleaseStep DEF CostBooks
<1>2. /\ bookings \in [Bookings -> Costs!Reservation] /\ old \in Costs!Reservation /\ s \in Scopes
      /\ costs \in [Scopes -> CostBalances] /\ old.amount \in Nat
  BY <1>1 DEF CostInv, Costs!Reservation
<1>3. row \in Costs!Reservation /\ row.state = "RELEASED" /\ row.scope = s
  BY <1>2 DEF Costs!Reservation
<1>4. /\ old.state = "ACTIVE" /\ bookings' = [bookings EXCEPT ![id] = row]
      /\ costs' = [costs EXCEPT ![s].reserved = @ - old.amount]
  BY DEF Costs!Release, Costs!Settleable
<1> HIDE DEF row, old, s
<1>5. /\ costs'[s].reserved = costs[s].reserved - old.amount /\ costs'[s].spent = costs[s].spent
      /\ costs[s].reserved \in Int /\ costs[s].spent \in Int
      /\ \A t \in Scopes \ {s} : costs'[t] = costs[t]
  BY <1>2, <1>4 DEF CostBalances
<1>6. /\ CostPart(old, s, "ACTIVE") = old.amount /\ CostPart(old, s, "RECONCILED") = 0
      /\ CostPart(row, s, "ACTIVE") = 0 /\ CostPart(row, s, "RECONCILED") = 0
  BY <1>3, <1>4 DEF CostPart, s
<1>7. CostReplaced(bookings, id, row, bookings')
  BY <1>2, <1>3, <1>4 DEF CostReplaced, CostBooks
<1>8. Settles(id, row)
  BY <1>1, <1>2, <1>3, <1>5, <1>6, <1>7 DEF Settles, old, s
<1> QED
  BY <1>1, <1>8, SettlesStep

LEMMA SetLimitBooks ==
  ASSUME Costs!AmountsAssumption, CostBooks, NEW s \in Scopes, NEW limit \in Limits,
         Costs!SetLimit(s, limit)
  PROVE  CostBooks'
<1>1. CostInv' /\ CostInv /\ bookings' = bookings
  BY SetLimitStep DEF CostBooks, Costs!SetLimit
<1>2. \A t \in Scopes : costs'[t].spent = costs[t].spent /\ costs'[t].reserved = costs[t].reserved
  BY <1>1 DEF Costs!SetLimit, CostInv, CostBalances
<1> QED
  BY <1>1, <1>2 DEF CostBooks, CostsBalanced

LEMMA InitCostBooks == ASSUME Costs!Init PROVE CostBooks
<1>1. CostInv /\ CostBegun(bookings) = {}
  BY CostInitInv DEF Costs!Init, CostBegun
<1>2. \A s : CostsIn(bookings, s, "ACTIVE") = {} /\ CostsIn(bookings, s, "RECONCILED") = {}
  BY DEF Costs!Init, CostsIn
<1>3. \A s : CostSum(bookings, s, "ACTIVE") = 0 /\ CostSum(bookings, s, "RECONCILED") = 0
  BY <1>2, SumOfNone DEF CostSum
<1>4. \A s \in Scopes : costs[s].reserved = 0 /\ costs[s].spent = 0
  BY DEF Costs!Init
<1> QED
  BY <1>1, <1>3, <1>4, FS_EmptySet DEF CostBooks, CostsBalanced

(* The cost ledger sums as the proofs above do.                            *)
LEMMA CostsAreSummed ==
  ASSUME NEW f, NEW S
  PROVE  Costs!SumFunctionOnSet(f, S) = SumFunctionOnSet(f, S)
BY Zenon DEF Costs!SumFunctionOnSet, Costs!FoldFunctionOnSet, Costs!MapThenFoldSet,
             SumFunctionOnSet, FoldFunctionOnSet, MapThenFoldSet

(* CostsAreSound: every balance is the sum of the reservations behind it,  *)
(* none is negative, and the highest limit covers them (budgets, all       *)
(* operations on costs).                                                   *)
THEOREM CostsSound ==
  ASSUME Costs!AmountsAssumption
  PROVE  Costs!Spec => []Costs!CostsAreSound
<1>1. ASSUME CostBooks
      PROVE  Costs!CostsAreSound
  <2>1. /\ CostInv /\ CostsBalanced /\ IsFiniteSet(CostBegun(bookings))
        /\ bookings \in [Bookings -> Costs!Reservation] /\ costs \in [Scopes -> CostBalances]
        /\ highest \in [Scopes -> Nat] /\ Costs!SpendingStaysUnderLimits
    BY <1>1 DEF CostBooks, CostInv
  <2>2. \A s : CostSum(bookings, s, "ACTIVE") \in Nat /\ CostSum(bookings, s, "RECONCILED") \in Nat
    BY <2>1, CostSumsAreNat
  <2>3. costs \in [Scopes -> Costs!Account]
    <3>1. ASSUME NEW s \in Scopes
          PROVE  costs[s] \in Costs!Account
      <4>1. costs[s].reserved \in Nat /\ costs[s].spent \in Nat
        BY <2>1, <2>2 DEF CostsBalanced
      <4> QED
        BY <2>1, <4>1 DEF CostBalances, Costs!Account
    <3> QED
      BY <2>1, <3>1
  <2>4. Costs!BalancesAreSums
    <3>1. ASSUME NEW s \in Scopes, NEW state
          PROVE  Costs!SumFunctionOnSet([id \in Bookings |-> bookings[id].amount],
                   {id \in Bookings : bookings[id].scope = s /\ bookings[id].state = state})
                     = CostSum(bookings, s, state)
      BY CostsAreSummed, Zenon DEF CostSum, CostsIn
    <3>2. ASSUME NEW s \in Scopes
          PROVE  /\ costs[s].reserved = CostSum(bookings, s, "ACTIVE")
                 /\ costs[s].spent = CostSum(bookings, s, "RECONCILED")
      BY <2>1 DEF CostsBalanced
    <3> QED
      BY <3>1, <3>2, Zenon DEF Costs!BalancesAreSums
  <2> QED
    BY <2>1, <2>3, <2>4 DEF Costs!CostsAreSound, Costs!TypeOK
<1>2. ASSUME Costs!AmountsAssumption, CostBooks, [Costs!Next]_(Costs!vars)
      PROVE  CostBooks'
  <2>1. CASE UNCHANGED Costs!vars
    <3>1. CostInv'
      BY <1>2, CostStep DEF CostBooks
    <3> QED
      BY <1>2, <2>1, <3>1 DEF Costs!vars, CostBooks, CostsBalanced
  <2> QED
    BY <1>2, <2>1, SetLimitBooks, CostReserveBooks, CostReconcileBooks, CostReleaseBooks DEF Costs!Next
<1>3. CostBooks /\ [Costs!Next]_(Costs!vars) => CostBooks'
  BY <1>2
<1> QED
  BY <1>1, <1>3, InitCostBooks, PTL DEF Costs!Spec

(* LedgersAreSound, of both ledgers (budgets).                             *)
THEOREM BothLedgersSound ==
  ASSUME BudgetAssumption, Costs!AmountsAssumption
  PROVE  Spec /\ Costs!Spec => []LedgersAreSound
BY LedgerSound, CostsSound, PTL DEF LedgersAreSound
=============================================================================
