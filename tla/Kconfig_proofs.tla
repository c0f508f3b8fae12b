--------------------------- MODULE Kconfig_proofs ---------------------------
(***************************************************************************)
(* Proofs about Kconfig, for any Config.in files in which no value depends *)
(* on itself, any files, answers, releases and kills.                      *)
(*                                                                         *)
(* The first part is about what the operators compute: recursion over a    *)
(* relation in which nothing needs itself has one result (OneSolution,     *)
(* SomeSolution), which makes conf_parse end in entries of the right shape *)
(* (FinalProper), menu_is_visible total, and sym_calc_value the one        *)
(* solution of the entries for what was given (SolsFacts, CalcValue).      *)
(* Given more or other things that do not show, the solution is the same   *)
(* (SameSolution).                                                         *)
(*                                                                         *)
(* The second part says what each function does to the memory of conf:     *)
(* setting a value, reading a file, marking what is visible; and what the  *)
(* lines are that it writes.  The third part is the invariant of the types *)
(* (ITypes), the fourth what a run of silentoldconfig knows where it is    *)
(* (IAuto), from which AutoFresh follows.  The fifth is about files that   *)
(* conf wrote: what is read from one resolves to the solution it was       *)
(* written for (ReadOurs, ReadMinimal), and Reproduces follows (IRepro).   *)
(* The sixth is about any file: what is written reads as the solution it   *)
(* was written for (PlainSolved, ChoiceSolved), and Solved follows from    *)
(* what a run knows of what was said and of where it has been (ISolved).   *)
(***************************************************************************)
EXTENDS Kconfig, TLAPS, WellFoundedInduction, SequenceTheorems, FiniteSetTheorems

-----------------------------------------------------------------------------
(* Recursion over a relation in which nothing needs itself.                *)

(* Functions with f[s] in W[s], and a relation in which nothing needs      *)
(* itself, however far away: N[s] are the members of S that s needs.       *)
Valued(S, W) == {f \in [S -> UNION {W[s] : s \in S}] : \A s \in S : f[s] \in W[s]}
Grounded(S, N) == \A T \in SUBSET S : T # {} => \E s \in T : N[s] \cap T = {}
(* G makes values of values, and the one of s from those that s needs.     *)
Local(S, N, W, G) ==
  /\ \A s \in S : N[s] \subseteq S
  /\ \A s \in S : W[s] # {}
  /\ \A f \in Valued(S, W) : G[f] \in Valued(S, W)
  /\ \A f, g \in Valued(S, W), s \in S : (\A r \in N[s] : f[r] = g[r]) => G[f][s] = G[g][s]

(* What is calculated in the same way from the same is the same.           *)
Alike(S, N, f, g) ==
  \A s \in S : N[s] \subseteq S /\ ((\A r \in N[s] : f[r] = g[r]) => f[s] = g[s])
LEMMA OneSolution ==
  ASSUME NEW S, NEW N, NEW f, NEW g, Grounded(S, N), Alike(S, N, f, g)
  PROVE  \A s \in S : f[s] = g[s]
<1> DEFINE D == {s \in S : f[s] # g[s]}
<1>1. ASSUME D # {} PROVE FALSE
  <2>1. PICK s \in D : N[s] \cap D = {}
    BY <1>1 DEF Grounded
  <2>2. s \in S /\ f[s] # g[s] /\ \A r \in N[s] : f[r] = g[r]
    BY <2>1 DEF Alike
  <2>3. QED
    BY <2>2 DEF Alike
<1>2. QED
  BY <1>1

LEMMA ValuedFacts ==
  ASSUME NEW S, NEW W
  PROVE  /\ \A f \in Valued(S, W) : f = [s \in S |-> f[s]] /\ \A s \in S : f[s] \in W[s]
         /\ \A f : f = [s \in S |-> f[s]] /\ (\A s \in S : f[s] \in W[s]) => f \in Valued(S, W)
<1>1. ASSUME NEW f, f = [s \in S |-> f[s]], \A s \in S : f[s] \in W[s] PROVE f \in Valued(S, W)
  <2>1. f \in [S -> UNION {W[s] : s \in S}]
    BY <1>1
  <2>2. QED
    BY <1>1, <2>1 DEF Valued
<1>2. QED
  BY <1>1 DEF Valued

(* And it exists.                                                          *)
LEMMA SomeSolution ==
  ASSUME NEW S, NEW N, NEW W, NEW G, Grounded(S, N), Local(S, N, W, G)
  PROVE  \E f \in Valued(S, W) : \A s \in S : f[s] = G[f][s]
<1> DEFINE V == Valued(S, W)
           Partial(T, f) == /\ \A s \in T : N[s] \subseteq T
                            /\ \A s \in T : f[s] = G[f][s]
           Allows(s, v) == \E T \in SUBSET S, f \in V : Partial(T, f) /\ s \in T /\ v = f[s]
           U == {s \in S : \E v : Allows(s, v)}
           u == [s \in S |-> IF s \in U THEN CHOOSE v : Allows(s, v) ELSE CHOOSE v : v \in W[s]]
<1>0. /\ \A s \in S : N[s] \subseteq S
      /\ \A s \in S : W[s] # {}
      /\ \A f \in V : G[f] \in V
      /\ \A f, g \in V, s \in S : (\A r \in N[s] : f[r] = g[r]) => G[f][s] = G[g][s]
  BY DEF Local
<1>1. ASSUME NEW T \in SUBSET S, NEW R \in SUBSET S, NEW f \in V, NEW g \in V,
             Partial(T, f), Partial(R, g), NEW s \in T, s \in R
      PROVE  f[s] = g[s]
  <2> DEFINE Q == T \cap R
  <2>1. Q \in SUBSET S /\ \A r \in Q : N[r] \subseteq Q
    BY <1>1
  <2>2. \A r \in Q : (\A q \in N[r] : f[q] = g[q]) => f[r] = g[r]
    BY <1>0, <1>1
  <2>3. \A r \in Q : f[r] = g[r]
    <3> DEFINE D == {r \in Q : f[r] # g[r]}
    <3>1. ASSUME D # {} PROVE FALSE
      <4>1. D \in SUBSET S
        BY <2>1
      <4>2. PICK r \in D : N[r] \cap D = {}
        BY <3>1, <4>1 DEF Grounded
      <4>3. r \in Q /\ f[r] # g[r] /\ N[r] \subseteq Q /\ \A q \in N[r] : q \in Q => f[q] = g[q]
        BY <2>1, <4>2
      <4> HIDE DEF D, Q, Partial
      <4>4. QED
        BY <2>2, <4>3
    <3>2. QED
      BY <3>1
  <2>6. QED
    BY <1>1, <2>3
<1>2. ASSUME NEW T \in SUBSET S, NEW f \in V, Partial(T, f), NEW s \in T
      PROVE  s \in U /\ u[s] = f[s]
  <2>1. Allows(s, f[s]) /\ s \in S
    BY <1>2
  <2>2. \A v : Allows(s, v) => v = f[s]
    <3>1. SUFFICES ASSUME NEW R \in SUBSET S, NEW g \in V, Partial(R, g), s \in R
                   PROVE  g[s] = f[s]
      OBVIOUS
    <3> HIDE DEF V, Partial, U, u
    <3>2. QED
      BY <1>1, <1>2, <3>1
  <2> HIDE DEF Allows
  <2>3. s \in U /\ u[s] = CHOOSE v : Allows(s, v)
    BY <2>1
  <2>4. QED
    BY <2>1, <2>2, <2>3
<1>3. u \in V
  <2>1. \A s \in S : u[s] \in W[s]
    <3>1. TAKE s \in S
    <3>2. CASE s \in U
      <4>1. PICK T \in SUBSET S, f \in V : Partial(T, f) /\ s \in T
        BY <3>2
      <4>2. u[s] = f[s]
        <5> HIDE DEF V, Partial, U, u
        <5>1. QED
          BY <1>2, <4>1
      <4> HIDE DEF u
      <4>3. QED
        BY <4>2, ValuedFacts, <3>1
    <3>3. CASE s \notin U
      <4>1. u[s] = CHOOSE v : v \in W[s]
        BY <3>1, <3>3
      <4>2. QED
        BY <1>0, <3>1, <4>1
    <3>4. QED
      BY <3>2, <3>3
  <2>2. u = [s \in S |-> u[s]]
    OBVIOUS
  <2> HIDE DEF u
  <2>3. QED
    BY <2>1, <2>2, ValuedFacts
<1>4. Partial(U, u)
  <2>1. ASSUME NEW s \in U PROVE N[s] \subseteq U /\ u[s] = G[u][s]
    <3>1. PICK T \in SUBSET S, f \in V : Partial(T, f) /\ s \in T
      OBVIOUS
    <3>2. N[s] \subseteq T /\ f[s] = G[f][s] /\ s \in S
      BY <3>1
    <3>3. \A r \in T : r \in U /\ u[r] = f[r]
      <4> HIDE DEF V, Partial, U, u
      <4>1. QED
        BY <1>2, <3>1
    <3> HIDE DEF u, U
    <3>4. G[f][s] = G[u][s]
      BY <1>0, <1>3, <3>2, <3>3
    <3>5. QED
      BY <3>1, <3>2, <3>3, <3>4
  <2> HIDE DEF u, U
  <2>2. QED
    BY <2>1
<1>5. U = S
  <2>1. ASSUME S \ U # {} PROVE FALSE
    <3>1. U \subseteq S
      OBVIOUS
    <3>2. PICK s \in S \ U : N[s] \cap (S \ U) = {}
      BY <2>1 DEF Grounded
    <3>3. N[s] \subseteq U
      BY <1>0, <3>2
    <3> HIDE DEF u, U
    <3> DEFINE g == [r \in S |-> IF r = s THEN G[u][s] ELSE u[r]]
               T == U \cup {s}
    <3>4. g \in V
      <4>1. \A r \in S : u[r] \in W[r] /\ G[u][r] \in W[r]
        BY <1>0, <1>3, ValuedFacts
      <4>2. \A r \in S : g[r] \in W[r]
        BY <4>1
      <4>3. g = [r \in S |-> g[r]]
        OBVIOUS
      <4> HIDE DEF g
      <4>4. QED
        BY <4>2, <4>3, ValuedFacts
    <3>5. \A r \in U : g[r] = u[r]
      BY <3>1, <3>2
    <3>6. g[s] = G[u][s]
      BY <3>2
    <3> HIDE DEF g
    <3>7. ASSUME NEW r \in T PROVE N[r] \subseteq T /\ g[r] = G[g][r]
      <4>1. N[r] \subseteq U /\ r \in S
        BY <1>4, <3>1, <3>2, <3>3
      <4>2. G[g][r] = G[u][r]
        BY <1>0, <1>3, <3>4, <3>5, <4>1
      <4>3. g[r] = G[u][r]
        BY <1>4, <3>5, <3>6
      <4>4. QED
        BY <4>1, <4>2, <4>3
    <3>8. Partial(T, g)
      BY <3>7
    <3>9. T \in SUBSET S /\ s \in T
      BY <3>1, <3>2
    <3>10. s \in U
      BY <1>2, <3>4, <3>8, <3>9
    <3>11. QED
      BY <3>2, <3>10
  <2>2. QED
    BY <2>1
<1> HIDE DEF u, U
<1>6. QED
  BY <1>3, <1>4, <1>5

-----------------------------------------------------------------------------
(* Small sets of numbers, and what a symbol is calculated to.              *)

-----------------------------------------------------------------------------
(* The least and the greatest of a set of numbers.                         *)
LEMMA MinIn ==
  ASSUME NEW S, S \subseteq Nat, S # {}
  PROVE  Min(S) \in S /\ \A y \in S : Min(S) <= y
<1>1. PICK m \in S : \A k \in S : <<k, m>> \notin OpToRel(<, Nat)
  BY NatLessThanWellFounded, WFMin
<1>2. \A k \in S : k \in Nat /\ m \in Nat /\ ~(k < m)
  BY <1>1 DEF OpToRel
<1>3. \A k \in S : m <= k
  BY <1>2
<1>4. QED
  BY <1>3 DEF Min

LEMMA MaxIn ==
  ASSUME NEW n \in Nat, NEW S, S \subseteq 0 .. n, S # {}
  PROVE  Max(S) \in S /\ \A y \in S : y <= Max(S)
<1> DEFINE T == {n - k : k \in S}
<1>1. T \subseteq Nat /\ T # {}
  <2>1. \A k \in S : k \in Nat /\ n - k \in Nat
    OBVIOUS
  <2>2. QED
    BY <2>1
<1>2. PICK t \in T : \A k \in T : t <= k
  <2> HIDE DEF T
  <2>1. QED
    BY <1>1, MinIn
<1>3. PICK m \in S : t = n - m
  BY <1>2
<1>4. \A k \in S : k \in Nat /\ n - m <= n - k
  BY <1>2, <1>3
<1>5. \A k \in S : m >= k
  BY <1>3, <1>4
<1>6. QED
  BY <1>3, <1>5 DEF Max

-----------------------------------------------------------------------------
(* What the entries of a language are, whatever its menus.                 *)
Ent(x) == 1 .. Len(x)
NamedIn(x) == {s \in Ent(x) : x[s].type \in {"bool", "string"}}
ValuesIn(x) == {s \in Ent(x) : x[s].choice # 0}
ChoicesIn(x) == {s \in Ent(x) : x[s].type = "choice"}

Symbols(x, s) ==
  /\ x[s].type \in {"bool", "string", "choice", "menu", "comment"}
  /\ x[s].prompt \in BOOLEAN
  /\ x[s].last \in s .. Len(x)
  /\ Needs(x, s) \subseteq Ent(x)
  /\ DOMAIN x[s].defaults \subseteq Nat
  /\ \A k \in DOMAIN x[s].defaults : x[s].type = "string" => x[s].defaults[k].val \in Contents
  /\ x[s].values \subseteq Ent(x)
  /\ x[s].values # {} => x[s].type = "choice"
  /\ \A v \in x[s].values : x[v].choice = s
  /\ x[s].choice # 0 => /\ x[s].choice \in Ent(x) /\ s \in x[x[s].choice].values
                        /\ x[s].type = "bool"

Proper(x) ==
  /\ Len(x) \in Nat /\ DOMAIN x = Ent(x)
  /\ \A s, t \in Ent(x) : x[s].name = x[t].name => s = t
  /\ \A s \in Ent(x) : Symbols(x, s)
  /\ sym_check_deps(x)

(* Values, and what they are calculated from.                              *)
Solution(n) == [vis : BOOLEAN, rev : BOOLEAN, write : BOOLEAN, default : Contents,
                preset : 0 .. n, chosen : 0 .. n, val : Contents]

Given(x, m) ==
  /\ m.has \subseteq Ent(x)
  /\ m.def \in [Ent(x) -> {NoFile} \cup Contents]
  /\ \A s \in Ent(x) : m.def[s] = NoFile => x[s].type = "string" /\ s \notin m.has
  /\ m.pick \in [Ent(x) -> 0 .. Len(x)]
  /\ \A s \in Ent(x) : m.pick[s] \in {0} \cup x[s].values

(* A condition is about its symbols only.                                  *)
LEMMA SatSame ==
  ASSUME NEW f, NEW g, NEW c, \A r \in Syms(c) : f[r] = g[r]
  PROVE  Sat(f, c) = Sat(g, c)
<1>1. \A k \in c : \A l \in k : f[l.sym] = g[l.sym]
  BY DEF Syms
<1>2. QED
  BY <1>1 DEF Sat

LEMMA SatBool == \A f, c : Sat(f, c) \in BOOLEAN
BY DEF Sat

(* The value of a symbol, by what the symbol is.                           *)
LEMMA SymValueIs ==
  ASSUME NEW x, NEW m, NEW f, NEW s, x[s].choice # 0 => x[s].type = "bool"
  PROVE  /\ x[s].type = "choice" => SymValue(x, m, f, s) =
               [vis |-> sym_calc_visibility(x, f, s), rev |-> sym_calc_visibility(x, f, s),
                write |-> sym_calc_visibility(x, f, s), default |-> "n",
                preset |-> sym_choice_default(x, f, s),
                chosen |-> IF sym_calc_visibility(x, f, s) THEN sym_calc_choice(x, m, f, s) ELSE 0,
                val |-> IF sym_calc_visibility(x, f, s) /\ sym_calc_choice(x, m, f, s) # 0
                        THEN "y" ELSE "n"]
         /\ x[s].type # "choice" /\ x[s].choice # 0 => SymValue(x, m, f, s) =
               [vis |-> sym_calc_visibility(x, f, s), rev |-> FALSE,
                write |-> sym_calc_visibility(x, f, s),
                default |-> "n", preset |-> 0, chosen |-> 0,
                val |-> IF sym_calc_visibility(x, f, s) /\ f[x[s].choice].chosen = s
                        THEN "y" ELSE "n"]
         /\ x[s].type \in {"bool", "string"} /\ x[s].choice = 0 => SymValue(x, m, f, s) =
               [vis |-> sym_calc_visibility(x, f, s), rev |-> rev_dep(x, f, s),
                write |-> sym_calc_visibility(x, f, s) \/ rev_dep(x, f, s) \/ Defaults(x, f, s) # {},
                default |-> IF rev_dep(x, f, s) THEN "y" ELSE sym_get_default(x, f, s),
                preset |-> 0, chosen |-> 0,
                val |-> IF rev_dep(x, f, s) THEN "y"
                        ELSE IF sym_calc_visibility(x, f, s) /\ s \in m.has THEN m.def[s]
                        ELSE sym_get_default(x, f, s)]
         /\ x[s].type \in {"menu", "comment"} /\ x[s].choice = 0 => SymValue(x, m, f, s) =
               [vis |-> sym_calc_visibility(x, f, s), rev |-> FALSE, write |-> FALSE,
                default |-> "n", preset |-> 0, chosen |-> 0, val |-> "n"]
<1>1. ASSUME x[s].type = "choice" PROVE SymValue(x, m, f, s) =
               [vis |-> sym_calc_visibility(x, f, s), rev |-> sym_calc_visibility(x, f, s),
                write |-> sym_calc_visibility(x, f, s), default |-> "n",
                preset |-> sym_choice_default(x, f, s),
                chosen |-> IF sym_calc_visibility(x, f, s) THEN sym_calc_choice(x, m, f, s) ELSE 0,
                val |-> IF sym_calc_visibility(x, f, s) /\ sym_calc_choice(x, m, f, s) # 0
                        THEN "y" ELSE "n"]
  BY <1>1 DEF SymValue
<1>2. ASSUME x[s].type # "choice", x[s].choice # 0 PROVE SymValue(x, m, f, s) =
               [vis |-> sym_calc_visibility(x, f, s), rev |-> FALSE,
                write |-> sym_calc_visibility(x, f, s),
                default |-> "n", preset |-> 0, chosen |-> 0,
                val |-> IF sym_calc_visibility(x, f, s) /\ f[x[s].choice].chosen = s
                        THEN "y" ELSE "n"]
  BY <1>2 DEF SymValue
<1>3. ASSUME x[s].type \in {"bool", "string"}, x[s].choice = 0 PROVE SymValue(x, m, f, s) =
               [vis |-> sym_calc_visibility(x, f, s), rev |-> rev_dep(x, f, s),
                write |-> sym_calc_visibility(x, f, s) \/ rev_dep(x, f, s) \/ Defaults(x, f, s) # {},
                default |-> IF rev_dep(x, f, s) THEN "y" ELSE sym_get_default(x, f, s),
                preset |-> 0, chosen |-> 0,
                val |-> IF rev_dep(x, f, s) THEN "y"
                        ELSE IF sym_calc_visibility(x, f, s) /\ s \in m.has THEN m.def[s]
                        ELSE sym_get_default(x, f, s)]
  BY <1>3 DEF SymValue
<1>4. ASSUME x[s].type \in {"menu", "comment"}, x[s].choice = 0 PROVE SymValue(x, m, f, s) =
               [vis |-> sym_calc_visibility(x, f, s), rev |-> FALSE, write |-> FALSE,
                default |-> "n", preset |-> 0, chosen |-> 0, val |-> "n"]
  BY <1>4 DEF SymValue
<1>5. QED
  BY <1>1, <1>2, <1>3, <1>4

LEMMA VisibilityBool == \A x, f, s : x[s].prompt \in BOOLEAN => sym_calc_visibility(x, f, s) \in BOOLEAN
BY SatBool DEF sym_calc_visibility

(* What is visible of a choice and what it falls back on are values of it. *)
LEMMA ChoiceFacts ==
  ASSUME NEW x, Proper(x), NEW f, NEW s \in Ent(x)
  PROVE  /\ Choosable(x, f, s) \subseteq x[s].values
         /\ Choosable(x, f, s) \subseteq Ent(x)
         /\ sym_choice_default(x, f, s) \in {0} \cup Choosable(x, f, s)
         /\ Choosable(x, f, s) # {} => sym_choice_default(x, f, s) \in Choosable(x, f, s)
         /\ \A m : /\ sym_calc_choice(x, m, f, s) \in {0} \cup Choosable(x, f, s)
                   /\ Choosable(x, f, s) # {} =>
                        sym_calc_choice(x, m, f, s) \in Choosable(x, f, s)
         /\ 0 \notin Choosable(x, f, s)
<1> DEFINE shown == Choosable(x, f, s)
           first == {k \in Defaults(x, f, s) : x[s].defaults[k].val \in shown}
<1>1. x[s].values \subseteq Ent(x) /\ DOMAIN x[s].defaults \subseteq Nat /\ Len(x) \in Nat
  BY DEF Proper, Symbols
<1>2. shown \subseteq x[s].values /\ shown \subseteq Nat /\ shown \subseteq Ent(x) /\ 0 \notin shown
  BY <1>1 DEF Choosable, Ent
<1>3. first \subseteq Nat
  BY <1>1 DEF Defaults
<1>4. first # {} => Min(first) \in first
  <2> HIDE DEF first
  <2>1. QED
    BY <1>3, MinIn
<1>5. shown # {} => Min(shown) \in shown
  <2> HIDE DEF shown
  <2>1. QED
    BY <1>2, MinIn
<1>6. sym_choice_default(x, f, s) =
        IF first # {} THEN x[s].defaults[Min(first)].val ELSE IF shown # {} THEN Min(shown) ELSE 0
  BY DEF sym_choice_default
<1>7. first # {} => x[s].defaults[Min(first)].val \in shown
  BY <1>4
<1>8. sym_choice_default(x, f, s) \in {0} \cup shown /\ (shown # {} => sym_choice_default(x, f, s) \in shown)
  <2> HIDE DEF shown, first
  <2>1. QED
    BY <1>5, <1>6, <1>7
<1>9. \A m : sym_calc_choice(x, m, f, s) = IF m.pick[s] \in shown THEN m.pick[s] ELSE sym_choice_default(x, f, s)
  BY DEF sym_calc_choice
<1> HIDE DEF shown, first
<1>10. QED
  BY <1>2, <1>8, <1>9 DEF shown

LEMMA DefaultFacts ==
  ASSUME NEW x, Proper(x), NEW f, NEW s \in Ent(x)
  PROVE  sym_get_default(x, f, s) \in Contents
<1> DEFINE good == Defaults(x, f, s)
<1>1. DOMAIN x[s].defaults \subseteq Nat
      /\ \A k \in DOMAIN x[s].defaults : x[s].type = "string" => x[s].defaults[k].val \in Contents
  BY DEF Proper, Symbols
<1>2. good \subseteq DOMAIN x[s].defaults /\ good \subseteq Nat
  BY <1>1 DEF Defaults
<1>3. good # {} => Min(good) \in good
  <2> HIDE DEF good
  <2>1. QED
    BY <1>2, MinIn
<1>4. sym_get_default(x, f, s) = IF good = {} THEN Blank(x, s)
        ELSE IF x[s].type = "string" THEN x[s].defaults[Min(good)].val
        ELSE IF Sat(f, x[s].defaults[Min(good)].val) THEN "y" ELSE "n"
  BY DEF sym_get_default
<1>5. Blank(x, s) \in Contents /\ "y" \in Contents /\ "n" \in Contents
  BY DEF Blank, Contents
<1> HIDE DEF good
<1>6. QED
  BY <1>1, <1>2, <1>3, <1>4, <1>5

(* A value has its type.                                                   *)
LEMMA SymValueType ==
  ASSUME NEW x, Proper(x), NEW m, Given(x, m), NEW f, NEW s \in Ent(x)
  PROVE  SymValue(x, m, f, s) \in Solution(Len(x))
<1> DEFINE n == Len(x)
<1>1. /\ x[s].type \in {"bool", "string", "choice", "menu", "comment"}
      /\ x[s].prompt \in BOOLEAN
      /\ sym_calc_visibility(x, f, s) \in BOOLEAN
  BY VisibilityBool DEF Proper, Symbols
<1>2. rev_dep(x, f, s) \in BOOLEAN
  BY DEF rev_dep
<1>3. sym_choice_default(x, f, s) \in 0 .. n /\ sym_calc_choice(x, m, f, s) \in 0 .. n
      /\ 0 \in 0 .. n
  BY ChoiceFacts DEF Proper, Ent
<1>4. sym_get_default(x, f, s) \in Contents /\ "y" \in Contents /\ "n" \in Contents
  BY DefaultFacts DEF Contents
<1>5. s \in m.has => m.def[s] \in Contents
  BY DEF Given
<1>0. x[s].choice # 0 => x[s].type = "bool"
  BY DEF Proper, Symbols
<1> DEFINE v == SymValue(x, m, f, s)
           vis == sym_calc_visibility(x, f, s)
           rev == rev_dep(x, f, s)
           default == sym_get_default(x, f, s)
           chosen == sym_calc_choice(x, m, f, s)
           write == vis \/ rev \/ Defaults(x, f, s) # {}
           no == FALSE
           Record(a, b, c, d, p, q, r) == [vis |-> a, rev |-> b, write |-> c, default |-> d,
                                           preset |-> p, chosen |-> q, val |-> r]
<1>6. /\ x[s].type = "choice" =>
           v = Record(vis, vis, vis, "n", sym_choice_default(x, f, s), IF vis THEN chosen ELSE 0,
                      IF vis /\ chosen # 0 THEN "y" ELSE "n")
      /\ x[s].type # "choice" /\ x[s].choice # 0 =>
           v = Record(vis, no, vis, "n", 0, 0, IF vis /\ f[x[s].choice].chosen = s THEN "y" ELSE "n")
      /\ x[s].type \in {"bool", "string"} /\ x[s].choice = 0 =>
           v = Record(vis, rev, write, IF rev THEN "y" ELSE default, 0, 0,
                      IF rev THEN "y" ELSE IF vis /\ s \in m.has THEN m.def[s] ELSE default)
      /\ x[s].type \in {"menu", "comment"} /\ x[s].choice = 0 =>
           v = Record(vis, no, no, "n", 0, 0, "n")
  BY <1>0, SymValueIs
<1>7. \A a, b, c \in BOOLEAN, d, r \in Contents, p, q \in 0 .. n : Record(a, b, c, d, p, q, r) \in Solution(n)
  BY DEF Solution
<1> HIDE DEF n, v, vis, rev, default, chosen, write, no, Record
<1>8. vis \in BOOLEAN /\ rev \in BOOLEAN /\ write \in BOOLEAN /\ no \in BOOLEAN
  BY <1>1, <1>2 DEF vis, rev, write, no
<1>9. default \in Contents /\ chosen \in 0 .. n
  BY <1>3, <1>4 DEF default, chosen
<1>10. ASSUME x[s].type = "choice" PROVE v \in Solution(n)
  BY <1>3, <1>4, <1>6, <1>7, <1>8, <1>9, <1>10
<1>11. ASSUME x[s].type # "choice" /\ x[s].choice # 0 PROVE v \in Solution(n)
  BY <1>3, <1>4, <1>6, <1>7, <1>8, <1>9, <1>11
<1>12. ASSUME x[s].type \in {"bool", "string"} /\ x[s].choice = 0 PROVE v \in Solution(n)
  <2>1. (IF rev THEN "y" ELSE IF vis /\ s \in m.has THEN m.def[s] ELSE default) \in Contents
        /\ (IF rev THEN "y" ELSE default) \in Contents
    BY <1>4, <1>5, <1>9
  <2>2. QED
    BY <1>3, <1>6, <1>7, <1>8, <1>12, <2>1
<1>13. ASSUME x[s].type \in {"menu", "comment"} /\ x[s].choice = 0 PROVE v \in Solution(n)
  BY <1>3, <1>4, <1>6, <1>7, <1>8, <1>13
<1>14. v \in Solution(n)
  BY <1>1, <1>10, <1>11, <1>12, <1>13
<1>15. QED
  BY <1>14 DEF v, n

(* A value is calculated from what the symbol needs, ...                   *)
LEMMA SymValueSame ==
  ASSUME NEW x, Proper(x), NEW m, NEW f, NEW g, NEW s \in Ent(x),
         \A r \in Needs(x, s) : f[r] = g[r]
  PROVE  SymValue(x, m, f, s) = SymValue(x, m, g, s)
<1>1. /\ Syms(x[s].visible) \subseteq Needs(x, s)
      /\ \A c \in x[s].rev : Syms(c) \subseteq Needs(x, s)
      /\ \A k \in DOMAIN x[s].defaults : Syms(x[s].defaults[k].if) \subseteq Needs(x, s)
      /\ x[s].type = "bool" => \A k \in DOMAIN x[s].defaults :
                                  Syms(x[s].defaults[k].val) \subseteq Needs(x, s)
      /\ \A v \in x[s].values : Syms(x[v].visible) \subseteq Needs(x, s)
      /\ x[s].choice # 0 => x[s].choice \in Needs(x, s)
  <2>1. \A c \in Conditions(x, s) : Syms(c) \subseteq Needs(x, s)
    BY DEF Needs
  <2>2. x[s].choice # 0 => x[s].choice \in Needs(x, s)
    BY DEF Needs
  <2>3. /\ x[s].visible \in Conditions(x, s)
        /\ x[s].rev \subseteq Conditions(x, s)
        /\ \A v \in x[s].values : x[v].visible \in Conditions(x, s)
        /\ \A k \in DOMAIN x[s].defaults : x[s].defaults[k].if \in Conditions(x, s)
        /\ x[s].type = "bool" =>
             \A k \in DOMAIN x[s].defaults : x[s].defaults[k].val \in Conditions(x, s)
    BY DEF Conditions
  <2>4. QED
    BY <2>1, <2>2, <2>3
<1>2. /\ x[s].type \in {"bool", "string", "choice", "menu", "comment"}
      /\ x[s].choice # 0 => x[s].type = "bool"
      /\ DOMAIN x[s].defaults \subseteq Nat
  BY DEF Proper, Symbols
<1>3. sym_calc_visibility(x, f, s) = sym_calc_visibility(x, g, s)
  BY <1>1, SatSame DEF sym_calc_visibility
<1>4. rev_dep(x, f, s) = rev_dep(x, g, s)
  BY <1>1, SatSame DEF rev_dep
<1>5. Defaults(x, f, s) = Defaults(x, g, s)
  BY <1>1, SatSame DEF Defaults
<1>6. Choosable(x, f, s) = Choosable(x, g, s)
  <2>1. \A v \in x[s].values : sym_calc_visibility(x, f, v) = sym_calc_visibility(x, g, v)
    BY <1>1, SatSame DEF sym_calc_visibility
  <2>2. QED
    BY <2>1 DEF Choosable
<1>7. sym_choice_default(x, f, s) = sym_choice_default(x, g, s)
  BY <1>5, <1>6 DEF sym_choice_default
<1>8. sym_calc_choice(x, m, f, s) = sym_calc_choice(x, m, g, s)
  BY <1>6, <1>7 DEF sym_calc_choice
<1>9. x[s].type \in {"bool", "string"} => sym_get_default(x, f, s) = sym_get_default(x, g, s)
  <2> DEFINE good == Defaults(x, f, s)
             d == x[s].defaults[Min(good)].val
  <2>1. good # {} => Min(good) \in DOMAIN x[s].defaults
    <3>1. good \subseteq Nat /\ good \subseteq DOMAIN x[s].defaults
      BY <1>2 DEF Defaults
    <3> HIDE DEF good
    <3>2. QED
      BY <3>1, MinIn
  <2>2. good # {} /\ x[s].type = "bool" => Sat(f, d) = Sat(g, d)
    BY <1>1, <2>1, SatSame
  <2>3. sym_get_default(x, f, s) = IF good = {} THEN Blank(x, s)
          ELSE IF x[s].type = "string" THEN d ELSE IF Sat(f, d) THEN "y" ELSE "n"
    BY DEF sym_get_default
  <2>4. sym_get_default(x, g, s) = IF good = {} THEN Blank(x, s)
          ELSE IF x[s].type = "string" THEN d ELSE IF Sat(g, d) THEN "y" ELSE "n"
    BY <1>5 DEF sym_get_default
  <2> HIDE DEF good, d
  <2>5. QED
    BY <2>2, <2>3, <2>4
<1>10. x[s].choice # 0 => f[x[s].choice].chosen = g[x[s].choice].chosen
  BY <1>1
<1>11. CASE x[s].type = "choice"
  BY <1>2, <1>3, <1>7, <1>8, <1>11, SymValueIs
<1>12. CASE x[s].type # "choice" /\ x[s].choice # 0
  <2> DEFINE vis == sym_calc_visibility(x, f, s)
             is == vis /\ f[x[s].choice].chosen = s
             Record(a, b) == [vis |-> a, rev |-> FALSE, write |-> a, default |-> "n", preset |-> 0,
                              chosen |-> 0, val |-> IF b THEN "y" ELSE "n"]
  <2>1. SymValue(x, m, f, s) = Record(vis, is)
    BY <1>2, <1>12, SymValueIs
  <2>2. SymValue(x, m, g, s) = Record(vis, is)
    BY <1>2, <1>3, <1>10, <1>12, SymValueIs
  <2>3. QED
    BY <2>1, <2>2
<1>13. CASE x[s].type \in {"bool", "string"} /\ x[s].choice = 0
  BY <1>2, <1>3, <1>4, <1>5, <1>9, <1>13, SymValueIs
<1>14. CASE x[s].type \in {"menu", "comment"} /\ x[s].choice = 0
  <2> DEFINE vis == sym_calc_visibility(x, f, s)
             Record(a) == [vis |-> a, rev |-> FALSE, write |-> FALSE, default |-> "n", preset |-> 0,
                           chosen |-> 0, val |-> "n"]
  <2>1. SymValue(x, m, f, s) = Record(vis)
    BY <1>2, <1>14, SymValueIs
  <2>2. SymValue(x, m, g, s) = Record(vis)
    BY <1>2, <1>3, <1>14, SymValueIs
  <2>3. QED
    BY <2>1, <2>2
<1>15. QED
  BY <1>2, <1>11, <1>12, <1>13, <1>14

(* ... so that there is one solution, which sym_calc_value finds.          *)
IsSol(x, m, f) == f = [s \in Ent(x) |-> SymValue(x, m, f, s)]
Sols(x, m) == CHOOSE f : IsSol(x, m, f)

LEMMA SolsUnique ==
  ASSUME NEW x, Proper(x), NEW m, NEW f, NEW g, IsSol(x, m, f), IsSol(x, m, g)
  PROVE  f = g
<1> DEFINE D == {s \in Ent(x) : f[s] # g[s]}
<1>1. ASSUME D # {} PROVE FALSE
  <2>1. D \in SUBSET DOMAIN x
    BY DEF Proper
  <2>2. PICK s \in D : Needs(x, s) \cap D = {}
    BY <1>1, <2>1 DEF Proper, sym_check_deps
  <2>3. s \in Ent(x) /\ f[s] # g[s] /\ Needs(x, s) \subseteq Ent(x)
    BY DEF Proper, Symbols
  <2>4. \A r \in Needs(x, s) : f[r] = g[r]
    BY <2>2, <2>3
  <2>5. SymValue(x, m, f, s) = SymValue(x, m, g, s)
    BY <2>3, <2>4, SymValueSame
  <2>6. QED
    BY <2>3, <2>5 DEF IsSol
<1>2. \A s \in Ent(x) : f[s] = g[s]
  BY <1>1
<1>3. QED
  BY <1>2 DEF IsSol

LEMMA SolsExist ==
  ASSUME NEW x, Proper(x), NEW m, Given(x, m)
  PROVE  \E f \in [Ent(x) -> Solution(Len(x))] : IsSol(x, m, f)
<1> DEFINE S == Ent(x)
           N == [s \in S |-> Needs(x, s)]
           W == [s \in S |-> Solution(Len(x))]
           V == Valued(S, W)
           G == [f \in V |-> [s \in S |-> SymValue(x, m, f, s)]]
<1>1. \A s \in S : N[s] \subseteq S
  BY DEF Proper, Symbols
<1>2. Grounded(S, N)
  BY DEF Grounded, Proper, sym_check_deps
<1>3. \A s \in S : W[s] # {}
  BY SymValueType
<1>4. \A f \in V : G[f] \in V
  <2>1. TAKE f \in V
  <2> DEFINE h == [s \in S |-> SymValue(x, m, f, s)]
  <2>2. \A s \in S : h[s] \in W[s]
    BY SymValueType
  <2>3. h = [s \in S |-> h[s]]
    OBVIOUS
  <2>4. G[f] = h
    OBVIOUS
  <2> HIDE DEF h, W, S, G
  <2>5. h \in V
    BY <2>2, <2>3, ValuedFacts
  <2>6. QED
    BY <2>4, <2>5
<1>5. \A f, g \in V, s \in S : (\A r \in N[s] : f[r] = g[r]) => G[f][s] = G[g][s]
  BY SymValueSame
<1>6. PICK f \in V : \A s \in S : f[s] = G[f][s]
  <2>1. Local(S, N, W, G)
    <3> HIDE DEF S, N, W, G
    <3>1. QED
      BY <1>1, <1>3, <1>4, <1>5 DEF Local
  <2> HIDE DEF S, N, W, G
  <2>2. QED
    BY <1>2, <2>1, SomeSolution
<1>7. f = [s \in S |-> f[s]] /\ \A s \in S : f[s] \in W[s]
  BY ValuedFacts
<1>8. \A s \in S : f[s] = SymValue(x, m, f, s) /\ f[s] \in Solution(Len(x))
  BY <1>6, <1>7
<1>9. f = [s \in S |-> SymValue(x, m, f, s)] /\ f \in [Ent(x) -> Solution(Len(x))]
  <2> HIDE DEF V
  <2>1. QED
    BY <1>7, <1>8
<1>10. QED
  BY <1>9 DEF IsSol

LEMMA SolsFacts ==
  ASSUME NEW x, Proper(x), NEW m, Given(x, m)
  PROVE  /\ IsSol(x, m, Sols(x, m))
         /\ Sols(x, m) \in [Ent(x) -> Solution(Len(x))]
         /\ \A f : IsSol(x, m, f) => f = Sols(x, m)
<1>1. PICK f \in [Ent(x) -> Solution(Len(x))] : IsSol(x, m, f)
  BY SolsExist
<1>2. IsSol(x, m, Sols(x, m))
  BY <1>1 DEF Sols
<1>3. \A g : IsSol(x, m, g) => g = Sols(x, m)
  BY <1>2, SolsUnique
<1>4. QED
  BY <1>1, <1>2, <1>3

LEMMA CalcValue ==
  ASSUME Proper(e), NEW m, Given(e, m)
  PROVE  sym_calc_value(m) = Sols(e, m)
<1> DEFINE Sol[s \in Entries] == SymValue(e, m, Sol, s)
<1>1. PICK f : IsSol(e, m, f)
  BY SolsFacts
<1>2. f = [s \in Entries |-> SymValue(e, m, f, s)]
  BY <1>1 DEF IsSol, Ent, Entries
<1>3. Sol = [s \in Entries |-> SymValue(e, m, Sol, s)]
  BY <1>2
<1> HIDE DEF Sol
<1>4. IsSol(e, m, Sol)
  BY <1>3 DEF IsSol, Ent, Entries
<1>5. sym_calc_value(m) = [s \in Entries |-> Sol[s]]
  BY DEF sym_calc_value, Sol
<1>6. Sol = [s \in Entries |-> Sol[s]]
  BY <1>3
<1>7. QED
  BY <1>4, <1>5, <1>6, SolsFacts

-----------------------------------------------------------------------------
(* menu_finalize: conditions are about entries, in their places.           *)

(* Going up or down a range comes to an end.                               *)
LEMMA LaterGrounded ==
  ASSUME NEW a \in Nat, NEW b \in Nat
  PROVE  Grounded(a .. b, [j \in a .. b |-> j + 1 .. b])
<1> DEFINE N == [j \in a .. b |-> j + 1 .. b]
<1>1. SUFFICES ASSUME NEW T \in SUBSET (a .. b), T # {} PROVE \E s \in T : N[s] \cap T = {}
  BY DEF Grounded
<1>2. T \subseteq 0 .. b
  OBVIOUS
<1>3. Max(T) \in T /\ \A y \in T : y <= Max(T)
  BY <1>1, <1>2, MaxIn
<1>4. Max(T) \in a .. b
  BY <1>3
<1>5. \A y \in N[Max(T)] : y > Max(T) /\ y \in Nat
  BY <1>4
<1>6. N[Max(T)] \cap T = {}
  BY <1>3, <1>4, <1>5
<1>7. QED
  BY <1>3, <1>6

LEMMA EarlierGrounded ==
  ASSUME NEW b \in Nat
  PROVE  Grounded(1 .. b, [j \in 1 .. b |-> 1 .. j - 1])
<1> DEFINE N == [j \in 1 .. b |-> 1 .. j - 1]
<1>1. SUFFICES ASSUME NEW T \in SUBSET (1 .. b), T # {} PROVE \E s \in T : N[s] \cap T = {}
  BY DEF Grounded
<1>2. T \subseteq Nat
  OBVIOUS
<1>3. Min(T) \in T /\ \A y \in T : Min(T) <= y
  BY <1>1, <1>2, MinIn
<1>4. Min(T) \in 1 .. b
  BY <1>3
<1>5. \A y \in N[Min(T)] : y < Min(T) /\ y \in Nat
  BY <1>4
<1>6. N[Min(T)] \cap T = {}
  BY <1>3, <1>4, <1>5
<1>7. QED
  BY <1>3, <1>6

-----------------------------------------------------------------------------
(* The places of names, and conditions about places.                       *)
LEMMA PosIs ==
  ASSUME NEW raw, WellFormed(raw), NEW i \in 1 .. Len(raw)
  PROVE  Pos(raw, raw[i].name) = i
<1>1. \A j \in 1 .. Len(raw) : raw[j].name = raw[i].name => j = i
  BY DEF WellFormed
<1>2. QED
  BY <1>1 DEF Pos

About(raw) == SUBSET SUBSET Literals(NamedIn(raw))

LEMMA PlacedIn ==
  ASSUME NEW raw, WellFormed(raw), NEW c, Known(raw, c)
  PROVE  Placed(raw, c) \in About(raw)
<1>1. ASSUME NEW k \in c, NEW l \in k
      PROVE  [l EXCEPT !.sym = Pos(raw, l.sym)] \in Literals(NamedIn(raw))
  <2>1. l \in UNION c
    BY <1>1
  <2>2. PICK i \in NamedIn(raw) : l.sym = raw[i].name
    BY <2>1 DEF Known, Literals, NamedIn, Ent
  <2>3. Pos(raw, l.sym) = i
    BY <2>2, PosIs DEF NamedIn, Ent
  <2>4. QED
    BY <2>1, <2>2, <2>3 DEF Known, Literals
<1>2. QED
  BY <1>1 DEF Placed, About

LEMMA AboutSyms ==
  ASSUME NEW raw, NEW c \in About(raw)
  PROVE  Syms(c) \subseteq NamedIn(raw)
BY DEF About, Literals, Syms

LEMMA Below == \A n \in Nat : \A i \in 1 .. n : \A j \in 1 .. i - 1 : j \in 1 .. n
OBVIOUS

LEMMA BlockEarlier ==
  ASSUME NEW raw, WellFormed(raw), NEW i \in 1 .. Len(raw), raw[i].block # ""
  PROVE  Pos(raw, raw[i].block) \in 1 .. i - 1 /\ Pos(raw, raw[i].block) \in 1 .. Len(raw)
<1>1. PICK j \in 1 .. i - 1 : raw[j].name = raw[i].block
  <2>1. \E j \in 1 .. i - 1 : Encloses(raw, j, i)
    BY DEF WellFormed
  <2>2. QED
    BY <2>1 DEF Encloses
<1>0. Len(raw) \in Nat
  BY DEF WellFormed
<1>2. j \in 1 .. Len(raw)
  BY <1>0, Below
<1>3. Pos(raw, raw[i].block) = j
  BY <1>1, <1>2, PosIs
<1>4. QED
  BY <1>2, <1>3

(* What an entry depends on exists, and is about places.                   *)
DepOf(raw, f, i) ==
  Placed(raw, raw[i].dep) \cup
  IF raw[i].block = "" THEN {}
  ELSE f[Pos(raw, raw[i].block)] \cup Placed(raw, raw[Pos(raw, raw[i].block)].if)

LEMMA DepOfIn ==
  ASSUME NEW raw, WellFormed(raw), NEW i \in 1 .. Len(raw), NEW f,
         raw[i].block # "" => f[Pos(raw, raw[i].block)] \in About(raw)
  PROVE  DepOf(raw, f, i) \in About(raw)
<1>1. Known(raw, raw[i].dep)
  BY DEF WellFormed
<1>2. Placed(raw, raw[i].dep) \in About(raw)
  BY <1>1, PlacedIn
<1>3. ASSUME raw[i].block # ""
      PROVE  f[Pos(raw, raw[i].block)] \in About(raw)
             /\ Placed(raw, raw[Pos(raw, raw[i].block)].if) \in About(raw)
  <2>1. Pos(raw, raw[i].block) \in 1 .. Len(raw)
    BY <1>3, BlockEarlier
  <2>2. Known(raw, raw[Pos(raw, raw[i].block)].if)
    BY <2>1 DEF WellFormed
  <2>3. QED
    BY <1>3, <2>2, PlacedIn
<1>4. QED
  BY <1>2, <1>3 DEF DepOf, About

LEMMA DependsFacts ==
  ASSUME NEW raw, WellFormed(raw)
  PROVE  /\ Depends(raw) = [i \in 1 .. Len(raw) |-> Depends(raw)[i]]
         /\ \A i \in 1 .. Len(raw) : /\ Depends(raw)[i] \in About(raw)
                                     /\ Depends(raw)[i] = DepOf(raw, Depends(raw), i)
<1> DEFINE S == 1 .. Len(raw)
           N == [i \in S |-> 1 .. i - 1]
           W == [i \in S |-> About(raw)]
           V == Valued(S, W)
           G == [f \in V |-> [i \in S |-> DepOf(raw, f, i)]]
           Dep[i \in S] == DepOf(raw, Dep, i)
<1>0. Len(raw) \in Nat
  BY DEF WellFormed
<1>1. Grounded(S, N)
  BY <1>0, EarlierGrounded
<1>2. \A f, g : \A i \in S : (\A r \in N[i] : f[r] = g[r]) => DepOf(raw, f, i) = DepOf(raw, g, i)
  BY BlockEarlier DEF DepOf
<1>3. Local(S, N, W, G)
  <2>1. \A i \in S : N[i] \subseteq S
    BY <1>0
  <2>2. \A i \in S : W[i] # {}
    BY DEF About
  <2>3. \A f \in V : G[f] \in V
    <3>1. TAKE f \in V
    <3> DEFINE h == [i \in S |-> DepOf(raw, f, i)]
    <3>2. \A i \in S : f[i] \in About(raw)
      BY ValuedFacts
    <3>3. \A i \in S : h[i] \in W[i]
      BY <3>2, DepOfIn, BlockEarlier
    <3>4. h = [i \in S |-> h[i]] /\ G[f] = h
      OBVIOUS
    <3> HIDE DEF h, W, S, G
    <3>5. QED
      BY <3>3, <3>4, ValuedFacts
  <2>4. \A f, g \in V, i \in S : (\A r \in N[i] : f[r] = g[r]) => G[f][i] = G[g][i]
    BY <1>2
  <2> HIDE DEF S, N, W, G
  <2>5. QED
    BY <2>1, <2>2, <2>3, <2>4 DEF Local
<1>4. PICK f \in V : \A i \in S : f[i] = G[f][i]
  <2> HIDE DEF S, N, W, G
  <2>1. QED
    BY <1>1, <1>3, SomeSolution
<1>5. f = [i \in S |-> f[i]] /\ (\A i \in S : f[i] \in W[i]) /\ \A i \in S : f[i] = DepOf(raw, f, i)
  BY <1>4, ValuedFacts
<1>6. f = [i \in S |-> DepOf(raw, f, i)]
  BY <1>5
<1>7. Dep = [i \in S |-> DepOf(raw, Dep, i)]
  BY <1>6
<1>8. Depends(raw) = Dep
  BY DEF Depends, DepOf
<1> HIDE DEF Dep
<1>9. \A i \in S : Dep[i] = f[i]
  <2>1. ASSUME NEW i \in S, \A r \in N[i] : Dep[r] = f[r] PROVE Dep[i] = f[i]
    <3>1. Dep[i] = DepOf(raw, Dep, i) /\ f[i] = DepOf(raw, f, i)
      BY <1>5, <1>7
    <3>2. QED
      BY <1>2, <2>1, <3>1
  <2>2. \A i \in S : N[i] \subseteq S
    BY <1>0
  <2> HIDE DEF S, N
  <2>3. Alike(S, N, Dep, f)
    BY <2>1, <2>2 DEF Alike
  <2>4. QED
    BY <1>1, <2>3, OneSolution
<1>10. QED
  BY <1>5, <1>7, <1>8, <1>9

-----------------------------------------------------------------------------
(* menu_finalize: the entries under an entry are behind it.                *)

(* The last entry that symbol i absorbs is between i and the end, if that  *)
(* goes for the last entries under those behind it.                        *)
LEMMA Above == \A n \in Nat : \A j \in 1 .. n : \A i \in 1 .. j - 1 : j \in i + 1 .. n
OBVIOUS
LEMMA Between == \A n \in Nat : \A i \in 1 .. n : \A j \in i + 1 .. n + 1 : j <= n => j \in i + 1 .. n
OBVIOUS
LEMMA Widened ==
  \A n, i \in Nat : \A j \in i + 1 .. n : \A l \in j .. n :
    \A r : r = l + 1 => \A v \in r - 1 .. n : v \in j - 1 .. n
OBVIOUS
EndIs(raw, dep, last, i, h, j) ==
  IF j <= Len(raw) /\ Absorbs(raw, dep, i, j) THEN h[last[j] + 1] ELSE j - 1

Absorbing(raw, dep, last, i, h) ==
  /\ \A j \in i + 1 .. Len(raw) + 1 : /\ h[j] \in j - 1 .. Len(raw)
                                      /\ h[j] = EndIs(raw, dep, last, i, h, j)
  /\ Absorbed(raw, dep, last, i) = h[i + 1]

LEMMA AbsorbedIs ==
  ASSUME NEW raw, Len(raw) \in Nat, NEW dep, NEW last, NEW i \in 1 .. Len(raw),
         \A j \in i + 1 .. Len(raw) : last[j] \in j .. Len(raw)
  PROVE  \E h : Absorbing(raw, dep, last, i, h)
<1> DEFINE n == Len(raw)
           S == i + 1 .. n + 1
           N == [j \in S |-> j + 1 .. n + 1]
           W == [j \in S |-> j - 1 .. n]
           V == Valued(S, W)
           G == [h \in V |-> [j \in S |-> EndIs(raw, dep, last, i, h, j)]]
           End[j \in S] == EndIs(raw, dep, last, i, End, j)
<1>0. n \in Nat /\ i \in Nat /\ 1 <= i /\ i <= n
  OBVIOUS
<1>1. Grounded(S, N)
  <2>1. i + 1 \in Nat /\ n + 1 \in Nat
    BY <1>0
  <2> HIDE DEF n
  <2>2. QED
    BY <2>1, LaterGrounded
<1>2. ASSUME NEW j \in S, j <= n PROVE last[j] + 1 \in N[j] /\ last[j] + 1 \in S
  <2>1. j \in i + 1 .. n
    BY <1>0, <1>2
  <2>2. last[j] \in j .. n
    BY <2>1
  <2> HIDE DEF n
  <2>3. last[j] + 1 \in j + 1 .. n + 1 /\ last[j] + 1 \in i + 1 .. n + 1
    BY <1>0, <2>1, <2>2
  <2>4. QED
    BY <2>3
<1>3. \A h, g : \A j \in S : (\A r \in N[j] : h[r] = g[r])
                             => EndIs(raw, dep, last, i, h, j) = EndIs(raw, dep, last, i, g, j)
  BY <1>2 DEF EndIs
<1>4. \A j \in S : N[j] \subseteq S
  <2> HIDE DEF n
  <2>1. QED
    BY <1>0
<1>5. \A h \in V : G[h] \in V
  <2>1. TAKE h \in V
  <2> DEFINE k == [j \in S |-> EndIs(raw, dep, last, i, h, j)]
  <2>2. \A j \in S : h[j] \in W[j]
    BY ValuedFacts
  <2>3. \A j \in S : k[j] \in W[j]
    <3>1. TAKE j \in S
    <3>2. CASE j <= n /\ Absorbs(raw, dep, i, j)
      <4>1. last[j] + 1 \in S /\ last[j] + 1 \in N[j]
        BY <1>2, <3>2
      <4>0. PICK r : r = last[j] + 1
        OBVIOUS
      <4>2. r \in S /\ h[r] \in r - 1 .. n
        BY <2>2, <4>0, <4>1
      <4>3. last[j] \in j .. n /\ j \in i + 1 .. n
        <5>1. j \in i + 1 .. n
          BY <1>0, <3>2
        <5>2. QED
          BY <5>1
      <4>4. k[j] = h[r]
        BY <3>2, <4>0 DEF EndIs
      <4> HIDE DEF n, k
      <4>5. h[r] \in j - 1 .. n
        BY <1>0, <4>0, <4>2, <4>3, Widened
      <4>6. QED
        BY <4>4, <4>5
    <3>3. CASE ~(j <= n /\ Absorbs(raw, dep, i, j))
      <4>1. k[j] = j - 1
        BY <3>3 DEF EndIs
      <4> HIDE DEF n, k
      <4>2. j - 1 \in j - 1 .. n
        BY <1>0
      <4>3. QED
        BY <4>1, <4>2
    <3>4. QED
      BY <3>2, <3>3
  <2>4. k = [j \in S |-> k[j]] /\ G[h] = k
    OBVIOUS
  <2> HIDE DEF k, W, S, G
  <2>5. QED
    BY <2>3, <2>4, ValuedFacts
<1>6. \A h, g \in V, j \in S : (\A r \in N[j] : h[r] = g[r]) => G[h][j] = G[g][j]
  BY <1>3
<1>7. \A j \in S : W[j] # {}
  <2>1. \A j \in S : j - 1 \in j - 1 .. n
    <3> HIDE DEF n
    <3>1. QED
      BY <1>0
  <2>2. QED
    BY <2>1
<1>8. PICK h \in V : \A j \in S : h[j] = G[h][j]
  <2>1. Local(S, N, W, G)
    <3> HIDE DEF S, N, W, G
    <3>1. QED
      BY <1>4, <1>5, <1>6, <1>7 DEF Local
  <2> HIDE DEF S, N, W, G
  <2>2. QED
    BY <1>1, <2>1, SomeSolution
<1>9. h = [j \in S |-> h[j]] /\ (\A j \in S : h[j] \in W[j])
      /\ \A j \in S : h[j] = EndIs(raw, dep, last, i, h, j)
  BY <1>8, ValuedFacts
<1>10. h = [j \in S |-> EndIs(raw, dep, last, i, h, j)]
  BY <1>9
<1>11. End = [j \in S |-> EndIs(raw, dep, last, i, End, j)]
  BY <1>10
<1>12. Absorbed(raw, dep, last, i) = End[i + 1]
  BY DEF Absorbed, EndIs
<1> HIDE DEF End
<1>13. \A j \in S : End[j] = h[j]
  <2>1. ASSUME NEW j \in S, \A r \in N[j] : End[r] = h[r] PROVE End[j] = h[j]
    <3>1. End[j] = EndIs(raw, dep, last, i, End, j) /\ h[j] = EndIs(raw, dep, last, i, h, j)
      BY <1>9, <1>11
    <3>2. QED
      BY <1>3, <2>1, <3>1
  <2> HIDE DEF S, N
  <2>3. Alike(S, N, End, h)
    BY <2>1, <1>4 DEF Alike
  <2>4. QED
    BY <1>1, <2>3, OneSolution
<1>14. i + 1 \in S
  <2>1. i + 1 \in i + 1 .. n + 1
    <3> HIDE DEF n
    <3>1. QED
      BY <1>0
  <2>2. QED
    BY <2>1
<1>15. Absorbing(raw, dep, last, i, h)
  BY <1>9, <1>12, <1>13, <1>14 DEF Absorbing
<1>16. QED
  BY <1>15

LEMMA AbsorbedIn ==
  ASSUME NEW raw, Len(raw) \in Nat, NEW dep, NEW last, NEW i \in 1 .. Len(raw),
         \A j \in i + 1 .. Len(raw) : last[j] \in j .. Len(raw)
  PROVE  Absorbed(raw, dep, last, i) \in i .. Len(raw)
<1>0. PICK h : Absorbing(raw, dep, last, i, h)
  BY AbsorbedIs
<1> DEFINE n == Len(raw)
<1>1. /\ \A j \in i + 1 .. n + 1 : h[j] \in j - 1 .. n
      /\ Absorbed(raw, dep, last, i) = h[i + 1]
  BY <1>0 DEF Absorbing
<1>2. n \in Nat /\ i \in 1 .. n
  OBVIOUS
<1> HIDE DEF n
<1>3. i + 1 \in i + 1 .. n + 1 /\ i + 1 - 1 = i
  BY <1>2
<1>4. h[i + 1] \in i .. n
  BY <1>1, <1>3
<1>5. QED
  BY <1>1, <1>4 DEF n

(* ... and if the spans of those behind it are nested, it ends no later    *)
(* than the symbol that absorbs it.                                        *)
LEMMA AbsorbedNests ==
  ASSUME NEW raw, Len(raw) \in Nat, NEW dep, NEW last, NEW i \in 1 .. Len(raw),
         \A j \in i + 1 .. Len(raw) : last[j] \in j .. Len(raw),
         \A j, k \in i + 1 .. Len(raw) : j < k /\ k <= last[j] => last[k] <= last[j],
         NEW j \in i + 1 .. Len(raw), j <= Absorbed(raw, dep, last, i)
  PROVE  last[j] <= Absorbed(raw, dep, last, i)
<1> DEFINE n == Len(raw)
           S == i + 1 .. n + 1
           A == Absorbed(raw, dep, last, i)
<1>0. PICK h : Absorbing(raw, dep, last, i, h)
  BY AbsorbedIs
<1>1. /\ \A k \in S : h[k] \in k - 1 .. n /\ h[k] = EndIs(raw, dep, last, i, h, k)
      /\ A = h[i + 1]
  BY <1>0 DEF Absorbing
<1>2. n \in Nat /\ i \in 1 .. n /\ j \in i + 1 .. n /\ j <= A
  OBVIOUS
<1>3. \A k \in i + 1 .. n : last[k] \in k .. n
  OBVIOUS
<1>4. \A k, l \in i + 1 .. n : k < l /\ l <= last[k] => last[l] <= last[k]
  OBVIOUS
<1>5. \A k \in S : h[k] = IF k <= n /\ Absorbs(raw, dep, i, k) THEN h[last[k] + 1] ELSE k - 1
  BY <1>1 DEF EndIs
<1>6. \A k \in S : h[k] \in k - 1 .. n
  BY <1>1
<1>7. A = h[i + 1]
  BY <1>1
<1> HIDE DEF n, A
<1> DEFINE T == {k \in i + 1 .. j : h[k] = A}
<1>8. i + 1 \in T /\ T \subseteq 0 .. n
  BY <1>2, <1>7
<1>9. PICK a \in T : \A k \in T : k <= a
  <2> HIDE DEF T
  <2>1. QED
    BY <1>2, <1>8, MaxIn
<1>10. a \in i + 1 .. j /\ h[a] = A
  BY <1>9
<1>11. a \in i + 1 .. n + 1 /\ a \in i + 1 .. n /\ a <= n /\ a \in Nat
  BY <1>2, <1>10
<1>12. Absorbs(raw, dep, i, a)
  <2>1. SUFFICES ASSUME ~Absorbs(raw, dep, i, a) PROVE FALSE
    OBVIOUS
  <2>2. A = a - 1
    BY <1>5, <1>10, <1>11, <2>1
  <2>3. QED
    BY <1>2, <1>10, <2>2
<1>13. last[a] \in a .. n /\ last[a] + 1 \in S /\ A = h[last[a] + 1]
  <2>1. last[a] \in a .. n
    BY <1>3, <1>11
  <2>2. last[a] + 1 \in S
    BY <1>2, <1>11, <2>1
  <2>3. QED
    BY <1>5, <1>10, <1>11, <1>12, <2>1, <2>2
<1>14. last[a] <= A
  <2>1. PICK r : r = last[a] + 1
    OBVIOUS
  <2>2. h[r] \in r - 1 .. n
    BY <1>6, <1>13, <2>1
  <2>3. h[r] = A /\ r \in Nat
    BY <1>13, <1>11, <1>2, <2>1
  <2>4. QED
    BY <1>2, <1>11, <1>13, <2>1, <2>2, <2>3
<1>15. j <= last[a]
  <2>1. SUFFICES ASSUME ~(j <= last[a]) PROVE FALSE
    OBVIOUS
  <2>2. last[a] + 1 \in i + 1 .. j
    BY <1>2, <1>11, <1>13, <2>1
  <2>3. last[a] + 1 \in T
    BY <1>13, <2>2
  <2>4. last[a] + 1 <= a
    BY <1>9, <2>3
  <2>5. QED
    BY <1>2, <1>11, <1>13, <2>4
<1>16. last[j] <= last[a]
  <2>1. CASE a = j
    <3>1. last[j] \in Nat
      BY <1>2, <1>3
    <3>2. QED
      BY <2>1, <3>1
  <2>2. CASE a # j
    <3>1. a < j
      BY <1>2, <1>10, <1>11, <2>2
    <3>2. QED
      BY <1>2, <1>4, <1>11, <1>15, <3>1
  <2>3. QED
    BY <2>1, <2>2
<1>17. last[j] \in Nat /\ A \in Nat /\ last[a] \in Nat
  <2>1. last[j] \in j .. n
    BY <1>2, <1>3
  <2>2. i + 1 \in S
    BY <1>2
  <2>3. h[i + 1] \in i + 1 - 1 .. n
    BY <1>6, <2>2
  <2>4. QED
    BY <1>2, <1>7, <1>11, <1>13, <2>1, <2>3
<1>18. QED
  BY <1>14, <1>16, <1>17 DEF A

LastOf(raw, dep, f, i) ==
  CASE raw[i].type \in {"bool", "string"} -> Absorbed(raw, dep, f, i)
    [] raw[i].type \in {"choice", "menu"} -> Max({i} \cup {f[j] : j \in Inside(raw, i)})
    [] OTHER -> i

LEMMA InsideLater ==
  ASSUME NEW raw, WellFormed(raw), NEW i \in 1 .. Len(raw)
  PROVE  Inside(raw, i) \subseteq i + 1 .. Len(raw)
<1>0. Len(raw) \in Nat
  BY DEF WellFormed
<1>1. ASSUME NEW j \in 1 .. Len(raw), raw[j].block = raw[i].name PROVE j \in i + 1 .. Len(raw)
  <2>1. raw[j].block # ""
    BY <1>1 DEF WellFormed
  <2>2. Pos(raw, raw[j].block) \in 1 .. j - 1 /\ Pos(raw, raw[j].block) = i
    BY <1>1, <2>1, BlockEarlier, PosIs
  <2>3. i \in 1 .. j - 1
    BY <2>2
  <2> DEFINE n == Len(raw)
  <2>4. n \in Nat /\ j \in 1 .. n
    BY <1>0
  <2> HIDE DEF n
  <2>5. j \in i + 1 .. n
    BY <2>3, <2>4, Above
  <2>6. QED
    BY <2>5 DEF n
<1>2. QED
  BY <1>1 DEF Inside

LEMMA LastOfIn ==
  ASSUME NEW raw, WellFormed(raw), NEW dep, NEW i \in 1 .. Len(raw), NEW f,
         \A j \in i + 1 .. Len(raw) : f[j] \in j .. Len(raw)
  PROVE  LastOf(raw, dep, f, i) \in i .. Len(raw)
<1>0. Len(raw) \in Nat
  BY DEF WellFormed
<1>1. Absorbed(raw, dep, f, i) \in i .. Len(raw)
  BY <1>0, AbsorbedIn
<1>2. i \in i .. Len(raw)
  BY <1>0
<1>3. Max({i} \cup {f[j] : j \in Inside(raw, i)}) \in i .. Len(raw)
  <2> DEFINE T == {i} \cup {f[j] : j \in Inside(raw, i)}
             n == Len(raw)
  <2>1. \A j \in Inside(raw, i) : j \in i + 1 .. n /\ f[j] \in j .. n
    BY InsideLater
  <2> HIDE DEF n
  <2>2. \A j \in Inside(raw, i) : f[j] \in i .. n
    BY <2>1
  <2>3. T \subseteq i .. n /\ T # {}
    BY <1>2, <2>2 DEF n
  <2>4. T \subseteq 0 .. n /\ n \in Nat
    BY <1>0, <2>3 DEF n
  <2> HIDE DEF T
  <2>5. Max(T) \in T
    BY <2>3, <2>4, MaxIn
  <2>6. QED
    BY <2>3, <2>5 DEF T, n
<1>4. QED
  BY <1>1, <1>2, <1>3 DEF LastOf

LEMMA LastOfSame ==
  ASSUME NEW raw, WellFormed(raw), NEW dep, NEW i \in 1 .. Len(raw), NEW f, NEW g,
         \A j \in i + 1 .. Len(raw) : f[j] = g[j]
  PROVE  LastOf(raw, dep, f, i) = LastOf(raw, dep, g, i)
<1>1. \A j \in Inside(raw, i) : f[j] = g[j]
  BY InsideLater
<1>2. {f[j] : j \in Inside(raw, i)} = {g[j] : j \in Inside(raw, i)}
  BY <1>1
<1>3. Absorbed(raw, dep, f, i) = Absorbed(raw, dep, g, i)
  <2> DEFINE n == Len(raw)
             S == i + 1 .. n + 1
             F(h) == [j \in S |-> EndIs(raw, dep, f, i, h, j)]
             H(h) == [j \in S |-> EndIs(raw, dep, g, i, h, j)]
  <2>1. \A j \in S : j <= n => f[j] = g[j]
    BY Between DEF WellFormed
  <2>2. \A h : \A j \in S : EndIs(raw, dep, f, i, h, j) = EndIs(raw, dep, g, i, h, j)
    BY <2>1 DEF EndIs
  <2>3. \A h : F(h) = H(h)
    BY <2>2
  <2>4. (CHOOSE h : h = F(h)) = CHOOSE h : h = H(h)
    <3> HIDE DEF F, H
    <3>1. QED
      BY <2>3
  <2>5. Absorbed(raw, dep, f, i) = (CHOOSE h : h = F(h))[i + 1]
    BY DEF Absorbed, EndIs
  <2>6. Absorbed(raw, dep, g, i) = (CHOOSE h : h = H(h))[i + 1]
    BY DEF Absorbed, EndIs
  <2>7. QED
    BY <2>4, <2>5, <2>6
<1>4. QED
  BY <1>2, <1>3 DEF LastOf

LEMMA LastsFacts ==
  ASSUME NEW raw, WellFormed(raw), NEW dep
  PROVE  \A i \in 1 .. Len(raw) : /\ Lasts(raw, dep)[i] \in i .. Len(raw)
                                  /\ Lasts(raw, dep)[i] = LastOf(raw, dep, Lasts(raw, dep), i)
<1> DEFINE S == 1 .. Len(raw)
           N == [i \in S |-> i + 1 .. Len(raw)]
           W == [i \in S |-> i .. Len(raw)]
           V == Valued(S, W)
           G == [f \in V |-> [i \in S |-> LastOf(raw, dep, f, i)]]
           Last[i \in S] == LastOf(raw, dep, Last, i)
<1>0. Len(raw) \in Nat
  BY DEF WellFormed
<1>1. Grounded(S, N)
  BY <1>0, LaterGrounded
<1>2. \A f, g : \A i \in S : (\A r \in N[i] : f[r] = g[r])
                             => LastOf(raw, dep, f, i) = LastOf(raw, dep, g, i)
  BY LastOfSame
<1>4. \A i \in S : N[i] \subseteq S
  BY <1>0
<1>3. Local(S, N, W, G)
  <2>2. \A i \in S : W[i] # {}
    <3>1. \A i \in S : i \in i .. Len(raw)
      BY <1>0
    <3>2. QED
      BY <3>1
  <2>3. \A f \in V : G[f] \in V
    <3>1. TAKE f \in V
    <3> DEFINE h == [i \in S |-> LastOf(raw, dep, f, i)]
    <3>2. \A i \in S : f[i] \in i .. Len(raw)
      BY ValuedFacts
    <3>3. \A i \in S : h[i] \in W[i]
      <4>1. TAKE i \in S
      <4>2. \A j \in i + 1 .. Len(raw) : j \in S
        BY <1>4
      <4>3. QED
        BY <3>2, <4>2, LastOfIn
    <3>4. h = [i \in S |-> h[i]] /\ G[f] = h
      OBVIOUS
    <3> HIDE DEF h, W, S, G
    <3>5. QED
      BY <3>3, <3>4, ValuedFacts
  <2>4. \A f, g \in V, i \in S : (\A r \in N[i] : f[r] = g[r]) => G[f][i] = G[g][i]
    BY <1>2
  <2> HIDE DEF S, N, W, G
  <2>5. QED
    BY <1>4, <2>2, <2>3, <2>4 DEF Local
<1>5. PICK f \in V : \A i \in S : f[i] = G[f][i]
  <2> HIDE DEF S, N, W, G
  <2>1. QED
    BY <1>1, <1>3, SomeSolution
<1>6. f = [i \in S |-> f[i]] /\ (\A i \in S : f[i] \in W[i]) /\ \A i \in S : f[i] = LastOf(raw, dep, f, i)
  BY <1>5, ValuedFacts
<1>7. f = [i \in S |-> LastOf(raw, dep, f, i)]
  BY <1>6
<1>8. Last = [i \in S |-> LastOf(raw, dep, Last, i)]
  BY <1>7
<1>9. Lasts(raw, dep) = Last
  BY DEF Lasts, LastOf
<1> HIDE DEF Last
<1>10. \A i \in S : Last[i] = f[i]
  <2>1. ASSUME NEW i \in S, \A r \in N[i] : Last[r] = f[r] PROVE Last[i] = f[i]
    <3>1. Last[i] = LastOf(raw, dep, Last, i) /\ f[i] = LastOf(raw, dep, f, i)
      BY <1>6, <1>8
    <3>2. QED
      BY <1>2, <2>1, <3>1
  <2> HIDE DEF S, N
  <2>3. Alike(S, N, Last, f)
    BY <2>1, <1>4 DEF Alike
  <2>4. QED
    BY <1>1, <2>3, OneSolution
<1>11. QED
  BY <1>6, <1>8, <1>9, <1>10

LEMMA Within ==
  \A n \in Nat : \A i \in 1 .. n : \A b \in 1 .. i - 1 : \A k \in b + 1 .. i : \A a \in b .. k - 1 :
    a \in 1 .. n
OBVIOUS

(* A block ends before the block around it.                                *)
LEMMA BlockAround ==
  ASSUME NEW raw, WellFormed(raw), NEW i \in 1 .. Len(raw), raw[i].block # "",
         NEW b, b = Pos(raw, raw[i].block)
  PROVE  /\ b \in 1 .. i - 1 /\ b \in 1 .. Len(raw)
         /\ raw[b].type \in {"choice", "menu"} /\ raw[b].name = raw[i].block
         /\ \A k \in b + 1 .. i : raw[k].block # "" /\ Pos(raw, raw[k].block) \in b .. k - 1
<1>0. Len(raw) \in Nat /\ \A j \in 1 .. Len(raw) : raw[j].name # ""
  BY DEF WellFormed
<1>1. PICK j \in 1 .. i - 1 : Encloses(raw, j, i)
  BY DEF WellFormed
<1>2. j \in 1 .. Len(raw)
  BY <1>0, Below
<1>3. /\ raw[j].type \in {"choice", "menu"} /\ raw[j].name = raw[i].block
      /\ \A k \in j + 1 .. i : \E a \in j .. k - 1 : raw[a].name = raw[k].block
  BY <1>1 DEF Encloses
<1>4. b = j
  BY <1>2, <1>3, PosIs
<1>5. ASSUME NEW k \in b + 1 .. i PROVE raw[k].block # "" /\ Pos(raw, raw[k].block) \in b .. k - 1
  <2>1. PICK a \in j .. k - 1 : raw[a].name = raw[k].block
    BY <1>3, <1>4, <1>5
  <2> DEFINE n == Len(raw)
  <2>2. n \in Nat /\ i \in 1 .. n /\ b \in 1 .. i - 1 /\ k \in b + 1 .. i /\ a \in b .. k - 1
    BY <1>0, <1>1, <1>4, <2>1
  <2> HIDE DEF n
  <2>3. a \in 1 .. n
    BY <2>2, Within
  <2>4. a \in 1 .. Len(raw)
    BY <2>3 DEF n
  <2>5. Pos(raw, raw[k].block) = a
    BY <2>1, <2>4, PosIs
  <2>6. QED
    BY <1>0, <2>1, <2>2, <2>4, <2>5
<1>6. QED
  BY <1>1, <1>2, <1>3, <1>4, <1>5

(* What is under an entry ends no later than the entry does.               *)
LEMMA LastsNest ==
  ASSUME NEW raw, WellFormed(raw), NEW dep
  PROVE  \A i, j \in 1 .. Len(raw) :
           i < j /\ j <= Lasts(raw, dep)[i] => Lasts(raw, dep)[j] <= Lasts(raw, dep)[i]
<1> DEFINE n == Len(raw)
           L == Lasts(raw, dep)
           Nests(i) == \A j \in 1 .. n : i < j /\ j <= L[i] => L[j] <= L[i]
           Bad == {i \in 1 .. n : ~Nests(i)}
<1>0. n \in Nat
  BY DEF WellFormed
<1>1. \A i \in 1 .. n : L[i] \in i .. n /\ L[i] = LastOf(raw, dep, L, i)
  BY LastsFacts
<1>2. SUFFICES ASSUME Bad # {} PROVE FALSE
  <2>1. ASSUME Bad = {} PROVE \A i \in 1 .. n : Nests(i)
    <3> HIDE DEF Nests
    <3>1. QED
      BY <2>1
  <2>2. QED
    BY <2>1
<1> HIDE DEF L
<1>3. PICK i \in Bad : \A k \in Bad : k <= i
  <2>1. Bad \subseteq 0 .. n
    BY <1>0
  <2> HIDE DEF Bad, n
  <2>2. QED
    BY <1>0, <1>2, <2>1, MaxIn
<1>4. PICK j \in 1 .. n : i < j /\ j <= L[i] /\ ~(L[j] <= L[i])
  BY <1>3
<1>5. i \in 1 .. n
  BY <1>3
<1>6. \A k \in i + 1 .. n : Nests(k)
  <2>1. \A k \in i + 1 .. n : k \in 1 .. n /\ k \in Nat /\ i \in Nat /\ ~(k <= i)
    <3> HIDE DEF n
    <3>1. QED
      BY <1>0, <1>5
  <2>2. QED
    BY <1>3, <2>1
<1>7. j \in i + 1 .. n
  <2> HIDE DEF n
  <2>1. QED
    BY <1>0, <1>4, <1>5
<1>8. CASE raw[i].type \in {"bool", "string"}
  <2>1. L[i] = Absorbed(raw, dep, L, i)
    BY <1>1, <1>5, <1>8 DEF LastOf
  <2>2. \A k \in i + 1 .. n : k \in 1 .. n
    <3> HIDE DEF n
    <3>1. QED
      BY <1>0, <1>5
  <2>3. \A k \in i + 1 .. Len(raw) : L[k] \in k .. Len(raw)
    BY <1>1, <2>2
  <2>4. \A k, l \in i + 1 .. Len(raw) : k < l /\ l <= L[k] => L[l] <= L[k]
    BY <1>6, <2>2
  <2>5. L[j] <= Absorbed(raw, dep, L, i)
    BY <1>0, <1>4, <1>5, <1>7, <2>1, <2>3, <2>4, AbsorbedNests
  <2>6. QED
    BY <1>4, <2>1, <2>5
<1>9. CASE raw[i].type \in {"choice", "menu"}
  <2> DEFINE T == {i} \cup {L[k] : k \in Inside(raw, i)}
  <2>1. L[i] = Max(T)
    BY <1>1, <1>5, <1>9 DEF LastOf
  <2>2. Inside(raw, i) \subseteq i + 1 .. n /\ Inside(raw, i) \subseteq 1 .. n
    BY <1>5, InsideLater DEF Inside
  <2>3. T \subseteq 0 .. n
    <3>1. \A k \in Inside(raw, i) : k \in 1 .. n /\ L[k] \in k .. n
      BY <1>1, <2>2
    <3> HIDE DEF n
    <3>2. \A k \in Inside(raw, i) : L[k] \in 0 .. n
      BY <1>0, <3>1
    <3>3. QED
      BY <1>0, <1>5, <3>2
  <2>4. L[i] \in T /\ \A y \in T : y <= L[i]
    <3> HIDE DEF T, n
    <3>1. i \in T
      BY DEF T
    <3>2. QED
      BY <1>0, <2>1, <2>3, <3>1, MaxIn
  <2>5. PICK k \in Inside(raw, i) : L[i] = L[k]
    <3>1. L[i] # i
      <4> HIDE DEF n
      <4>1. QED
        BY <1>0, <1>4, <1>5
    <3>2. QED
      BY <2>4, <3>1
  <2>6. k \in i + 1 .. n /\ Nests(k)
    BY <1>6, <2>2
  <2>7. \A m \in Inside(raw, i) : L[m] <= L[i]
    BY <2>4
  <2>8. CASE j >= k
    <3>1. j = k \/ k < j
      <4> HIDE DEF n
      <4>1. QED
        BY <1>0, <1>7, <2>6, <2>8
    <3>2. CASE j = k
      BY <1>4, <2>7, <3>2
    <3>3. CASE k < j
      <4>1. L[j] <= L[k]
        BY <1>4, <2>5, <2>6, <3>3
      <4>2. QED
        BY <1>4, <2>5, <4>1
    <3>4. QED
      BY <3>1, <3>2, <3>3
  <2>9. CASE j < k
    <3> DEFINE C == {m \in i + 1 .. k : ~(L[m] <= L[i])}
    <3>1. j \in C
      <4> HIDE DEF n, L
      <4>1. QED
        BY <1>0, <1>4, <1>7, <2>6, <2>9
    <3>2. PICK m \in C : \A l \in C : m <= l
      <4>1. C \subseteq Nat
        BY <1>5
      <4> HIDE DEF C
      <4>2. QED
        BY <3>1, <4>1, MinIn
    <3>3. raw[k].block = raw[i].name /\ raw[k].block # "" /\ Pos(raw, raw[k].block) = i
      <4>1. k \in 1 .. n /\ raw[k].block = raw[i].name
        BY DEF Inside
      <4>2. raw[i].name # ""
        BY <1>5 DEF WellFormed
      <4>3. QED
        BY <1>5, <4>1, <4>2, PosIs
    <3>4. k \in 1 .. n /\ m \in i + 1 .. k /\ m \in 1 .. n
      <4>1. k \in i + 1 .. n /\ m \in i + 1 .. k
        BY <2>6, <3>2
      <4> HIDE DEF n
      <4>2. QED
        BY <1>0, <1>5, <4>1
    <3>5. raw[m].block # "" /\ Pos(raw, raw[m].block) \in i .. m - 1
      <4>1. \A l \in i + 1 .. k : raw[l].block # "" /\ Pos(raw, raw[l].block) \in i .. l - 1
        <5>1. PICK b : b = Pos(raw, raw[k].block)
          OBVIOUS
        <5>2. raw[k].block # "" /\ k \in 1 .. Len(raw) /\ b = i
          BY <3>3, <3>4, <5>1
        <5>3. \A l \in b + 1 .. k : raw[l].block # "" /\ Pos(raw, raw[l].block) \in b .. l - 1
          BY <5>1, <5>2, BlockAround
        <5>4. QED
          BY <5>2, <5>3
      <4>2. QED
        BY <3>4, <4>1
    <3>6. PICK b : b = Pos(raw, raw[m].block)
      OBVIOUS
    <3>7. b \in 1 .. n /\ b \in i .. m - 1 /\ raw[b].name = raw[m].block /\ raw[b].type \in {"choice", "menu"}
      BY <3>4, <3>5, <3>6, BlockAround
    <3>8. m \in Inside(raw, b)
      BY <3>4, <3>7 DEF Inside
    <3>9. b # i
      <4>1. SUFFICES ASSUME b = i PROVE FALSE
        OBVIOUS
      <4>2. L[m] <= L[i]
        BY <2>7, <3>8, <4>1
      <4>3. QED
        BY <3>2, <4>2
    <3>10. L[b] <= L[i]
      <4>1. b \in i + 1 .. k /\ ~(m <= b)
        <5>1. k \in i + 1 .. n
          BY <2>6
        <5> HIDE DEF n
        <5>2. QED
          BY <1>0, <1>5, <3>4, <3>7, <3>9, <5>1
      <4>2. b \notin C
        BY <3>2, <4>1
      <4>3. QED
        BY <4>1, <4>2
    <3>11. L[m] <= L[b]
      <4> DEFINE U == {b} \cup {L[l] : l \in Inside(raw, b)}
      <4>1. L[b] = Max(U)
        BY <1>1, <3>7 DEF LastOf
      <4>2. Inside(raw, b) \subseteq 1 .. n
        BY DEF Inside
      <4>3. U \subseteq 0 .. n
        <5>1. \A l \in Inside(raw, b) : l \in 1 .. n /\ L[l] \in l .. n
          BY <1>1, <4>2
        <5> HIDE DEF n
        <5>2. \A l \in Inside(raw, b) : L[l] \in 0 .. n
          BY <1>0, <5>1
        <5>3. QED
          BY <1>0, <3>7, <5>2
      <4>4. L[m] \in U /\ U # {}
        BY <3>8
      <4> HIDE DEF U, n
      <4>5. QED
        BY <1>0, <4>1, <4>3, <4>4, MaxIn
    <3>12. L[m] \in Nat /\ L[b] \in Nat /\ L[i] \in Nat
      <4>1. L[m] \in m .. n /\ L[b] \in b .. n /\ L[i] \in i .. n
        BY <1>1, <1>5, <3>4, <3>7
      <4>2. QED
        BY <1>5, <3>4, <3>7, <4>1
    <3>13. L[m] <= L[i]
      BY <3>10, <3>11, <3>12
    <3>14. QED
      BY <3>2, <3>13
  <2>10. QED
    <3> HIDE DEF n
    <3>1. QED
      BY <1>0, <1>7, <2>6, <2>8, <2>9
<1>10. CASE raw[i].type \notin {"bool", "string", "choice", "menu"}
  <2>1. L[i] = i
    BY <1>1, <1>5, <1>10 DEF LastOf
  <2> HIDE DEF n
  <2>2. QED
    BY <1>0, <1>4, <1>5, <2>1
<1>11. QED
  BY <1>8, <1>9, <1>10

-----------------------------------------------------------------------------
(* menu_finalize: what its result is, entry by entry.                      *)

(* The entries that menu_finalize leaves, field by field.                  *)
LEMMA FinalIs ==
  ASSUME NEW raw, WellFormed(raw)
  PROVE  LET x == menu_finalize(raw)
             dep == Depends(raw)
         IN  /\ Len(x) = Len(raw) /\ Len(x) \in Nat /\ DOMAIN x = 1 .. Len(x)
             /\ \A i \in 1 .. Len(x) :
                  /\ x[i].name = raw[i].name
                  /\ x[i].type = raw[i].type
                  /\ x[i].prompt = raw[i].prompt
                  /\ x[i].visible = Visible(raw, dep, i)
                  /\ x[i].last = IF raw[i].prompt THEN Lasts(raw, dep)[i] ELSE i
                  /\ x[i].values = ValuesOf(raw, i)
                  /\ x[i].choice = FinalChoice(raw, i)
                  /\ x[i].defaults = [k \in DOMAIN raw[i].defaults |-> FinalDefault(raw, dep, i, k)]
                  /\ x[i].rev = FinalRev(raw, dep, i)
<1> DEFINE x == menu_finalize(raw)
           dep == Depends(raw)
           n == Len(raw)
           At(i) == [name |-> raw[i].name, type |-> raw[i].type, prompt |-> raw[i].prompt, menu |-> raw[i].menu,
                     visible |-> Visible(raw, dep, i),
                     last |-> IF raw[i].prompt THEN Lasts(raw, dep)[i] ELSE i,
                     values |-> ValuesOf(raw, i),
                     choice |-> FinalChoice(raw, i),
                     defaults |-> [k \in DOMAIN raw[i].defaults |-> FinalDefault(raw, dep, i, k)],
                     rev |-> FinalRev(raw, dep, i)]
<1>1. n \in Nat
  BY DEF WellFormed
<1>2. x = [i \in 1 .. n |-> At(i)]
  BY DEF menu_finalize
<1> HIDE DEF x, n
<1>3. Len(x) = n /\ DOMAIN x = 1 .. n
  <2> HIDE DEF At
  <2>1. QED
    BY <1>1, <1>2
<1>4. \A i \in 1 .. n : x[i] = At(i)
  <2> HIDE DEF At
  <2>1. QED
    BY <1>2
<1>5. QED
  BY <1>1, <1>3, <1>4 DEF x, n

LEMMA FinalNames ==
  ASSUME NEW raw, WellFormed(raw)
  PROVE  /\ Len(menu_finalize(raw)) = Len(raw)
         /\ \A i \in 1 .. Len(raw) : menu_finalize(raw)[i].name = raw[i].name
<1> DEFINE x == menu_finalize(raw)
           dep == Depends(raw)
<1>1. /\ Len(x) = Len(raw) /\ Len(x) \in Nat /\ DOMAIN x = 1 .. Len(x)
      /\ \A j \in 1 .. Len(raw) :
                  /\ x[j].name = raw[j].name
                  /\ x[j].type = raw[j].type
                  /\ x[j].prompt = raw[j].prompt
                  /\ x[j].last = IF raw[j].prompt THEN Lasts(raw, dep)[j] ELSE j
                  /\ x[j].values = ValuesOf(raw, j)
                  /\ x[j].choice = FinalChoice(raw, j)
                  /\ x[j].defaults = [k \in DOMAIN raw[j].defaults |-> FinalDefault(raw, dep, j, k)]
  BY FinalIs
<1> HIDE DEF x, dep
<1>2. Len(x) = Len(raw) /\ \A i \in 1 .. Len(raw) : x[i].name = raw[i].name
  BY <1>1
<1>3. QED
  BY <1>2 DEF x

(* What an entry needs is an entry.                                        *)
LEMMA NeedsIn ==
  ASSUME NEW raw, WellFormed(raw), NEW i \in 1 .. Len(raw)
  PROVE  /\ Needs(menu_finalize(raw), i) \subseteq 1 .. Len(raw)
         /\ \A c \in Conditions(menu_finalize(raw), i) : Syms(c) \subseteq NamedIn(raw)
<1> DEFINE x == menu_finalize(raw)
           dep == Depends(raw)
           A == About(raw)
<1>1. /\ Len(x) = Len(raw) /\ Len(x) \in Nat
      /\ \A j \in 1 .. Len(raw) :
                  /\ x[j].type = raw[j].type
                  /\ x[j].visible = Visible(raw, dep, j)
                  /\ x[j].values = ValuesOf(raw, j)
                  /\ x[j].choice = FinalChoice(raw, j)
                  /\ x[j].defaults = [k \in DOMAIN raw[j].defaults |-> FinalDefault(raw, dep, j, k)]
                  /\ x[j].rev = FinalRev(raw, dep, j)
  BY FinalIs
<1>2. \A j \in 1 .. Len(raw) : dep[j] \in A
  BY DependsFacts
<1>3. \A j \in 1 .. Len(raw) : /\ Known(raw, raw[j].if)
                               /\ raw[j].selects # {} => raw[j].type = "bool"
                               /\ \A d \in raw[j].selects : Known(raw, d.if)
                               /\ \A k \in DOMAIN raw[j].defaults :
                                    /\ Known(raw, raw[j].defaults[k].if)
                                    /\ raw[j].type = "bool" => Known(raw, raw[j].defaults[k].val)
  BY DEF WellFormed
<1> HIDE DEF x, dep, A
<1>4. \A c, d \in A : c \cup d \in A
  BY DEF A, About
<1>5. \A j \in 1 .. Len(raw) : x[j].visible \in A
  <2>1. TAKE j \in 1 .. Len(raw)
  <2>2. Placed(raw, raw[j].if) \in A
    BY <1>3, PlacedIn DEF A
  <2>3. x[j].visible = dep[j] \cup Placed(raw, raw[j].if)
    BY <1>1 DEF Visible
  <2>4. QED
    BY <1>2, <1>4, <2>2, <2>3
<1>6. \A c \in x[i].rev : c \in A
  <2>1. TAKE c \in x[i].rev
  <2>0. PICK j \in 1 .. Len(raw) : c \in {{Yes(j)} \cup dep[j] \cup Placed(raw, d.if) :
                                           d \in {y \in raw[j].selects : y.sym = raw[i].name}}
    <3>1. x[i].rev = FinalRev(raw, dep, i)
      BY <1>1
    <3>2. c \in FinalRev(raw, dep, i)
      BY <3>1
    <3> HIDE <1>1, <1>2, <1>3, <1>4, <1>5
    <3>3. QED
      BY <3>2 DEF FinalRev
  <2>2. PICK d \in raw[j].selects : c = {Yes(j)} \cup dep[j] \cup Placed(raw, d.if)
    BY <2>0
  <2>3. {Yes(j)} \in A
    <3>1. j \in NamedIn(raw)
      BY <1>3, <2>2 DEF NamedIn, Ent
    <3>2. QED
      BY <3>1 DEF Yes, Is, A, About, Literals, Contents
  <2>4. Placed(raw, d.if) \in A
    BY <1>3, PlacedIn DEF A
  <2>5. QED
    BY <1>2, <1>4, <2>2, <2>3, <2>4
<1>7. \A v \in x[i].values : x[v].visible \in A
  BY <1>1, <1>5 DEF ValuesOf
<1>8. ASSUME NEW k \in DOMAIN x[i].defaults
      PROVE  x[i].defaults[k].if \in A /\ (x[i].type = "bool" => x[i].defaults[k].val \in A)
  <2>1. k \in DOMAIN raw[i].defaults /\ x[i].defaults[k] = FinalDefault(raw, dep, i, k)
    BY <1>1
  <2>2. Placed(raw, raw[i].defaults[k].if) \in A
    BY <1>3, <2>1, PlacedIn DEF A
  <2>3. raw[i].type = "bool" => Placed(raw, raw[i].defaults[k].val) \in A
    BY <1>3, <2>1, PlacedIn DEF A
  <2>4. FinalDefault(raw, dep, i, k).if = dep[i] \cup Placed(raw, raw[i].defaults[k].if)
    BY DEF FinalDefault
  <2>5. raw[i].type = "bool" => FinalDefault(raw, dep, i, k).val = Placed(raw, raw[i].defaults[k].val)
    BY DEF FinalDefault
  <2>6. x[i].defaults[k].if = dep[i] \cup Placed(raw, raw[i].defaults[k].if)
        /\ (raw[i].type = "bool" => x[i].defaults[k].val = Placed(raw, raw[i].defaults[k].val))
    BY <2>1, <2>4, <2>5
  <2>7. x[i].type = raw[i].type
    BY <1>1
  <2>8. QED
    BY <1>2, <1>4, <2>2, <2>3, <2>6, <2>7
<1>9. \A c \in Conditions(x, i) : c \in A
  BY <1>5, <1>6, <1>7, <1>8 DEF Conditions
<1>10. \A c \in Conditions(x, i) : Syms(c) \subseteq NamedIn(raw)
  BY <1>9, AboutSyms DEF A
<1>11. x[i].choice \in {0} \cup 1 .. Len(raw)
  <2>1. ASSUME NEW c \in 1 .. Len(raw), i \in ValuesOf(raw, c)
        PROVE  Pos(raw, raw[i].block) \in 1 .. Len(raw)
    <3>1. raw[i].block = raw[c].name
      BY <2>1 DEF ValuesOf
    <3>2. QED
      BY <3>1, PosIs
  <2>2. QED
    BY <1>1, <2>1 DEF FinalChoice
<1>12. Needs(x, i) \subseteq 1 .. Len(raw)
  <2>1. \A c \in Conditions(x, i) : Syms(c) \subseteq 1 .. Len(raw)
    BY <1>10 DEF NamedIn, Ent
  <2>2. QED
    BY <1>11, <2>1 DEF Needs
<1>13. QED
  BY <1>10, <1>12 DEF x

(* What conf_parse leaves in memory has the shape that the rest relies on. *)
LEMMA FinalProper ==
  ASSUME NEW raw, WellFormed(raw), sym_check_deps(menu_finalize(raw))
  PROVE  Proper(menu_finalize(raw))
<1> DEFINE x == menu_finalize(raw)
           dep == Depends(raw)
<1>1. /\ Len(x) = Len(raw) /\ Len(x) \in Nat /\ DOMAIN x = 1 .. Len(x)
      /\ \A j \in 1 .. Len(raw) :
                  /\ x[j].name = raw[j].name
                  /\ x[j].type = raw[j].type
                  /\ x[j].prompt = raw[j].prompt
                  /\ x[j].last = IF raw[j].prompt THEN Lasts(raw, dep)[j] ELSE j
                  /\ x[j].values = ValuesOf(raw, j)
                  /\ x[j].choice = FinalChoice(raw, j)
                  /\ x[j].defaults = [k \in DOMAIN raw[j].defaults |-> FinalDefault(raw, dep, j, k)]
  BY FinalIs
<1>2. sym_check_deps(x)
  OBVIOUS
<1>3. \A s \in 1 .. Len(raw) : Needs(x, s) \subseteq 1 .. Len(raw)
  BY NeedsIn
<1> HIDE DEF x, dep
<1>4. \A s, t \in Ent(x) : x[s].name = x[t].name => s = t
  <2>1. \A s, t \in 1 .. Len(raw) : raw[s].name = raw[t].name => s = t
    BY DEF WellFormed
  <2>2. QED
    BY <1>1, <2>1 DEF Ent
<1>5. ASSUME NEW s \in Ent(x) PROVE Symbols(x, s)
  <2>1. s \in 1 .. Len(raw)
    BY <1>1, <1>5 DEF Ent
  <2>2. /\ raw[s].type \in {"bool", "string", "choice", "menu", "comment"}
        /\ raw[s].prompt \in BOOLEAN
        /\ DOMAIN raw[s].defaults \subseteq Nat
        /\ \A k \in DOMAIN raw[s].defaults : raw[s].type = "string" => raw[s].defaults[k].val \in Contents
    BY <2>1 DEF WellFormed
  <2>3. x[s].last \in s .. Len(x)
    <3>1. Lasts(raw, dep)[s] \in s .. Len(raw)
      BY <2>1, LastsFacts
    <3>2. s \in s .. Len(raw)
      BY <1>1, <2>1
    <3>3. QED
      BY <1>1, <2>1, <3>1, <3>2
  <2>4. DOMAIN x[s].defaults \subseteq Nat
        /\ \A k \in DOMAIN x[s].defaults : x[s].type = "string" => x[s].defaults[k].val \in Contents
    <3>1. DOMAIN x[s].defaults = DOMAIN raw[s].defaults
      BY <1>1, <2>1
    <3>2. ASSUME NEW k \in DOMAIN raw[s].defaults, raw[s].type = "string"
          PROVE  x[s].defaults[k].val = raw[s].defaults[k].val
      <4>1. x[s].defaults[k] = FinalDefault(raw, dep, s, k)
        <5>1. x[s].defaults = [r \in DOMAIN raw[s].defaults |-> FinalDefault(raw, dep, s, r)]
          BY <1>1, <2>1
        <5>2. QED
          BY <3>2, <5>1
      <4>2. FinalDefault(raw, dep, s, k).val = raw[s].defaults[k].val
        BY <3>2 DEF FinalDefault
      <4>3. QED
        BY <4>1, <4>2
    <3>3. QED
      BY <1>1, <2>1, <2>2, <3>1, <3>2
  <2>5. \A i \in 1 .. Len(raw) : \A v \in ValuesOf(raw, i) :
           /\ v \in 1 .. Len(raw) /\ raw[v].block = raw[i].name /\ raw[v].type = "bool" /\ raw[i].type = "choice"
           /\ FinalChoice(raw, v) = i
    <3>0. TAKE i \in 1 .. Len(raw)
    <3>1. TAKE v \in ValuesOf(raw, i)
    <3>2. v \in 1 .. Len(raw) /\ raw[v].block = raw[i].name /\ raw[v].type = "bool" /\ raw[i].type = "choice"
      BY DEF ValuesOf
    <3>3. Pos(raw, raw[v].block) = i
      BY <3>2, PosIs
    <3>4. QED
      BY <3>2, <3>3 DEF FinalChoice
  <2>6. /\ x[s].values \subseteq Ent(x)
        /\ x[s].values # {} => x[s].type = "choice"
        /\ \A v \in x[s].values : x[v].choice = s
    <3>1. x[s].values = ValuesOf(raw, s) /\ x[s].type = raw[s].type
      BY <1>1, <2>1
    <3>2. \A v \in ValuesOf(raw, s) : v \in 1 .. Len(raw) /\ raw[s].type = "choice" /\ FinalChoice(raw, v) = s
      BY <2>1, <2>5
    <3>3. \A v \in ValuesOf(raw, s) : x[v].choice = s
      BY <1>1, <3>2
    <3>4. Ent(x) = 1 .. Len(raw)
      BY <1>1 DEF Ent
    <3>5. QED
      BY <3>1, <3>2, <3>3, <3>4
  <2>7. ASSUME x[s].choice # 0
        PROVE  /\ x[s].choice \in Ent(x) /\ s \in x[x[s].choice].values
               /\ x[s].type = "bool"
    <3>1. PICK c \in 1 .. Len(raw) : s \in ValuesOf(raw, c)
      BY <1>1, <2>1, <2>7 DEF FinalChoice
    <3>2. x[s].choice = c /\ raw[s].type = "bool"
      <4>1. FinalChoice(raw, s) = c /\ raw[s].type = "bool"
        BY <2>5, <3>1
      <4>2. x[s].choice = FinalChoice(raw, s)
        BY <1>1, <2>1
      <4>3. QED
        BY <4>1, <4>2
    <3>3. x[c].values = ValuesOf(raw, c) /\ x[s].type = raw[s].type /\ Ent(x) = 1 .. Len(raw)
      BY <1>1, <2>1 DEF Ent
    <3>4. QED
      BY <3>1, <3>2, <3>3
  <2>8. QED
    BY <1>1, <1>3, <2>1, <2>2, <2>3, <2>4, <2>6, <2>7 DEF Symbols, Ent
<1>6. Proper(x)
  BY <1>1, <1>2, <1>4, <1>5 DEF Proper, Ent
<1>7. QED
  BY <1>6 DEF x

(* The spans of the entries are nested, conditions are about booleans and  *)
(* texts, and a value of a choice is visible only where the choice is.     *)
Framed(x) ==
  /\ \A i \in Ent(x) : \A c \in Conditions(x, i) : Syms(c) \subseteq NamedIn(x)
  /\ \A i, j \in Ent(x) : i < j /\ j <= x[i].last => x[j].last <= x[i].last
  /\ \A i \in Ent(x) : x[i].last # i => x[i].prompt
  /\ \A i \in ChoicesIn(x) : x[i].prompt
  /\ \A v \in ValuesIn(x) : x[x[v].choice].visible \subseteq x[v].visible

LEMMA FinalFramed ==
  ASSUME NEW raw, WellFormed(raw), sym_check_deps(menu_finalize(raw))
  PROVE  Framed(menu_finalize(raw))
<1> DEFINE x == menu_finalize(raw)
           dep == Depends(raw)
           L == Lasts(raw, dep)
<1>0. /\ Len(x) = Len(raw) /\ Len(x) \in Nat /\ DOMAIN x = 1 .. Len(x)
      /\ \A i \in 1 .. Len(x) :
                  /\ x[i].name = raw[i].name
                  /\ x[i].type = raw[i].type
                  /\ x[i].prompt = raw[i].prompt
                  /\ x[i].visible = Visible(raw, dep, i)
                  /\ x[i].last = IF raw[i].prompt THEN L[i] ELSE i
                  /\ x[i].values = ValuesOf(raw, i)
                  /\ x[i].choice = FinalChoice(raw, i)
                  /\ x[i].defaults = [k \in DOMAIN raw[i].defaults |-> FinalDefault(raw, dep, i, k)]
                  /\ x[i].rev = FinalRev(raw, dep, i)
  BY FinalIs
<1>1. /\ Len(x) = Len(raw) /\ Len(x) \in Nat
      /\ \A j \in 1 .. Len(raw) :
                  /\ x[j].type = raw[j].type
                  /\ x[j].prompt = raw[j].prompt
                  /\ x[j].visible = Visible(raw, dep, j)
                  /\ x[j].last = IF raw[j].prompt THEN L[j] ELSE j
                  /\ x[j].values = ValuesOf(raw, j)
  <2> HIDE DEF x, dep, L
  <2>2. QED
    BY <1>0
<1>2. \A i \in 1 .. Len(raw) : \A c \in Conditions(x, i) : Syms(c) \subseteq NamedIn(raw)
  BY NeedsIn
<1>3. \A i \in 1 .. Len(raw) : L[i] \in i .. Len(raw)
  BY LastsFacts
<1>4. \A i, j \in 1 .. Len(raw) : i < j /\ j <= L[i] => L[j] <= L[i]
  BY LastsNest
<1>5. \A i \in 1 .. Len(raw) : dep[i] = DepOf(raw, dep, i)
  BY DependsFacts
<1>6. Proper(x)
  BY FinalProper
<1> HIDE DEF x, dep, L
<1>7. NamedIn(x) = NamedIn(raw) /\ Ent(x) = 1 .. Len(raw)
  BY <1>1 DEF NamedIn, Ent
<1>8. ASSUME NEW i \in 1 .. Len(raw), NEW j \in 1 .. Len(raw), i < j, j <= x[i].last
      PROVE  x[j].last <= x[i].last
  <2>1. raw[i].prompt /\ x[i].last = L[i]
    BY <1>1, <1>8
  <2>2. L[j] <= L[i]
    BY <1>4, <1>8, <2>1
  <2>3. x[j].last = L[j] \/ x[j].last = j
    BY <1>1
  <2>4. QED
    BY <1>8, <2>1, <2>2, <2>3
<1>9. \A i \in ChoicesIn(x) : x[i].prompt
  <2>1. TAKE i \in ChoicesIn(x)
  <2>2. i \in 1 .. Len(raw) /\ raw[i].type = "choice"
    BY <1>1, <1>7 DEF ChoicesIn
  <2>3. raw[i].type = "choice" => raw[i].prompt
    BY <2>2 DEF WellFormed
  <2>4. QED
    BY <1>1, <2>2, <2>3
<1>10. ASSUME NEW v \in ValuesIn(x) PROVE x[x[v].choice].visible \subseteq x[v].visible
  <2>1. v \in 1 .. Len(raw) /\ x[v].choice # 0
    BY <1>7 DEF ValuesIn
  <2>2. PICK c \in 1 .. Len(raw) : c = x[v].choice /\ v \in x[c].values
    BY <1>6, <1>7, <2>1 DEF Proper, Symbols
  <2>3. raw[v].block = raw[c].name
    BY <1>1, <2>2 DEF ValuesOf
  <2>4. raw[v].block # "" /\ Pos(raw, raw[v].block) = c
    <3>1. raw[c].name # ""
      BY DEF WellFormed
    <3>2. QED
      BY <2>3, <3>1, PosIs
  <2>5. dep[c] \cup Placed(raw, raw[c].if) \subseteq dep[v]
    BY <1>5, <2>1, <2>4 DEF DepOf
  <2>6. x[c].visible = dep[c] \cup Placed(raw, raw[c].if)
    BY <1>1 DEF Visible
  <2>7. dep[v] \subseteq x[v].visible
    BY <1>1, <2>1 DEF Visible
  <2>8. QED
    BY <2>2, <2>5, <2>6, <2>7
<1>11. \A i, j \in Ent(x) : i < j /\ j <= x[i].last => x[j].last <= x[i].last
  BY <1>7, <1>8
<1>12. \A i \in Ent(x) : \A c \in Conditions(x, i) : Syms(c) \subseteq NamedIn(x)
  BY <1>2, <1>7
<1>15. \A i \in Ent(x) : x[i].last # i => x[i].prompt
  BY <1>1, <1>7
<1>13. Framed(x)
  BY <1>9, <1>10, <1>11, <1>12, <1>15 DEF Framed
<1>14. QED
  BY <1>13 DEF x

-----------------------------------------------------------------------------
(* menu_is_visible and its marks.                                          *)

(* Children come later, so that menu_is_visible comes to an end.           *)
LEMMA ChildrenIn ==
  ASSUME Proper(e), NEW i \in Entries
  PROVE  Children(i) \subseteq i + 1 .. Len(e)
<1> DEFINE n == Len(e)
<1>1. n \in Nat /\ i \in 1 .. n /\ e[i].last \in i .. n
  BY DEF Proper, Symbols, Ent, Entries
<1>2. Children(i) \subseteq i + 1 .. e[i].last
  BY DEF Children
<1> HIDE DEF n
<1>3. i + 1 .. e[i].last \subseteq i + 1 .. n
  BY <1>1
<1>4. QED
  BY <1>2, <1>3 DEF n

SeenIs(m, f, i) ==
  e[i].prompt /\ \/ m.sol[i].vis
                 \/ /\ e[i].type # "string" /\ m.sol[i].val = "y"
                    /\ \E j \in Children(i) : f[j]

(* menu_is_visible, with its recursion unfolded once.                      *)
LEMMA SeenFacts ==
  ASSUME Proper(e), NEW m
  PROVE  \A i \in Entries : Seen(m)[i] = SeenIs(m, Seen(m), i)
<1> DEFINE S == Entries
           N == [i \in S |-> i + 1 .. Len(e)]
           W == [i \in S |-> BOOLEAN]
           V == Valued(S, W)
           G == [f \in V |-> [i \in S |-> SeenIs(m, f, i)]]
           F[i \in S] == SeenIs(m, F, i)
<1>0. Len(e) \in Nat /\ S = 1 .. Len(e)
  BY DEF Proper, Entries
<1>1. Grounded(S, N)
  BY <1>0, LaterGrounded
<1>2. Local(S, N, W, G)
  <2>1. \A i \in S : N[i] \subseteq S
    BY <1>0
  <2>2. \A i \in S : W[i] # {}
    OBVIOUS
  <2>3. \A f \in V : G[f] \in V
    <3>1. TAKE f \in V
    <3> DEFINE h == [i \in S |-> SeenIs(m, f, i)]
    <3>2. \A i \in S : h[i] \in W[i]
      BY DEF SeenIs
    <3>3. h = [i \in S |-> h[i]] /\ G[f] = h
      OBVIOUS
    <3> HIDE DEF h, W, S, G
    <3>4. QED
      BY <3>2, <3>3, ValuedFacts
  <2>4. \A f, g \in V, i \in S : (\A r \in N[i] : f[r] = g[r]) => G[f][i] = G[g][i]
    <3>1. TAKE f, g \in V
    <3>2. TAKE i \in S
    <3>3. HAVE \A r \in N[i] : f[r] = g[r]
    <3>4. \A j \in Children(i) : f[j] = g[j]
      BY <3>3, ChildrenIn
    <3>5. SeenIs(m, f, i) = SeenIs(m, g, i)
      BY <3>4 DEF SeenIs
    <3>6. QED
      BY <3>5
  <2> HIDE DEF S, N, W, G
  <2>5. QED
    BY <2>1, <2>2, <2>3, <2>4 DEF Local
<1>3. PICK f \in V : \A i \in S : f[i] = G[f][i]
  <2> HIDE DEF S, N, W, G
  <2>1. QED
    BY <1>1, <1>2, SomeSolution
<1>4. f = [i \in S |-> SeenIs(m, f, i)]
  BY <1>3, ValuedFacts
<1>5. F = [i \in S |-> SeenIs(m, F, i)]
  BY <1>4
<1>6. Seen(m) = F
  BY DEF Seen, SeenIs
<1> HIDE DEF F
<1>7. QED
  BY <1>5, <1>6

(* What menu_is_visible marks is not visible, and no string.               *)
Markable(x, m) == {s \in Ent(x) : ~m.sol[s].vis /\ x[s].type # "string"}
MarksIs(m, f, j) ==
  IF m.sol[j].vis \/ ~Seen(m)[j] THEN {} ELSE {j} \cup f[Min({k \in Children(j) : Seen(m)[k]})]

LEMMA MarksIn ==
  ASSUME Proper(e), NEW m, NEW i \in Entries
  PROVE  Marks(m, i) \subseteq Markable(e, m)
<1> DEFINE S == Entries
           N == [j \in S |-> j + 1 .. Len(e)]
           W == [j \in S |-> SUBSET Markable(e, m)]
           V == Valued(S, W)
           G == [f \in V |-> [j \in S |-> MarksIs(m, f, j)]]
           M[j \in S] == MarksIs(m, M, j)
<1>0. Len(e) \in Nat /\ S = 1 .. Len(e)
  BY DEF Proper, Entries
<1>1. Grounded(S, N)
  BY <1>0, LaterGrounded
<1>2. \A j \in S : N[j] \subseteq S
  BY <1>0
<1>3. ASSUME NEW j \in S, ~m.sol[j].vis, Seen(m)[j]
      PROVE  j \in Markable(e, m) /\ Min({k \in Children(j) : Seen(m)[k]}) \in N[j]
  <2> DEFINE T == {k \in Children(j) : Seen(m)[k]}
  <2>1. e[j].type # "string" /\ T # {}
    BY <1>3, SeenFacts DEF SeenIs
  <2>2. T \subseteq N[j] /\ T \subseteq Nat
    BY <1>0, ChildrenIn
  <2> HIDE DEF T
  <2>3. Min(T) \in T
    BY <2>1, <2>2, MinIn
  <2>4. j \in Markable(e, m)
    BY <1>3, <2>1 DEF Markable, Ent, Entries
  <2>5. QED
    BY <2>2, <2>3, <2>4 DEF T
<1>4. \A f, g : \A j \in S : (\A r \in N[j] : f[r] = g[r]) => MarksIs(m, f, j) = MarksIs(m, g, j)
  BY <1>3 DEF MarksIs
<1>5. Local(S, N, W, G)
  <2>2. \A j \in S : W[j] # {}
    OBVIOUS
  <2>3. \A f \in V : G[f] \in V
    <3>1. TAKE f \in V
    <3> DEFINE h == [j \in S |-> MarksIs(m, f, j)]
    <3>2. \A j \in S : f[j] \subseteq Markable(e, m)
      BY ValuedFacts
    <3>3. \A j \in S : h[j] \in W[j]
      <4>1. TAKE j \in S
      <4>2. CASE m.sol[j].vis \/ ~Seen(m)[j]
        BY <4>2 DEF MarksIs
      <4>3. CASE ~(m.sol[j].vis \/ ~Seen(m)[j])
        <5> DEFINE r == Min({k \in Children(j) : Seen(m)[k]})
        <5>1. j \in Markable(e, m) /\ r \in S
          BY <1>2, <1>3, <4>3
        <5>2. h[j] = {j} \cup f[r]
          BY <4>3 DEF MarksIs
        <5> HIDE DEF r, h
        <5>3. QED
          BY <3>2, <5>1, <5>2
      <4>4. QED
        BY <4>2, <4>3
    <3>4. h = [j \in S |-> h[j]] /\ G[f] = h
      OBVIOUS
    <3> HIDE DEF h, W, S, G
    <3>5. QED
      BY <3>3, <3>4, ValuedFacts
  <2>4. \A f, g \in V, j \in S : (\A r \in N[j] : f[r] = g[r]) => G[f][j] = G[g][j]
    BY <1>4
  <2> HIDE DEF S, N, W, G
  <2>5. QED
    BY <1>2, <2>2, <2>3, <2>4 DEF Local
<1>6. PICK f \in V : \A j \in S : f[j] = G[f][j]
  <2> HIDE DEF S, N, W, G
  <2>1. QED
    BY <1>1, <1>5, SomeSolution
<1>7. f = [j \in S |-> MarksIs(m, f, j)] /\ \A j \in S : f[j] \subseteq Markable(e, m)
  BY <1>6, ValuedFacts
<1>8. M = [j \in S |-> MarksIs(m, M, j)]
  BY <1>7
<1>9. Marks(m, i) = M[i]
  BY DEF Marks, MarksIs
<1> HIDE DEF M
<1>10. \A j \in S : M[j] = f[j]
  <2>1. ASSUME NEW j \in S, \A r \in N[j] : M[r] = f[r] PROVE M[j] = f[j]
    <3>1. M[j] = MarksIs(m, M, j) /\ f[j] = MarksIs(m, f, j)
      BY <1>7, <1>8
    <3>2. QED
      BY <1>4, <2>1, <3>1
  <2> HIDE DEF S, N
  <2>3. Alike(S, N, M, f)
    BY <2>1, <1>2 DEF Alike
  <2>4. QED
    BY <1>1, <2>3, OneSolution
<1>11. QED
  BY <1>7, <1>9, <1>10

(* Memories: what the user gave, and a solution for something given.       *)
Solves(x, f) == \E m : Given(x, m) /\ f = Sols(x, m)
Record(m) == m = [has |-> m.has, def |-> m.def, pick |-> m.pick, sol |-> m.sol,
                  write |-> m.write, changed |-> m.changed]
Held(x, m) == /\ Record(m) /\ Given(x, m)
              /\ m.write \subseteq NamedIn(x) /\ m.changed \in BOOLEAN
Full(x, m) == Held(x, m) /\ Solves(x, m.sol)

(* A memory has its type.                                                  *)
LEMMA FullType ==
  ASSUME NEW x, Proper(x), NEW m, Full(x, m)
  PROVE  m \in Memories(Len(x)) /\ \A s \in Ent(x) : m.pick[s] \in {0} \cup x[s].values
<1>1. PICK o : Given(x, o) /\ m.sol = Sols(x, o)
  BY DEF Full, Solves
<1>2. m.sol \in [Ent(x) -> Solution(Len(x))]
  BY <1>1, SolsFacts
<1>3. /\ m.has \in SUBSET Ent(x)
      /\ m.def \in [Ent(x) -> {NoFile} \cup Contents]
      /\ m.pick \in [Ent(x) -> 0 .. Len(x)]
      /\ m.write \in SUBSET Ent(x)
      /\ m.changed \in BOOLEAN
      /\ \A s \in Ent(x) : m.pick[s] \in {0} \cup x[s].values
  BY DEF Full, Held, Given, NamedIn
<1>4. Record(m)
  BY DEF Full, Held
<1>5. m \in Memories(Len(x))
  BY <1>2, <1>3, <1>4 DEF Record, Memories, Ent, Solution
<1>6. QED
  BY <1>3, <1>5

(* What a solution says of one symbol.                                     *)
LEMMA SolvesFacts ==
  ASSUME NEW x, Proper(x), NEW f, Solves(x, f), NEW s \in Ent(x)
  PROVE  /\ f[s] \in Solution(Len(x))
         /\ f[s].val \in Contents /\ f[s].vis \in BOOLEAN /\ f[s].rev \in BOOLEAN
         /\ x[s].type = "choice" => /\ f[s].val \in {"n", "y"}
                                    /\ f[s].val = "y" <=> f[s].vis /\ f[s].chosen # 0
                                    /\ f[s].chosen # 0 => f[s].vis
                                    /\ f[s].val = "y" => /\ f[s].vis
                                                         /\ f[s].chosen \in x[s].values
                                                         /\ f[s].chosen \in Choosable(x, f, s)
         /\ x[s].choice # 0 => /\ f[s].write = f[s].vis
                               /\ f[s].val \in {"n", "y"}
                               /\ f[s].val = "y" <=> f[s].vis /\ f[x[s].choice].chosen = s
                               /\ ~f[s].rev
         /\ x[s].type \in {"bool", "string"} /\ f[s].vis => f[s].write
         /\ f[s].vis = sym_calc_visibility(x, f, s)
<1>1. PICK m : Given(x, m) /\ f = Sols(x, m)
  BY DEF Solves
<1>2. IsSol(x, m, f) /\ f \in [Ent(x) -> Solution(Len(x))]
  BY <1>1, SolsFacts
<1>3. f[s] = SymValue(x, m, f, s) /\ f[s] \in Solution(Len(x))
  BY <1>2 DEF IsSol
<1>4. x[s].choice # 0 => x[s].type = "bool"
  BY DEF Proper, Symbols
<1>5. x[s].type \in {"bool", "string", "choice", "menu", "comment"}
  BY DEF Proper, Symbols
<1> DEFINE vis == sym_calc_visibility(x, f, s)
<1>6. vis \in BOOLEAN
  BY VisibilityBool DEF Proper, Symbols
<1>7. ASSUME x[s].type = "choice"
      PROVE  /\ f[s].val \in {"n", "y"}
             /\ f[s].val = "y" <=> f[s].vis /\ f[s].chosen # 0
             /\ f[s].chosen # 0 => f[s].vis
             /\ f[s].val = "y" => /\ f[s].vis
                                  /\ f[s].chosen \in x[s].values
                                  /\ f[s].chosen \in Choosable(x, f, s)
             /\ f[s].vis = vis
  <2>1. f[s] = [vis |-> vis, rev |-> vis,
                write |-> vis, default |-> "n",
                preset |-> sym_choice_default(x, f, s),
                chosen |-> IF vis THEN sym_calc_choice(x, m, f, s) ELSE 0,
                val |-> IF vis /\ sym_calc_choice(x, m, f, s) # 0
                        THEN "y" ELSE "n"]
    BY <1>3, <1>4, <1>7, SymValueIs
  <2>2. sym_calc_choice(x, m, f, s) \in {0} \cup Choosable(x, f, s) /\ Choosable(x, f, s) \subseteq x[s].values
    BY ChoiceFacts
  <2> HIDE DEF vis
  <2>3. f[s].vis = vis /\ f[s].chosen = (IF vis THEN sym_calc_choice(x, m, f, s) ELSE 0)
        /\ f[s].val = IF vis /\ sym_calc_choice(x, m, f, s) # 0 THEN "y" ELSE "n"
    BY <2>1
  <2>4. QED
    BY <1>6, <2>2, <2>3
<1>8. ASSUME x[s].choice # 0
      PROVE  /\ f[s].write = f[s].vis
             /\ f[s].val \in {"n", "y"}
             /\ f[s].val = "y" <=> f[s].vis /\ f[x[s].choice].chosen = s
             /\ f[s].rev = FALSE
             /\ f[s].vis = vis
             /\ f[s].vis => f[s].write
  <2>1. f[s] = [vis |-> vis, rev |-> FALSE, write |-> vis,
                default |-> "n", preset |-> 0, chosen |-> 0,
                val |-> IF vis /\ f[x[s].choice].chosen = s THEN "y" ELSE "n"]
    BY <1>3, <1>4, <1>8, SymValueIs
  <2> HIDE DEF vis
  <2>2. f[s].vis = vis /\ f[s].rev = FALSE /\ f[s].write = vis
        /\ f[s].val = IF vis /\ f[x[s].choice].chosen = s THEN "y" ELSE "n"
    BY <2>1
  <2>3. QED
    BY <1>6, <2>2
<1>9. ASSUME x[s].type \in {"bool", "string"}, x[s].choice = 0
      PROVE  f[s].vis = vis /\ (f[s].vis => f[s].write)
  <2> DEFINE rev == rev_dep(x, f, s)
  <2>1. f[s] = [vis |-> vis, rev |-> rev,
                write |-> vis \/ rev \/ Defaults(x, f, s) # {},
                default |-> IF rev THEN "y" ELSE sym_get_default(x, f, s),
                preset |-> 0, chosen |-> 0,
                val |-> IF rev THEN "y"
                        ELSE IF vis /\ s \in m.has THEN m.def[s]
                        ELSE sym_get_default(x, f, s)]
    BY <1>3, <1>4, <1>9, SymValueIs
  <2> HIDE DEF vis, rev
  <2>2. f[s].vis = vis /\ f[s].write = (vis \/ rev \/ Defaults(x, f, s) # {})
    BY <2>1
  <2>3. QED
    BY <1>6, <2>2
<1>10. ASSUME x[s].type \in {"menu", "comment"}, x[s].choice = 0
       PROVE  f[s].vis = vis
  <2>1. f[s] = [vis |-> vis, rev |-> FALSE, write |-> FALSE,
                default |-> "n", preset |-> 0, chosen |-> 0, val |-> "n"]
    BY <1>3, <1>4, <1>10, SymValueIs
  <2> HIDE DEF vis
  <2>2. QED
    BY <2>1
<1>11. f[s].val \in Contents /\ f[s].vis \in BOOLEAN /\ f[s].rev \in BOOLEAN
  BY <1>3 DEF Solution
<1> HIDE DEF vis
<1>12. f[s].vis = vis
  BY <1>4, <1>5, <1>7, <1>8, <1>9, <1>10
<1>13. x[s].type \in {"bool", "string"} /\ f[s].vis => f[s].write
  BY <1>8, <1>9
<1>14. QED
  BY <1>3, <1>7, <1>8, <1>11, <1>12, <1>13 DEF vis

(* A symbol that is no value of a choice.                                  *)
Plain(x, s) == s \in NamedIn(x) /\ x[s].choice = 0

LEMMA PlainIs ==
  ASSUME NEW x, Proper(x), NEW m, Given(x, m), NEW s, Plain(x, s)
  PROVE  LET f == Sols(x, m)
         IN  /\ f[s].vis = sym_calc_visibility(x, f, s)
             /\ f[s].rev = rev_dep(x, f, s)
             /\ f[s].val = IF f[s].rev THEN "y"
                           ELSE IF f[s].vis /\ s \in m.has THEN m.def[s]
                           ELSE sym_get_default(x, f, s)
<1> DEFINE f == Sols(x, m)
           vis == sym_calc_visibility(x, f, s)
           rev == rev_dep(x, f, s)
<1>1. f[s] = SymValue(x, m, f, s)
  BY SolsFacts DEF IsSol, Plain, NamedIn
<1>2. x[s].choice = 0 /\ x[s].type \in {"bool", "string"}
  BY DEF Plain, NamedIn
<1>3. f[s] = [vis |-> vis, rev |-> rev,
              write |-> vis \/ rev \/ Defaults(x, f, s) # {},
              default |-> IF rev THEN "y" ELSE sym_get_default(x, f, s),
              preset |-> 0, chosen |-> 0,
              val |-> IF rev THEN "y"
                      ELSE IF vis /\ s \in m.has THEN m.def[s]
                      ELSE sym_get_default(x, f, s)]
  BY <1>1, <1>2, SymValueIs
<1> HIDE DEF vis, rev, f
<1>4. f[s].vis = vis /\ f[s].rev = rev
      /\ f[s].val = IF rev THEN "y" ELSE IF vis /\ s \in m.has THEN m.def[s]
                    ELSE sym_get_default(x, f, s)
  BY <1>3
<1>5. QED
  BY <1>4 DEF vis, rev, f

(* What was given may change without an effect on the values.              *)
Effectless(x, m, o) ==
  LET f == Sols(x, m)
  IN  /\ \A c \in ChoicesIn(x) : o.pick[c] = m.pick[c] \/ (f[c].val = "y" /\ o.pick[c] = f[c].chosen)
      /\ \A s \in NamedIn(x) :
           x[s].choice = 0 /\ f[s].vis /\ ~f[s].rev =>
             \/ (s \in o.has <=> s \in m.has) /\ o.def[s] = m.def[s]
             \/ s \in o.has /\ o.def[s] = f[s].val

(* The solution for what was given with no effect is the same.             *)
LEMMA SameSolution ==
  ASSUME NEW x, Proper(x), NEW m, NEW o, Given(x, m), Given(x, o), Effectless(x, m, o)
  PROVE  Sols(x, o) = Sols(x, m)
<1> DEFINE f == Sols(x, m)
<1>0. Solves(x, f)
  BY DEF Solves
<1>1. ASSUME NEW s \in Ent(x) PROVE SymValue(x, o, f, s) = SymValue(x, m, f, s)
  <2>1. x[s].choice # 0 => x[s].type = "bool"
    BY DEF Proper, Symbols
  <2>2. x[s].type \in {"bool", "string", "choice", "menu", "comment"}
    BY DEF Proper, Symbols
  <2>3. CASE x[s].type = "choice"
    <3>1. o.pick[s] = m.pick[s] \/ (f[s].val = "y" /\ o.pick[s] = f[s].chosen)
      BY <2>3 DEF Effectless, ChoicesIn, Ent
    <3>2. CASE o.pick[s] = m.pick[s]
      <4>1. sym_calc_choice(x, o, f, s) = sym_calc_choice(x, m, f, s)
        BY <3>2 DEF sym_calc_choice
      <4>2. QED
        BY <2>1, <2>3, <4>1, SymValueIs
    <3>3. CASE f[s].val = "y" /\ o.pick[s] = f[s].chosen
      <4>1. f[s].vis /\ f[s].chosen \in Choosable(x, f, s)
            /\ f[s].vis = sym_calc_visibility(x, f, s)
        BY <1>0, <1>1, <2>3, <3>3, SolvesFacts
      <4>2. f[s].chosen = IF sym_calc_visibility(x, f, s) THEN sym_calc_choice(x, m, f, s) ELSE 0
        <5>1. f[s] = SymValue(x, m, f, s)
          BY <1>1, SolsFacts DEF IsSol
        <5> HIDE DEF f
        <5>2. QED
          BY <2>1, <2>3, <5>1, SymValueIs
      <4>3. sym_calc_choice(x, o, f, s) = sym_calc_choice(x, m, f, s)
        BY <3>3, <4>1, <4>2 DEF sym_calc_choice
      <4>4. QED
        BY <2>1, <2>3, <4>3, SymValueIs
    <3>4. QED
      BY <3>1, <3>2, <3>3
  <2>4. CASE x[s].type # "choice" /\ x[s].choice # 0
    <3> HIDE DEF f
    <3> DEFINE vis == sym_calc_visibility(x, f, s)
               is == vis /\ f[x[s].choice].chosen = s
               At(a, b) == [vis |-> a, rev |-> FALSE, write |-> a, default |-> "n", preset |-> 0,
                            chosen |-> 0, val |-> IF b THEN "y" ELSE "n"]
    <3>1. SymValue(x, m, f, s) = At(vis, is)
      BY <2>1, <2>4, SymValueIs
    <3>2. SymValue(x, o, f, s) = At(vis, is)
      BY <2>1, <2>4, SymValueIs
    <3>3. QED
      BY <3>1, <3>2
  <2>5. CASE x[s].type \in {"bool", "string"} /\ x[s].choice = 0
    <3> DEFINE vis == sym_calc_visibility(x, f, s)
               rev == rev_dep(x, f, s)
               def == sym_get_default(x, f, s)
               At(v) == [vis |-> vis, rev |-> rev, write |-> vis \/ rev \/ Defaults(x, f, s) # {},
                         default |-> IF rev THEN "y" ELSE def, preset |-> 0, chosen |-> 0,
                         val |-> IF rev THEN "y" ELSE v]
               V(y) == IF vis /\ s \in y.has THEN y.def[s] ELSE def
    <3>1. Plain(x, s)
      BY <2>5 DEF Plain, NamedIn, Ent
    <3>2. f[s].vis = vis /\ f[s].rev = rev /\ f[s].val = IF rev THEN "y" ELSE V(m)
      BY <3>1, PlainIs
    <3>3. vis /\ ~rev => \/ (s \in o.has <=> s \in m.has) /\ o.def[s] = m.def[s]
                         \/ s \in o.has /\ o.def[s] = f[s].val
      BY <3>1, <3>2 DEF Effectless, Plain
    <3>4. ~rev => V(o) = V(m)
      BY <3>2, <3>3
    <3>5. SymValue(x, m, f, s) = At(V(m))
      BY <2>1, <2>5, SymValueIs
    <3>6. SymValue(x, o, f, s) = At(V(o))
      BY <2>1, <2>5, SymValueIs
    <3>7. rev => At(V(o)) = At(V(m))
      OBVIOUS
    <3> HIDE DEF V, At, rev, f
    <3>8. QED
      BY <3>4, <3>5, <3>6, <3>7
  <2>6. CASE x[s].type \in {"menu", "comment"} /\ x[s].choice = 0
    <3> HIDE DEF f
    <3> DEFINE vis == sym_calc_visibility(x, f, s)
               At(a) == [vis |-> a, rev |-> FALSE, write |-> FALSE, default |-> "n", preset |-> 0,
                            chosen |-> 0, val |-> "n"]
    <3>1. SymValue(x, m, f, s) = At(vis)
      BY <2>1, <2>6, SymValueIs
    <3>2. SymValue(x, o, f, s) = At(vis)
      BY <2>1, <2>6, SymValueIs
    <3>3. QED
      BY <3>1, <3>2
  <2>7. QED
    BY <2>2, <2>3, <2>4, <2>5, <2>6
<1>2. f = [s \in Ent(x) |-> SymValue(x, m, f, s)]
  BY SolsFacts DEF IsSol
<1>3. f = [s \in Ent(x) |-> SymValue(x, o, f, s)]
  <2> HIDE DEF f
  <2>1. QED
    BY <1>1, <1>2
<1>4. IsSol(x, o, f)
  BY <1>3 DEF IsSol
<1>5. QED
  BY <1>4, SolsFacts

(* Names in the model for the current entries.                             *)
LEMMA Current ==
  /\ Entries = Ent(e) /\ Named = NamedIn(e) /\ Values = ValuesIn(e) /\ ChoiceSyms = ChoicesIn(e)
BY DEF Entries, Ent, Named, NamedIn, Values, ValuesIn, ChoiceSyms, ChoicesIn

(* Everything calculated anew.                                             *)
LEMMA CalcFacts ==
  ASSUME Proper(e), NEW m, Held(e, m)
  PROVE  LET f == Sols(e, m)
             o == Calc(m)
         IN  /\ Full(e, o)
             /\ o.has = m.has /\ o.def = m.def /\ o.pick = m.pick /\ o.changed = m.changed
             /\ o.sol = f /\ o.sol = Sols(e, o)
             /\ o.write = {s \in NamedIn(e) : f[s].write} \cup (m.write \cap ValuesIn(e))
<1> DEFINE f == Sols(e, m)
           w == {s \in NamedIn(e) : f[s].write} \cup (m.write \cap ValuesIn(e))
           o == Calc(m)
<1>1. sym_calc_value(m) = f
  BY CalcValue DEF Held
<1>2. o = [m EXCEPT !.sol = f, !.write = w]
  BY <1>1, Current DEF Calc, Calculated
<1>3. Record(m) /\ Given(e, m) /\ m.write \subseteq NamedIn(e) /\ m.changed \in BOOLEAN
  BY DEF Held
<1> HIDE DEF f, w, o
<1>4. o = [has |-> m.has, def |-> m.def, pick |-> m.pick, sol |-> f, write |-> w, changed |-> m.changed]
  BY <1>2, <1>3 DEF Record
<1>5. /\ o.has = m.has /\ o.def = m.def /\ o.pick = m.pick /\ o.changed = m.changed
      /\ o.sol = f /\ o.write = w
  BY <1>4
<1>6. Record(o)
  BY <1>4, <1>5 DEF Record
<1>7. Given(e, o)
  BY <1>3, <1>5 DEF Given
<1>8. w \subseteq NamedIn(e)
  BY <1>3 DEF w
<1>9. Held(e, o) /\ Solves(e, o.sol)
  BY <1>3, <1>5, <1>6, <1>7, <1>8 DEF Held, Solves, f
<1>10. Effectless(e, m, o)
  BY <1>5 DEF Effectless
<1>11. Sols(e, o) = f
  BY <1>3, <1>7, <1>10, SameSolution DEF f
<1>12. QED
  BY <1>5, <1>9, <1>11 DEF o, f, w, Full

(* Everything declared invalid, and calculated when it is asked for.       *)
LEMMA ClearFacts ==
  ASSUME Proper(e), NEW m, Held(e, m)
  PROVE  LET f == Sols(e, m)
             o == sym_clear_all_valid(m)
         IN  /\ Full(e, o)
             /\ o.has = m.has /\ o.def = m.def /\ o.pick = m.pick /\ o.changed
             /\ o.sol = f /\ o.sol = Sols(e, o)
             /\ o.write = {s \in NamedIn(e) : f[s].write} \cup (m.write \cap ValuesIn(e))
<1> DEFINE c == Calc(m)
           o == sym_clear_all_valid(m)
<1>1. /\ Full(e, c)
      /\ c.has = m.has /\ c.def = m.def /\ c.pick = m.pick
      /\ c.sol = Sols(e, m) /\ c.sol = Sols(e, c)
      /\ c.write = {s \in NamedIn(e) : Sols(e, m)[s].write} \cup (m.write \cap ValuesIn(e))
  BY CalcFacts
<1>2. o = [c EXCEPT !.changed = TRUE]
  BY DEF sym_clear_all_valid
<1>3. Record(c) /\ Given(e, c) /\ c.write \subseteq NamedIn(e) /\ Solves(e, c.sol)
  BY <1>1 DEF Full, Held
<1> HIDE DEF c, o
<1>4. o = [has |-> c.has, def |-> c.def, pick |-> c.pick, sol |-> c.sol, write |-> c.write, changed |-> TRUE]
  BY <1>2, <1>3 DEF Record
<1>5. /\ o.has = c.has /\ o.def = c.def /\ o.pick = c.pick /\ o.changed = TRUE
      /\ o.sol = c.sol /\ o.write = c.write
  BY <1>4
<1>6. Record(o)
  BY <1>4, <1>5 DEF Record
<1>7. Given(e, o)
  BY <1>3, <1>5 DEF Given
<1>8. Full(e, o)
  BY <1>3, <1>5, <1>6, <1>7 DEF Held, Full
<1>9. Effectless(e, c, o)
  BY <1>5 DEF Effectless
<1>10. Sols(e, o) = Sols(e, c)
  BY <1>3, <1>7, <1>9, SameSolution
<1>11. QED
  BY <1>1, <1>5, <1>8, <1>10 DEF o

-----------------------------------------------------------------------------
(* What the functions that set values do to the memory.                    *)

(* SYMBOL_WRITE is set for what has to be written, and left over only on   *)
(* values of choices.                                                      *)
WriteGood(x, m) ==
  /\ {s \in NamedIn(x) : m.sol[s].write} \subseteq m.write
  /\ m.write \subseteq {s \in NamedIn(x) : m.sol[s].write} \cup ValuesIn(x)
(* The values are what sym_calc_value would make of what was given.        *)
Fit(x, m) == m.sol = Sols(x, m) /\ WriteGood(x, m)
(* A text that was read or given counts.                                   *)
Kept(x, m) == \A s \in NamedIn(x) : x[s].type = "string" /\ m.def[s] # NoFile => s \in m.has

(* What was given counts, but for what is excused.                         *)
Obeys(x, m, E) ==
  /\ \A s \in NamedIn(x) \ E : x[s].choice = 0 /\ m.sol[s].vis /\ ~m.sol[s].rev =>
       m.sol[s].val = IF s \in m.has THEN m.def[s] ELSE sym_get_default(x, m.sol, s)
  /\ \A c \in ChoicesIn(x) : m.sol[c].vis => sym_calc_choice(x, m, m.sol, c) = m.sol[c].chosen

(* The solution for what was given obeys it.                               *)
LEMMA FitObeys ==
  ASSUME NEW x, Proper(x), NEW m, Given(x, m), m.sol = Sols(x, m), NEW E
  PROVE  Obeys(x, m, E)
<1> DEFINE f == m.sol
<1>1. ASSUME NEW s \in NamedIn(x), x[s].choice = 0, f[s].vis, ~f[s].rev
      PROVE  f[s].val = IF s \in m.has THEN m.def[s] ELSE sym_get_default(x, f, s)
  <2>1. Plain(x, s)
    BY <1>1 DEF Plain
  <2>2. QED
    BY <1>1, <2>1, PlainIs
<1>2. ASSUME NEW c \in ChoicesIn(x), f[c].vis PROVE sym_calc_choice(x, m, f, c) = f[c].chosen
  <2> DEFINE vis == sym_calc_visibility(x, f, c)
             picked == sym_calc_choice(x, m, f, c)
  <2>1. c \in Ent(x) /\ x[c].type = "choice"
    BY DEF ChoicesIn
  <2>2. x[c].choice # 0 => x[c].type = "bool"
    BY <2>1 DEF Proper, Symbols
  <2>3. f[c] = SymValue(x, m, f, c)
    BY <2>1, SolsFacts DEF IsSol
  <2>4. f[c] = [vis |-> vis, rev |-> vis, write |-> vis, default |-> "n",
                preset |-> sym_choice_default(x, f, c),
                chosen |-> IF vis THEN picked ELSE 0,
                val |-> IF vis /\ picked # 0 THEN "y" ELSE "n"]
    BY <2>1, <2>2, <2>3, SymValueIs
  <2> HIDE DEF vis, picked, f
  <2>5. f[c].vis = vis /\ f[c].chosen = IF vis THEN picked ELSE 0
    BY <2>4
  <2>6. QED
    BY <1>2, <2>5 DEF picked
<1>3. QED
  BY <1>1, <1>2 DEF Obeys

(* After that the values are those of what was given.                      *)
LEMMA ClearFit ==
  ASSUME Proper(e), NEW m, Held(e, m)
  PROVE  Fit(e, sym_clear_all_valid(m)) /\ Fit(e, Calc(m))
<1>1. LET o == Calc(m) IN
        o.sol = Sols(e, m) /\ o.sol = Sols(e, o)
        /\ o.write = {s \in NamedIn(e) : Sols(e, m)[s].write} \cup (m.write \cap ValuesIn(e))
  BY CalcFacts
<1>2. LET o == sym_clear_all_valid(m) IN
        o.sol = Sols(e, m) /\ o.sol = Sols(e, o)
        /\ o.write = {s \in NamedIn(e) : Sols(e, m)[s].write} \cup (m.write \cap ValuesIn(e))
  BY ClearFacts
<1>3. QED
  BY <1>1, <1>2 DEF Fit, WriteGood

(* menu_is_visible gives nothing that counts.                              *)
LEMMA MarkedFacts ==
  ASSUME Proper(e), NEW m, Full(e, m), NEW i \in Entries
  PROVE  LET o == Marked(m, i)
         IN  /\ Full(e, o)
             /\ o.has = m.has \cup Marks(m, i)
             /\ Marks(m, i) \subseteq Markable(e, m)
             /\ o.def = m.def /\ o.sol = m.sol /\ o.changed = m.changed
             /\ Fit(e, m) => Fit(e, o)
             /\ WriteGood(e, m) => WriteGood(e, o)
             /\ Kept(e, m) => Kept(e, o)
             /\ \A E : Obeys(e, m, E) => Obeys(e, o, E)
<1> DEFINE o == Marked(m, i)
           k == Marks(m, i)
<1>1. k \subseteq Markable(e, m)
  BY MarksIn
<1>2. Record(m) /\ Given(e, m) /\ m.write \subseteq NamedIn(e) /\ m.changed \in BOOLEAN /\ Solves(e, m.sol)
  BY DEF Full, Held
<1>3. o = [m EXCEPT !.has = m.has \cup k]
  BY DEF Marked
<1> HIDE DEF o, k
<1>4. o = [has |-> m.has \cup k, def |-> m.def, pick |-> m.pick, sol |-> m.sol,
           write |-> m.write, changed |-> m.changed]
  BY <1>2, <1>3 DEF Record
<1>5. o.has = m.has \cup k /\ o.def = m.def /\ o.pick = m.pick /\ o.sol = m.sol
      /\ o.write = m.write /\ o.changed = m.changed
  BY <1>4
<1>6. Record(o)
  BY <1>4, <1>5 DEF Record
<1>7. Given(e, o)
  BY <1>1, <1>2, <1>5 DEF Given, Markable
<1>8. Full(e, o)
  BY <1>2, <1>5, <1>6, <1>7 DEF Full, Held
<1>9. ASSUME Fit(e, m) PROVE Fit(e, o)
  <2>1. Effectless(e, m, o)
    BY <1>1, <1>5, <1>9 DEF Effectless, Fit, Markable
  <2>2. Sols(e, o) = Sols(e, m)
    BY <1>2, <1>7, <2>1, SameSolution
  <2>3. QED
    BY <1>5, <1>9, <2>2 DEF Fit, WriteGood
<1>10. Kept(e, m) => Kept(e, o)
  BY <1>5 DEF Kept
<1>11. WriteGood(e, m) => WriteGood(e, o)
  BY <1>5 DEF WriteGood
<1>12. ASSUME NEW E, Obeys(e, m, E) PROVE Obeys(e, o, E)
  <2>1. \A s \in NamedIn(e) : m.sol[s].vis => (s \in o.has <=> s \in m.has)
    BY <1>1, <1>5 DEF Markable
  <2>2. \A c : sym_calc_choice(e, o, m.sol, c) = sym_calc_choice(e, m, m.sol, c)
    BY <1>5 DEF sym_calc_choice
  <2>3. QED
    BY <1>5, <1>12, <2>1, <2>2 DEF Obeys
<1>13. QED
  BY <1>1, <1>5, <1>8, <1>9, <1>10, <1>11, <1>12 DEF o, k

(* A value that is given.                                                  *)
LEMMA GivenValue ==
  ASSUME Proper(e), NEW m, Full(e, m), NEW s \in Entries, NEW v \in Contents,
         NEW A, A \subseteq Entries, \A a \in A : e[a].type # "string",
         NEW p \in [Entries -> 0 .. Len(e)], \A c \in Entries : p[c] \in {0} \cup e[c].values
  PROVE  LET o == [m EXCEPT !.has = m.has \cup {s} \cup A, !.pick = p, !.def[s] = v]
         IN  /\ Full(e, o) /\ o.has = m.has \cup {s} \cup A /\ o.pick = p
             /\ o.def = [m.def EXCEPT ![s] = v] /\ o.sol = m.sol /\ o.write = m.write
             /\ o.changed = m.changed
             /\ Kept(e, m) => Kept(e, o)
<1> DEFINE h == m.has \cup {s} \cup A
           d == [m.def EXCEPT ![s] = v]
           o == [m EXCEPT !.has = h, !.pick = p, !.def[s] = v]
<1>2. Record(m) /\ Given(e, m) /\ m.write \subseteq NamedIn(e) /\ m.changed \in BOOLEAN /\ Solves(e, m.sol)
  BY DEF Full, Held
<1>3. o = [m EXCEPT !.has = h, !.pick = p, !.def = d]
  BY <1>2 DEF Record
<1>4. o = [has |-> h, def |-> d, pick |-> p, sol |-> m.sol, write |-> m.write, changed |-> m.changed]
  <2> HIDE DEF h, d, o
  <2>1. QED
    BY <1>2, <1>3 DEF Record
<1> HIDE DEF o, d, h
<1>5. o.has = h /\ o.def = d /\ o.pick = p /\ o.sol = m.sol /\ o.write = m.write /\ o.changed = m.changed
  BY <1>4
<1>6. Record(o)
  BY <1>4, <1>5 DEF Record
<1>7. d \in [Entries -> {NoFile} \cup Contents] /\ d[s] = v /\ \A r \in Entries : r # s => d[r] = m.def[r]
  BY <1>2, Current DEF Given, d
<1>8. v # NoFile
  BY NoFileAssumption
<1>9. Given(e, o)
  <2>1. \A r \in Entries : d[r] = NoFile => e[r].type = "string" /\ r \notin h
    BY <1>2, <1>7, <1>8, Current DEF Given, h
  <2>2. h \subseteq Entries
    BY <1>2, Current DEF Given, h
  <2>3. QED
    BY <1>5, <1>7, <2>1, <2>2, Current DEF Given
<1>10. Full(e, o)
  BY <1>2, <1>5, <1>6, <1>9 DEF Full, Held
<1>11. Kept(e, m) => Kept(e, o)
  <2>1. NamedIn(e) \subseteq Entries
    BY Current DEF NamedIn
  <2>2. QED
    BY <1>5, <1>7, <2>1 DEF Kept, h
<1>12. QED
  BY <1>5, <1>10, <1>11 DEF o, h, d

(* A boolean is given.                                                     *)
LEMMA TristateFacts ==
  ASSUME Proper(e), NEW m, Full(e, m), NEW s \in Entries, e[s].type = "bool", NEW v, v \in {"n", "y"}
  PROVE  LET o == sym_set_tristate_value(m, s, v)
         IN  /\ Full(e, o) /\ m.has \subseteq o.has
             /\ s \in o.has /\ o.def = [m.def EXCEPT ![s] = v]
             /\ \A r \in NamedIn(e) : e[r].choice = 0 /\ r # s => (r \in o.has <=> r \in m.has)
             /\ Fit(e, m) => Fit(e, o)
             /\ WriteGood(e, m) => WriteGood(e, o)
             /\ Kept(e, m) => Kept(e, o)
             /\ \A E : Obeys(e, m, E) => Obeys(e, o, E \ {s})
             /\ m.sol[s].val = v => o.sol = m.sol /\ o.changed = m.changed
             /\ o.changed \/ (o.sol = m.sol /\ o.changed = m.changed)
<1> DEFINE c == e[s].choice
           all == c # 0 /\ v = "y"
           shown == {x \in e[c].values : m.sol[x].vis}
           A == IF all THEN {c} \cup shown ELSE {}
           p == IF all THEN [m.pick EXCEPT ![c] = s] ELSE m.pick
           g == [m EXCEPT !.has = m.has \cup {s} \cup A, !.pick = p, !.def[s] = v]
           o == sym_set_tristate_value(m, s, v)
<1>1. o = IF m.sol[s].val = v THEN g ELSE sym_clear_all_valid(g)
  BY DEF sym_set_tristate_value
<1>2. /\ c # 0 => c \in Entries /\ s \in e[c].values /\ e[c].values # {}
      /\ \A r \in Entries : e[r].values \subseteq Entries
      /\ \A r \in Entries : e[r].values # {} => e[r].type = "choice"
      /\ \A r \in Entries : e[r].choice # 0 => e[r].type = "bool"
      /\ \A r \in Entries : \A x \in e[r].values : e[x].choice = r
      /\ Len(e) \in Nat
  BY Current DEF Proper, Symbols
<1>3. v \in Contents
  BY DEF Contents
<1>4. A \subseteq Entries /\ \A a \in A : e[a].type # "string"
  <2>1. c # 0 => \A x \in shown : x \in Entries /\ e[x].choice # 0
    BY <1>2 DEF Entries
  <2>2. c # 0 => e[c].type = "choice" /\ c \in Entries
    BY <1>2
  <2>3. c # 0 => \A x \in shown : e[x].type = "bool"
    BY <1>2, <2>1
  <2>4. QED
    BY <2>1, <2>2, <2>3
<1>5. Given(e, m) /\ Record(m) /\ Solves(e, m.sol)
  BY DEF Full, Held
<1>6. p \in [Entries -> 0 .. Len(e)] /\ \A r \in Entries : p[r] \in {0} \cup e[r].values
  <2>1. m.pick \in [Entries -> 0 .. Len(e)] /\ \A r \in Entries : m.pick[r] \in {0} \cup e[r].values
    BY <1>5, Current DEF Given
  <2>2. s \in 0 .. Len(e)
    BY <1>2 DEF Entries
  <2>3. QED
    BY <1>2, <2>1, <2>2
<1> HIDE DEF A, p
<1>7. /\ Full(e, g) /\ g.has = m.has \cup {s} \cup A /\ g.pick = p
      /\ g.def = [m.def EXCEPT ![s] = v] /\ g.sol = m.sol /\ g.write = m.write
      /\ g.changed = m.changed
      /\ Kept(e, m) => Kept(e, g)
  BY <1>3, <1>4, <1>6, GivenValue
<1> HIDE DEF g
<1>8. Held(e, g) /\ Given(e, g)
  BY <1>7 DEF Full, Held
<1>12. \A r \in Entries : g.def[r] = IF r = s THEN v ELSE m.def[r]
  BY <1>5, <1>7, Current DEF Given
<1>13. \A r \in NamedIn(e) : r \in Entries /\ (e[r].choice = 0 => r \notin A)
  <2>1. \A r \in A : e[r].choice # 0 \/ e[r].type = "choice"
    BY <1>2 DEF A, Entries
  <2>2. QED
    BY <2>1, Current DEF NamedIn
<1>14. \A r \in NamedIn(e) : e[r].choice = 0 /\ r # s => (r \in g.has <=> r \in m.has)
  BY <1>7, <1>13
<1>15. ASSUME m.sol[s].val = v, all PROVE m.sol[s].vis /\ m.sol[c].chosen = s /\ s \in Choosable(e, m.sol, c)
  <2>1. m.sol[s].vis /\ m.sol[c].chosen = s
    BY <1>5, <1>15, SolvesFacts, Current
  <2>2. c \in Entries /\ e[c].type = "choice" /\ s # 0
    BY <1>2, <1>15 DEF Entries
  <2>3. m.sol[c].vis
    BY <1>5, <2>1, <2>2, SolvesFacts, Current
  <2>4. m.sol[c].val = "y"
    BY <1>5, <2>1, <2>2, <2>3, SolvesFacts, Current
  <2>5. QED
    BY <1>5, <2>1, <2>2, <2>4, SolvesFacts, Current
<1>9. CASE m.sol[s].val # v
  <2>1. o = sym_clear_all_valid(g)
    BY <1>1, <1>9
  <2>2. Full(e, o) /\ o.has = g.has /\ o.def = g.def /\ o.changed
    BY <1>8, <2>1, ClearFacts
  <2>3. Fit(e, o) /\ WriteGood(e, o)
    BY <1>8, <2>1, ClearFit DEF Fit
  <2>4. Kept(e, g) => Kept(e, o)
    BY <2>2 DEF Kept
  <2>5. \A E : Obeys(e, o, E)
    BY <2>2, <2>3, FitObeys DEF Full, Held, Fit
  <2> HIDE DEF o
  <2>6. s \in o.has /\ o.def = [m.def EXCEPT ![s] = v] /\ m.has \subseteq o.has
        /\ \A r \in NamedIn(e) : e[r].choice = 0 /\ r # s => (r \in o.has <=> r \in m.has)
    BY <1>7, <1>14, <2>2
  <2>7. QED
    BY <1>7, <1>9, <2>2, <2>3, <2>4, <2>5, <2>6 DEF o
<1>10. CASE m.sol[s].val = v
  <2>1. o = g
    BY <1>1, <1>10
  <2>2. ASSUME Fit(e, m) PROVE Fit(e, g)
    <3>1. m.sol = Sols(e, m)
      BY <2>2 DEF Fit
    <3>2. \A r \in ChoicesIn(e) : g.pick[r] = m.pick[r] \/ (m.sol[r].val = "y" /\ g.pick[r] = m.sol[r].chosen)
      <4>1. CASE ~all
        BY <1>7, <4>1 DEF p
      <4>2. CASE all
        <5>1. m.sol[s].vis /\ m.sol[c].chosen = s
          BY <1>10, <1>15, <4>2
        <5>2. c \in Entries /\ e[c].type = "choice" /\ s # 0
          BY <1>2, <4>2 DEF Entries
        <5>3. m.sol[c].val = "y"
          BY <1>5, <5>1, <5>2, SolvesFacts, Current
        <5>4. \A r \in Entries : g.pick[r] = IF r = c THEN s ELSE m.pick[r]
          BY <1>5, <1>7, <4>2, Current DEF p, Given
        <5>5. QED
          BY <5>1, <5>3, <5>4, Current DEF ChoicesIn
      <4>3. QED
        BY <4>1, <4>2
    <3>3. \A r \in NamedIn(e) :
            e[r].choice = 0 /\ m.sol[r].vis /\ ~m.sol[r].rev =>
             \/ (r \in g.has <=> r \in m.has) /\ g.def[r] = m.def[r]
             \/ r \in g.has /\ g.def[r] = m.sol[r].val
      <4>1. QED
        BY <1>7, <1>10, <1>12, <1>13, <1>14
    <3>4. Effectless(e, m, g)
      BY <3>1, <3>2, <3>3 DEF Effectless
    <3>5. Sols(e, g) = Sols(e, m)
      BY <1>5, <1>8, <3>4, SameSolution
    <3>6. QED
      BY <1>7, <2>2, <3>1, <3>5 DEF Fit, WriteGood
  <2>3. WriteGood(e, m) => WriteGood(e, g)
    BY <1>7 DEF WriteGood
  <2>4. ASSUME NEW E, Obeys(e, m, E) PROVE Obeys(e, g, E \ {s})
    <3>1. ASSUME NEW r \in ChoicesIn(e), m.sol[r].vis
          PROVE  sym_calc_choice(e, g, m.sol, r) = m.sol[r].chosen
      <4>1. sym_calc_choice(e, m, m.sol, r) = m.sol[r].chosen /\ r \in Entries
        BY <2>4, <3>1, Current DEF Obeys, ChoicesIn
      <4>2. CASE all /\ r = c
        <5>1. g.pick[c] = s
          BY <1>5, <1>7, <4>1, <4>2, Current DEF p, Given
        <5>2. QED
          BY <1>10, <1>15, <4>2, <5>1 DEF sym_calc_choice
      <4>3. CASE ~(all /\ r = c)
        <5>1. g.pick[r] = m.pick[r]
          BY <1>5, <1>7, <4>1, <4>3, Current DEF p, Given
        <5>2. QED
          BY <4>1, <5>1 DEF sym_calc_choice
      <4>4. QED
        BY <4>2, <4>3
    <3>2. ASSUME NEW r \in NamedIn(e) \ (E \ {s}), e[r].choice = 0, m.sol[r].vis, ~m.sol[r].rev
          PROVE  m.sol[r].val = IF r \in g.has THEN g.def[r] ELSE sym_get_default(e, m.sol, r)
      <4>1. CASE r = s
        BY <1>7, <1>10, <1>12, <4>1
      <4>2. CASE r # s
        <5>1. m.sol[r].val = IF r \in m.has THEN m.def[r] ELSE sym_get_default(e, m.sol, r)
          BY <2>4, <3>2, <4>2 DEF Obeys
        <5>2. (r \in g.has <=> r \in m.has) /\ g.def[r] = m.def[r]
          BY <1>12, <1>13, <1>14, <3>2, <4>2
        <5>3. QED
          BY <5>1, <5>2
      <4>3. QED
        BY <4>1, <4>2
    <3>3. QED
      BY <1>7, <3>1, <3>2 DEF Obeys
  <2> HIDE DEF o
  <2>5. QED
    BY <1>7, <1>10, <1>14, <2>1, <2>2, <2>3, <2>4 DEF o
<1>11. QED
  BY <1>9, <1>10

(* ... of which silentoldconfig needs less.                                *)
LEMMA TristateKeeps ==
  ASSUME Proper(e), NEW m, Full(e, m), NEW s \in Entries, e[s].type = "bool", NEW v, v \in {"n", "y"}
  PROVE  LET o == sym_set_tristate_value(m, s, v)
         IN  /\ Fit(e, m) => Fit(e, o)
             /\ Kept(e, m) => Kept(e, o)
             /\ o.changed \/ (o.sol = m.sol /\ o.changed = m.changed)
<1>1. LET o == sym_set_tristate_value(m, s, v)
         IN  /\ Full(e, o) /\ m.has \subseteq o.has
             /\ s \in o.has /\ o.def = [m.def EXCEPT ![s] = v]
             /\ \A r \in NamedIn(e) : e[r].choice = 0 /\ r # s => (r \in o.has <=> r \in m.has)
             /\ Fit(e, m) => Fit(e, o)
             /\ WriteGood(e, m) => WriteGood(e, o)
             /\ Kept(e, m) => Kept(e, o)
             /\ \A E : Obeys(e, m, E) => Obeys(e, o, E \ {s})
             /\ m.sol[s].val = v => o.sol = m.sol /\ o.changed = m.changed
             /\ o.changed \/ (o.sol = m.sol /\ o.changed = m.changed)
  BY TristateFacts
<1>2. QED
  BY <1>1

(* A text is given: it counts unless it is the text that was given before. *)
LEMMA StringFacts ==
  ASSUME Proper(e), NEW m, Full(e, m), NEW s \in Entries, NEW v \in Texts
  PROVE  LET o == sym_set_string_value(m, s, v)
         IN  /\ Full(e, o) /\ m.has \subseteq o.has
             /\ o.has = m.has \cup {s} /\ o.def = [m.def EXCEPT ![s] = v]
             /\ Kept(e, m) => Kept(e, o)
             /\ WriteGood(e, m) => WriteGood(e, o)
             /\ Fit(e, m) /\ (m.def[s] = v /\ m.sol[s].vis => s \in m.has) => Fit(e, o)
             /\ \A E, G : Obeys(e, m, E) /\ E \subseteq G
                            /\ (v = m.def[s] /\ v # m.sol[s].val => s \in G) => Obeys(e, o, G)
             /\ m.def[s] # v => o.changed
             /\ o.changed \/ (o.sol = m.sol /\ o.changed = m.changed)
<1> DEFINE g == [m EXCEPT !.has = m.has \cup {s} \cup {}, !.pick = m.pick, !.def[s] = v]
           o == sym_set_string_value(m, s, v)
<1>5. Given(e, m) /\ Record(m) /\ Solves(e, m.sol)
  BY DEF Full, Held
<1>1. g = [m EXCEPT !.has = m.has \cup {s}, !.def[s] = v]
  BY <1>5 DEF Record
<1>2. o = IF m.def[s] = v THEN g ELSE sym_clear_all_valid(g)
  <2> HIDE DEF g
  <2>1. QED
    BY <1>1 DEF sym_set_string_value
<1>3. v \in Contents
  BY DEF Contents
<1>6. m.pick \in [Entries -> 0 .. Len(e)] /\ \A r \in Entries : m.pick[r] \in {0} \cup e[r].values
  BY <1>5, Current DEF Given
<1>7. /\ Full(e, g) /\ g.has = m.has \cup {s} /\ g.pick = m.pick
      /\ g.def = [m.def EXCEPT ![s] = v] /\ g.sol = m.sol /\ g.write = m.write
      /\ g.changed = m.changed
      /\ Kept(e, m) => Kept(e, g)
  <2> DEFINE A == {}
             p == m.pick
             k == [m EXCEPT !.has = m.has \cup {s} \cup A, !.pick = p, !.def[s] = v]
  <2>1. A \subseteq Entries /\ \A a \in A : e[a].type # "string"
    OBVIOUS
  <2>2. p \in [Entries -> 0 .. Len(e)] /\ \A c \in Entries : p[c] \in {0} \cup e[c].values
    BY <1>6
  <2>3. k = g
    OBVIOUS
  <2> HIDE DEF A, p, g
  <2>4. /\ Full(e, k) /\ k.has = m.has \cup {s} \cup A /\ k.pick = p
        /\ k.def = [m.def EXCEPT ![s] = v] /\ k.sol = m.sol /\ k.write = m.write
        /\ k.changed = m.changed
        /\ Kept(e, m) => Kept(e, k)
    BY <1>3, <2>1, <2>2, GivenValue
  <2> HIDE DEF k
  <2>5. QED
    BY <2>3, <2>4 DEF A, p
<1> HIDE DEF g
<1>8. Held(e, g) /\ Given(e, g)
  BY <1>7 DEF Full, Held
<1>9. CASE m.def[s] # v
  <2>1. o = sym_clear_all_valid(g)
    BY <1>2, <1>9
  <2>2. Full(e, o) /\ o.has = g.has /\ o.def = g.def /\ o.changed
    BY <1>8, <2>1, ClearFacts
  <2>3. Fit(e, o) /\ WriteGood(e, o)
    BY <1>8, <2>1, ClearFit DEF Fit
  <2>4. Kept(e, g) => Kept(e, o)
    BY <2>2 DEF Kept
  <2>5. \A E : Obeys(e, o, E)
    BY <2>2, <2>3, FitObeys DEF Full, Held, Fit
  <2> HIDE DEF o
  <2>6. QED
    BY <1>7, <1>9, <2>2, <2>3, <2>4, <2>5 DEF o
<1>10. CASE m.def[s] = v
  <2>1. o = g
    BY <1>2, <1>10
  <2>6. g.def = m.def
    BY <1>5, <1>7, <1>10, Current DEF Given
  <2>2. ASSUME Fit(e, m), m.sol[s].vis => s \in m.has PROVE Fit(e, g)
    <3>1. \A r \in NamedIn(e) : m.sol[r].vis => (r \in g.has <=> r \in m.has)
      BY <1>7, <2>2
    <3>2. Effectless(e, m, g)
      BY <1>7, <2>2, <2>6, <3>1 DEF Effectless, Fit
    <3>3. Sols(e, g) = Sols(e, m)
      BY <1>5, <1>8, <3>2, SameSolution
    <3>4. QED
      BY <1>7, <2>2, <3>3 DEF Fit, WriteGood
  <2>3. WriteGood(e, m) => WriteGood(e, g)
    BY <1>7 DEF WriteGood
  <2>4. ASSUME NEW E, NEW G, Obeys(e, m, E), E \subseteq G, v # m.sol[s].val => s \in G
        PROVE  Obeys(e, g, G)
    <3>1. \A r : sym_calc_choice(e, g, m.sol, r) = sym_calc_choice(e, m, m.sol, r)
      BY <1>7 DEF sym_calc_choice
    <3>2. ASSUME NEW r \in NamedIn(e) \ G, e[r].choice = 0, m.sol[r].vis, ~m.sol[r].rev
          PROVE  m.sol[r].val = IF r \in g.has THEN g.def[r] ELSE sym_get_default(e, m.sol, r)
      <4>1. m.sol[r].val = IF r \in m.has THEN m.def[r] ELSE sym_get_default(e, m.sol, r)
        BY <2>4, <3>2 DEF Obeys
      <4>2. CASE r = s
        BY <1>7, <1>10, <2>4, <2>6, <3>2, <4>2
      <4>3. CASE r # s
        BY <1>7, <2>6, <4>1, <4>3
      <4>4. QED
        BY <4>2, <4>3
    <3>3. QED
      BY <1>7, <2>4, <3>1, <3>2 DEF Obeys
  <2> HIDE DEF o
  <2>5. QED
    BY <1>7, <1>10, <2>1, <2>2, <2>3, <2>4 DEF o
<1>11. QED
  BY <1>9, <1>10

-----------------------------------------------------------------------------
(* What is written, and what is read.                                      *)

(* What auto.conf is to say for a solution: every symbol that is not "n".  *)
Positives(x, f) == {s \in NamedIn(x) : f[s].write /\ f[s].val # "n"}
AutoOf(x, f) == [n \in {x[i].name : i \in Positives(x, f)} |->
                   f[CHOOSE i \in Positives(x, f) : x[i].name = n].val]
Says(x, file, f) == file # NoFile /\ Positive(file) = AutoOf(x, f)

(* A file has the lines of the symbols it is written for.                  *)
LEMMA FileOfIs ==
  ASSUME Proper(e), NEW m, NEW S, S \subseteq Entries
  PROVE  LET file == FileOf(m, S)
         IN  /\ DOMAIN file = {e[i].name : i \in S}
             /\ file = [n \in {e[i].name : i \in S} |-> file[n]]
             /\ \A i \in S : file[e[i].name] = m.sol[i].val
<1>1. ASSUME NEW i \in S PROVE (CHOOSE j \in S : e[j].name = e[i].name) = i
  <2>1. \A j \in S : e[j].name = e[i].name => j = i
    BY Current DEF Proper
  <2>2. QED
    BY <2>1
<1> DEFINE D == {e[i].name : i \in S}
           At(n) == m.sol[CHOOSE i \in S : e[i].name = n].val
           file == FileOf(m, S)
<1>2. file = [n \in D |-> At(n)]
  BY DEF FileOf
<1>3. \A i \in S : e[i].name \in D /\ At(e[i].name) = m.sol[i].val
  BY <1>1
<1> HIDE DEF At, D, file
<1>4. DOMAIN file = D /\ file = [n \in D |-> file[n]] /\ \A i \in S : file[e[i].name] = m.sol[i].val
  BY <1>2, <1>3
<1>5. QED
  BY <1>4 DEF D, file

(* auto.conf has the value of every symbol in it.                          *)
LEMMA AutoOfIs ==
  ASSUME NEW x, Proper(x), NEW f
  PROVE  \A i \in Positives(x, f) : AutoOf(x, f)[x[i].name] = f[i].val
<1>1. ASSUME NEW i \in Positives(x, f)
      PROVE  (CHOOSE j \in Positives(x, f) : x[j].name = x[i].name) = i
  <2>1. \A j \in Positives(x, f) : x[j].name = x[i].name => j = i
    BY DEF Proper, Positives, NamedIn
  <2>2. QED
    BY <2>1
<1>2. QED
  BY <1>1 DEF AutoOf

(* A file that has these lines, and maybe others for "n", says so.         *)
LEMMA PositiveIs ==
  ASSUME NEW x, Proper(x), NEW f, NEW file,
         \A n \in DOMAIN file : file[n] # "n" => \E i \in Positives(x, f) : x[i].name = n,
         \A i \in Positives(x, f) : x[i].name \in DOMAIN file /\ file[x[i].name] = f[i].val
  PROVE  Positive(file) = AutoOf(x, f)
<1> DEFINE D == {n \in DOMAIN file : file[n] # "n"}
           P == Positives(x, f)
           a == AutoOf(x, f)
<1>1. D = {x[i].name : i \in P}
  BY DEF Positives
<1>2. a = [n \in D |-> a[n]]
  BY <1>1 DEF AutoOf
<1>3. \A n \in D : a[n] = file[n]
  BY AutoOfIs
<1>4. Positive(file) = [n \in D |-> file[n]]
  BY DEF Positive
<1> HIDE DEF D, a
<1>5. QED
  BY <1>2, <1>3, <1>4 DEF a

(* What conf_write_autoconf writes says what the values are.               *)
LEMMA WrittenAutoIs ==
  ASSUME Proper(e), NEW m, Full(e, m), WriteGood(e, m)
  PROVE  WrittenAuto(m) = AutoOf(e, m.sol)
<1> DEFINE S == {s \in Named \cap m.write : m.sol[s].val # "n"}
<1>1. Solves(e, m.sol)
  BY DEF Full
<1>2. \A s \in Named \cap ValuesIn(e) : m.sol[s].val # "n" => m.sol[s].write
  <2>1. ASSUME NEW s \in Named \cap ValuesIn(e), m.sol[s].val # "n" PROVE m.sol[s].write
    <3>1. s \in Ent(e) /\ e[s].choice # 0
      BY DEF ValuesIn
    <3>2. QED
      BY <1>1, <2>1, <3>1, SolvesFacts
  <2>2. QED
    BY <2>1
<1>3. S = Positives(e, m.sol)
  BY <1>2, Current DEF WriteGood, Positives
<1>4. WrittenAuto(m) = FileOf(m, S)
  BY DEF WrittenAuto
<1> HIDE DEF S
<1>5. QED
  BY <1>3, <1>4 DEF FileOf, AutoOf

(* The lines that conf_write writes say the same.                          *)
LEMMA WrittenSays ==
  ASSUME Proper(e), NEW m, Full(e, m), WriteGood(e, m),
         NEW w, w \subseteq {v \in Values \cap m.write : ~m.sol[v].vis}
  PROVE  Positive(FileOf(m, (Named \cap m.write) \ w)) = AutoOf(e, m.sol)
<1> DEFINE S == (Named \cap m.write) \ w
           file == FileOf(m, S)
<1>1. Solves(e, m.sol)
  BY DEF Full
<1>2. \A s \in Values : m.sol[s].val # "n" => m.sol[s].write /\ m.sol[s].vis
  <2>1. ASSUME NEW s \in Values, m.sol[s].val # "n" PROVE m.sol[s].write /\ m.sol[s].vis
    <3>1. s \in Ent(e) /\ e[s].choice # 0
      BY Current DEF ValuesIn
    <3>2. QED
      BY <1>1, <2>1, <3>1, SolvesFacts
  <2>2. QED
    BY <2>1
<1>3. \A s \in w : m.sol[s].val = "n"
  BY <1>2
<1>4. S \subseteq Entries
  BY Current DEF NamedIn
<1>5. /\ DOMAIN file = {e[i].name : i \in S}
      /\ \A i \in S : file[e[i].name] = m.sol[i].val
  <2> HIDE DEF S
  <2>1. QED
    BY <1>4, FileOfIs
<1>6. \A i \in S : m.sol[i].val # "n" => i \in Positives(e, m.sol)
  BY <1>2, Current DEF WriteGood, Positives
<1>7. \A i \in Positives(e, m.sol) : i \in S
  BY <1>3, Current DEF WriteGood, Positives
<1> HIDE DEF S, file
<1>8. \A n \in DOMAIN file : file[n] # "n" => \E i \in Positives(e, m.sol) : e[i].name = n
  BY <1>5, <1>6
<1>9. \A i \in Positives(e, m.sol) : e[i].name \in DOMAIN file /\ file[e[i].name] = m.sol[i].val
  BY <1>5, <1>7
<1>10. Positive(file) = AutoOf(e, m.sol)
  BY <1>8, <1>9, PositiveIs
<1>11. QED
  BY <1>10 DEF file, S

-----------------------------------------------------------------------------
(* Reading.                                                                *)

(* The memory after conf_parse.                                            *)
LEMMA ParsedHeld == ASSUME Proper(e) PROVE Held(e, Parsed) /\ Kept(e, Parsed)
                                           /\ Parsed.has = {} /\ Parsed.write = {}
<1> DEFINE d == [s \in Entries |-> Unset(s)]
           p == [s \in Entries |-> 0]
<1>1. Parsed = [has |-> {}, def |-> d, pick |-> p, sol |-> [s \in Entries |-> [val |-> "n"]],
                write |-> {}, changed |-> FALSE]
  BY DEF Parsed
<1>2. d \in [Entries -> {NoFile} \cup Contents]
  BY DEF Unset, Contents
<1>3. \A s \in Entries : d[s] = NoFile => e[s].type = "string"
  BY NoFileAssumption DEF Unset, Contents
<1>4. p \in [Entries -> 0 .. Len(e)]
  BY DEF Proper
<1>5. \A s \in NamedIn(e) : e[s].type = "string" => d[s] = NoFile
  BY Current DEF Unset, NamedIn
<1>6. \A s \in Entries : p[s] = 0
  OBVIOUS
<1> HIDE DEF d, p
<1>7. Parsed.has = {} /\ Parsed.def = d /\ Parsed.pick = p /\ Parsed.write = {} /\ Parsed.changed = FALSE
      /\ Record(Parsed)
  BY <1>1 DEF Record
<1>8. Given(e, Parsed)
  BY <1>2, <1>3, <1>4, <1>6, <1>7, Current DEF Given
<1>9. QED
  BY <1>5, <1>7, <1>8 DEF Held, Kept

Lines(file) == \A n \in DOMAIN file : file[n] \in Contents
NamedBy(x, file) == {s \in NamedIn(x) : x[s].name \in DOMAIN file}

(* What conf_read_simple reads.                                            *)
LEMMA ReadFacts ==
  ASSUME Proper(e), NEW file, Lines(file)
  PROVE  LET m == conf_read_simple(file)
         IN  /\ Held(e, m) /\ m.write = {}
             /\ m.has = NamedBy(e, file) \cup ChoiceSyms
             /\ \A s \in NamedBy(e, file) : m.def[s] = file[e[s].name]
             /\ Kept(e, m)
             /\ ~m.changed => DOMAIN file \subseteq {e[s].name : s \in NamedIn(e)}
<1> DEFINE named == NamedBy(e, file)
           Val(s) == file[e[s].name]
           Yeses(c) == {v \in e[c].values \cap named : Val(v) = "y"}
           d == [s \in Entries |-> IF s \in named THEN Val(s) ELSE Parsed.def[s]]
           p == [c \in Entries |-> IF Yeses(c) = {} THEN 0 ELSE Max(Yeses(c))]
           ch == \/ DOMAIN file \ {e[s].name : s \in Named} # {}
                 \/ \E c \in ChoiceSyms : Cardinality(Yeses(c)) > 1
           m == conf_read_simple(file)
<1>1. m = [Parsed EXCEPT !.has = named \cup ChoiceSyms, !.def = d, !.pick = p, !.changed = ch]
  BY Current DEF conf_read_simple, NamedBy
<1>2. Record(Parsed) /\ Given(e, Parsed) /\ Kept(e, Parsed) /\ Parsed.has = {} /\ Parsed.write = {}
  BY ParsedHeld DEF Held
<1>3. ch \in BOOLEAN
  OBVIOUS
<1>4. named \subseteq Entries /\ named \subseteq NamedIn(e)
  BY Current DEF NamedBy, NamedIn
<1>5. \A s \in named : Val(s) \in Contents
  BY DEF Lines, NamedBy
<1>6. \A c \in Entries : p[c] \in {0} \cup e[c].values /\ p[c] \in 0 .. Len(e)
  <2>1. TAKE c \in Entries
  <2>2. e[c].values \subseteq Ent(e) /\ Len(e) \in Nat
    BY Current DEF Proper, Symbols
  <2> DEFINE Y == Yeses(c)
  <2>3. Y \subseteq e[c].values /\ Y \subseteq 0 .. Len(e) /\ Y \subseteq 1 .. Len(e)
    BY <2>2 DEF Ent
  <2>4. p[c] = IF Y = {} THEN 0 ELSE Max(Y)
    OBVIOUS
  <2> HIDE DEF Y, p
  <2>5. Y # {} => Max(Y) \in Y
    BY <2>2, <2>3, MaxIn
  <2>6. 0 \in 0 .. Len(e)
    BY <2>2
  <2>7. QED
    BY <2>3, <2>4, <2>5, <2>6
<1>7. p = [c \in Entries |-> p[c]]
  OBVIOUS
<1>8. d = [s \in Entries |-> d[s]] /\ \A s \in Entries : d[s] = IF s \in named THEN Val(s) ELSE Parsed.def[s]
  OBVIOUS
<1>9. ~ch => DOMAIN file \subseteq {e[s].name : s \in NamedIn(e)}
  BY Current
<1> HIDE DEF d, p, ch, m, named, Yeses
<1>10. m = [has |-> named \cup ChoiceSyms, def |-> d, pick |-> p, sol |-> Parsed.sol, write |-> Parsed.write,
            changed |-> ch]
  BY <1>1, <1>2 DEF Record
<1>11. m.has = named \cup ChoiceSyms /\ m.def = d /\ m.pick = p /\ m.sol = Parsed.sol
       /\ m.write = Parsed.write /\ m.changed = ch
  BY <1>10
<1>12. Record(m)
  BY <1>10, <1>11 DEF Record
<1>13. Parsed.def \in [Entries -> {NoFile} \cup Contents]
       /\ \A s \in Entries : Parsed.def[s] = NoFile => e[s].type = "string"
  BY <1>2, Current DEF Given
<1>14. \A s \in Entries : d[s] \in {NoFile} \cup Contents
                          /\ (d[s] = NoFile => e[s].type = "string" /\ s \notin named)
  BY <1>5, <1>8, <1>13, NoFileAssumption
<1>15. \A s \in ChoiceSyms : e[s].type = "choice" /\ s \in Entries
  BY DEF ChoiceSyms
<1>16. Given(e, m)
  <2>1. p \in [Entries -> 0 .. Len(e)]
    BY <1>6, <1>7
  <2>2. d \in [Entries -> {NoFile} \cup Contents]
    BY <1>8, <1>14
  <2>3. named \cup ChoiceSyms \subseteq Entries
    BY <1>4, <1>15
  <2>4. \A s \in Entries : d[s] = NoFile => e[s].type = "string" /\ s \notin named \cup ChoiceSyms
    BY <1>14, <1>15
  <2>5. QED
    BY <1>6, <1>11, <2>1, <2>2, <2>3, <2>4, Current DEF Given
<1>17. Kept(e, m)
  <2>1. \A s \in NamedIn(e) : s \in Entries /\ (e[s].type = "string" /\ Parsed.def[s] # NoFile => FALSE)
    BY <1>2, Current DEF Kept, NamedIn
  <2>2. QED
    BY <1>8, <1>11, <2>1 DEF Kept
<1>18. Held(e, m)
  BY <1>2, <1>3, <1>11, <1>12, <1>16 DEF Held
<1>19. QED
  BY <1>2, <1>4, <1>8, <1>9, <1>11, <1>17, <1>18 DEF m, named

(* What conf_read makes of it.                                             *)
LEMMA JudgedFacts ==
  ASSUME Proper(e), NEW m, Full(e, m)
  PROVE  LET o == Judged(m)
             hidden == {s \in ChoiceSyms \cup (Named \ Values) : ~m.sol[s].vis /\ Unsaved(m) = {}}
         IN  /\ Full(e, o)
             /\ o.has = m.has \ (Open(m) \cup hidden) /\ o.def = m.def /\ o.sol = m.sol
             /\ o.changed = (m.changed \/ Unsaved(m) # {})
             /\ Fit(e, m) => Fit(e, o)
<1> DEFINE o == Judged(m)
           hidden == {s \in ChoiceSyms \cup (Named \ Values) : ~m.sol[s].vis /\ Unsaved(m) = {}}
           h == m.has \ (Open(m) \cup hidden)
           ch == m.changed \/ Unsaved(m) # {}
<1>1. Record(m) /\ Given(e, m) /\ m.write \subseteq NamedIn(e) /\ m.changed \in BOOLEAN /\ Solves(e, m.sol)
  BY DEF Full, Held
<1>2. o = [m EXCEPT !.has = h, !.changed = ch]
  BY DEF Judged
<1>3. ch \in BOOLEAN
  BY <1>1
<1>4. h \subseteq m.has
  OBVIOUS
<1>5. \A s \in NamedIn(e) : m.sol[s].vis => (s \in h <=> s \in m.has)
  <2>1. \A s \in NamedIn(e) : s \notin Open(m)
    BY DEF Open, ChoiceSyms, NamedIn
  <2>2. QED
    BY <2>1
<1> HIDE DEF o, h, ch
<1>6. o = [has |-> h, def |-> m.def, pick |-> m.pick, sol |-> m.sol, write |-> m.write, changed |-> ch]
  BY <1>1, <1>2 DEF Record
<1>7. o.has = h /\ o.def = m.def /\ o.pick = m.pick /\ o.sol = m.sol /\ o.write = m.write /\ o.changed = ch
  BY <1>6
<1>8. Record(o)
  BY <1>6, <1>7 DEF Record
<1>9. Given(e, o)
  BY <1>1, <1>4, <1>7 DEF Given
<1>10. Full(e, o)
  BY <1>1, <1>3, <1>7, <1>8, <1>9 DEF Full, Held
<1>11. ASSUME Fit(e, m) PROVE Fit(e, o)
  <2>1. Effectless(e, m, o)
    BY <1>5, <1>7, <1>11 DEF Effectless, Fit
  <2>2. Sols(e, o) = Sols(e, m)
    BY <1>1, <1>9, <2>1, SameSolution
  <2>3. QED
    BY <1>7, <1>11, <2>2 DEF Fit, WriteGood
<1>12. QED
  BY <1>7, <1>10, <1>11 DEF o, h, ch

(* Nothing is left to ask: what is visible has a value.                    *)
Settled(x, m) == \A s \in NamedIn(x) \cup ChoicesIn(x) : m.sol[s].vis => s \in m.has

(* conf_read as a whole: if it does not ask for .config to be written, the *)
(* file says what the values are; and a text that was read counts, unless  *)
(* nothing is open.                                                        *)
LEMMA ConfReadFacts ==
  ASSUME Proper(e), NEW file, FileOK(file)
  PROVE  LET o == conf_read(file)
         IN  /\ Full(e, o) /\ Fit(e, o)
             /\ file # NoFile => /\ Kept(e, o) \/ Settled(e, o)
                                 /\ ~o.changed => Says(e, file, o.sol)
<1> DEFINE o == conf_read(file)
<1>1. CASE file = NoFile
  <2>1. o = sym_clear_all_valid(Parsed)
    BY <1>1 DEF conf_read, sym_clear_all_valid
  <2>2. Full(e, o) /\ Fit(e, o)
    BY <2>1, ParsedHeld, ClearFacts, ClearFit
  <2>3. QED
    BY <1>1, <2>2
<1>2. CASE file # NoFile
  <2> DEFINE r == conf_read_simple(file)
             m == Calc(r)
             hidden == {s \in ChoiceSyms \cup (Named \ Values) : ~m.sol[s].vis /\ Unsaved(m) = {}}
  <2>1. /\ Held(e, r) /\ r.write = {}
        /\ r.has = NamedBy(e, file) \cup ChoiceSyms
        /\ \A s \in NamedBy(e, file) : r.def[s] = file[e[s].name]
        /\ Kept(e, r)
        /\ ~r.changed => DOMAIN file \subseteq {e[s].name : s \in NamedIn(e)}
    BY <1>2, ReadFacts DEF FileOK, Lines
  <2>2. /\ Full(e, m) /\ Fit(e, m)
        /\ m.has = r.has /\ m.def = r.def /\ m.changed = r.changed
        /\ m.write = {s \in NamedIn(e) : m.sol[s].write} \cup (r.write \cap ValuesIn(e))
    BY <2>1, CalcFacts, ClearFit
  <2>3. o = Judged(m)
    BY <1>2 DEF conf_read
  <2>4. /\ Full(e, o)
        /\ o.has = m.has \ (Open(m) \cup hidden) /\ o.def = m.def /\ o.sol = m.sol
        /\ o.changed = (m.changed \/ Unsaved(m) # {})
        /\ Fit(e, m) => Fit(e, o)
    BY <2>2, <2>3, JudgedFacts
  <2>5. m.write = {s \in NamedIn(e) : m.sol[s].write}
    BY <2>1, <2>2
  <2>6. Solves(e, m.sol) /\ m.changed \in BOOLEAN
    BY <2>2 DEF Full, Held
  <2> HIDE DEF m, r, o
  <2>7. \A s \in NamedIn(e) : m.sol[s].vis => s \in m.write
    <3>1. TAKE s \in NamedIn(e)
    <3>2. s \in Ent(e) /\ e[s].type \in {"bool", "string"}
      BY DEF NamedIn
    <3>3. m.sol[s].vis => m.sol[s].write
      BY <2>6, <3>2, SolvesFacts
    <3>4. QED
      BY <2>5, <3>3
  <2>8. \A s \in NamedIn(e) : s \in m.has <=> s \in NamedBy(e, file)
    BY <2>1, <2>2 DEF ChoiceSyms, NamedIn
  <2>9. ASSUME Unsaved(m) # {} PROVE Kept(e, o) /\ o.changed
    <3>1. hidden = {}
      BY <2>9
    <3>2. \A s \in NamedIn(e) : s \notin Open(m)
      BY DEF Open, ChoiceSyms, NamedIn
    <3>3. \A s \in NamedIn(e) : s \in o.has <=> s \in r.has
      BY <2>2, <2>4, <3>1, <3>2
    <3>4. QED
      BY <2>1, <2>2, <2>4, <2>9, <3>3 DEF Kept
  <2>10. ASSUME Unsaved(m) = {} PROVE Settled(e, o) /\ (~o.changed => Says(e, file, o.sol))
    <3>1. \A s \in NamedIn(e) : IF s \in m.has THEN s \in m.write /\ m.def[s] = m.sol[s].val
                                ELSE s \notin m.write
      BY <2>10, Current DEF Unsaved
    <3>2. Open(m) = {}
      <4>1. ASSUME NEW c \in ChoiceSyms, NEW v \in e[c].values, m.sol[v].vis PROVE v \in m.has
        <5>1. v \in Ent(e) /\ e[v].choice = c /\ c # 0
          BY DEF Proper, Symbols, ChoiceSyms, Entries, Ent
        <5>2. v \in NamedIn(e)
          BY <5>1 DEF Proper, Symbols, NamedIn
        <5>3. QED
          BY <2>7, <3>1, <4>1, <5>2
      <4>2. QED
        BY <4>1 DEF Open
    <3>3. Settled(e, o)
      <4>1. ASSUME NEW s \in NamedIn(e) \cup ChoicesIn(e), m.sol[s].vis PROVE s \in o.has
        <5>1. s \in m.has
          BY <2>1, <2>2, <2>7, <3>1, <4>1, Current
        <5>2. s \notin hidden
          BY <4>1
        <5>3. QED
          BY <2>4, <3>2, <5>1, <5>2
      <4>2. QED
        BY <2>4, <4>1 DEF Settled
    <3>4. ASSUME ~o.changed PROVE Says(e, file, o.sol)
      <4>1. DOMAIN file \subseteq {e[s].name : s \in NamedIn(e)}
        BY <2>1, <2>2, <2>4, <2>6, <3>4
      <4>2. \A s \in NamedBy(e, file) : s \in NamedIn(e) /\ m.sol[s].write /\ m.sol[s].val = file[e[s].name]
        <5>1. TAKE s \in NamedBy(e, file)
        <5>2. s \in NamedIn(e)
          BY DEF NamedBy
        <5>3. s \in m.write /\ m.def[s] = m.sol[s].val
          BY <2>8, <3>1, <5>2
        <5>4. QED
          BY <2>1, <2>2, <2>5, <5>2, <5>3
      <4>3. \A i \in Positives(e, m.sol) : e[i].name \in DOMAIN file /\ file[e[i].name] = m.sol[i].val
        <5>1. TAKE i \in Positives(e, m.sol)
        <5>2. i \in NamedBy(e, file)
          BY <2>5, <2>8, <3>1 DEF Positives
        <5>3. QED
          BY <4>2, <5>2 DEF NamedBy
      <4>4. \A n \in DOMAIN file : file[n] # "n" => \E i \in Positives(e, m.sol) : e[i].name = n
        <5>1. TAKE n \in DOMAIN file
        <5>2. PICK s \in NamedIn(e) : e[s].name = n
          BY <4>1
        <5>3. s \in NamedBy(e, file)
          BY <5>2 DEF NamedBy
        <5>4. QED
          BY <4>2, <5>2, <5>3 DEF Positives
      <4>5. Positive(file) = AutoOf(e, m.sol)
        BY <4>3, <4>4, PositiveIs
      <4>6. QED
        BY <1>2, <2>4, <4>5 DEF Says
    <3>5. QED
      BY <3>3, <3>4
  <2>11. QED
    BY <2>2, <2>4, <2>9, <2>10 DEF o
<1>3. QED
  BY <1>1, <1>2

(* conf_set_all_new_symbols.                                               *)
LEMMA AllNewFacts ==
  ASSUME Proper(e), NEW m, Held(e, m), NEW v \in {"n", "y", "default"}
  PROVE  LET o == conf_set_all_new_symbols(m, v)
         IN  /\ Full(e, o) /\ Fit(e, o) /\ o.changed
             /\ \A s \in NamedIn(e) :
                  /\ s \in o.has <=> s \in m.has \/ (e[s].type = "bool" /\ v # "default")
                  /\ s \in o.has => o.def[s] = IF s \in m.has THEN m.def[s] ELSE v
             /\ v = "default" /\ Fit(e, m) => o.sol = m.sol
<1> DEFINE new == {s \in Entries \ m.has : e[s].type \in {"bool", "choice"} /\ v # "default"}
           d == [s \in Entries |-> IF s \in new THEN v ELSE m.def[s]]
           h == m.has \cup new \cup ChoiceSyms
           g == [m EXCEPT !.def = d, !.has = h]
<1>1. conf_set_all_new_symbols(m, v) = sym_clear_all_valid(g)
  BY DEF conf_set_all_new_symbols
<1>2. Record(m) /\ Given(e, m) /\ m.write \subseteq NamedIn(e) /\ m.changed \in BOOLEAN
  BY DEF Held
<1>3. new # {} => v \in Contents
  BY DEF Contents
<1>4. \A s \in new : s \in Entries /\ e[s].type # "string"
  OBVIOUS
<1>5. \A s \in Entries : m.def[s] \in {NoFile} \cup Contents
                         /\ (m.def[s] = NoFile => e[s].type = "string" /\ s \notin m.has)
  BY <1>2, Current DEF Given
<1>6. d = [s \in Entries |-> d[s]] /\ \A s \in Entries : d[s] = IF s \in new THEN v ELSE m.def[s]
  OBVIOUS
<1>7. \A s \in ChoiceSyms : s \in Entries /\ e[s].type = "choice"
  BY DEF ChoiceSyms
<1>8. h \subseteq Entries
  BY <1>2, <1>4, <1>7, Current DEF Given
<1>17. g = [m EXCEPT !.def = d, !.has = h]
  OBVIOUS
<1> HIDE DEF new, d
<1>9. d \in [Entries -> {NoFile} \cup Contents]
  BY <1>3, <1>5, <1>6
<1>10. \A s \in Entries : d[s] = NoFile => e[s].type = "string" /\ s \notin h
  BY <1>3, <1>4, <1>5, <1>6, <1>7, NoFileAssumption
<1> HIDE DEF g, h
<1>11. g = [has |-> h, def |-> d, pick |-> m.pick, sol |-> m.sol, write |-> m.write, changed |-> m.changed]
  BY <1>2, <1>17 DEF Record
<1>12. g.has = h /\ g.def = d /\ g.pick = m.pick /\ g.sol = m.sol /\ g.write = m.write /\ g.changed = m.changed
  BY <1>11
<1>13. Record(g)
  BY <1>11, <1>12 DEF Record
<1>14. Given(e, g)
  BY <1>2, <1>8, <1>9, <1>10, <1>12, Current DEF Given
<1>15. Held(e, g)
  BY <1>2, <1>12, <1>13, <1>14 DEF Held
<1>16. \A s \in NamedIn(e) : s \in Entries /\ (s \in h <=> s \in m.has \/ (e[s].type = "bool" /\ v # "default"))
  BY Current DEF h, new, NamedIn, ChoiceSyms
<1>18. \A s \in NamedIn(e) : s \in h => d[s] = IF s \in m.has THEN m.def[s] ELSE v
  BY <1>6, <1>16 DEF new
<1>19. ASSUME v = "default", Fit(e, m) PROVE Sols(e, g) = m.sol
  <2>1. \A s \in NamedIn(e) : (s \in g.has <=> s \in m.has) /\ g.def[s] = m.def[s]
    BY <1>6, <1>12, <1>16, <1>19 DEF new
  <2>2. Effectless(e, m, g)
    BY <1>12, <2>1 DEF Effectless
  <2>3. QED
    BY <1>2, <1>14, <1>19, <2>2, SameSolution DEF Fit
<1> DEFINE o == conf_set_all_new_symbols(m, v)
<1>20. Full(e, o) /\ Fit(e, o) /\ o.changed /\ o.has = g.has /\ o.def = g.def /\ o.sol = Sols(e, g)
  BY <1>1, <1>15, ClearFacts, ClearFit
<1> HIDE DEF o
<1>21. QED
  BY <1>12, <1>16, <1>18, <1>19, <1>20 DEF o

-----------------------------------------------------------------------------
(* The types.                                                              *)

Calls(n) == [op : {"check", "conf"}, at : 1 .. n + 1, to : 0 .. n]

(* The inductive invariant for the types.                                  *)
Sources == lang \in DOMAIN Languages /\ e = menu_finalize(Languages[lang])
Files == /\ FileOK(config) /\ FileOK(minimal) /\ FileOK(auto) /\ FileOK(header)
         /\ FileOK(saved) /\ FileOK(goal) /\ FileOK(tmp) /\ Lines(wish)
Flags == /\ fresh \in BOOLEAN /\ ours \in BOOLEAN /\ again \in BOOLEAN
         /\ mode \in Modes \cup {"none"}
         /\ phase \in {"idle", "walk", "ask", "write", "old", "new", "split", "header", "auto", "minimal"}
         /\ runs \in 0 .. MaxRuns /\ kills \in 0 .. MaxKills
Memory == IF phase = "idle" THEN mem = NoFile /\ excused = {}
          ELSE Full(e, mem) /\ excused \subseteq Entries
Walks == /\ stack \in Seq(Calls(Len(e)))
         /\ rootEntry \in {0} \cup Entries
         /\ phase = "idle" => stack = <<>> /\ rootEntry = 0
         /\ phase \in {"walk", "ask"} => stack # <<>>
         /\ phase = "ask" => Here \in Named \cup ChoiceSyms
ITypes == Sources /\ Files /\ Flags /\ Memory /\ Walks

(* The Config.in files come to proper entries.                             *)
LEMMA SourceProper ==
  ASSUME NEW l \in DOMAIN Languages
  PROVE  /\ Proper(menu_finalize(Languages[l])) /\ Framed(menu_finalize(Languages[l]))
         /\ Len(menu_finalize(Languages[l])) = Len(Languages[l])
         /\ \A i \in 1 .. Len(Languages[l]) : menu_finalize(Languages[l])[i].name \in Names
<1>1. WellFormed(Languages[l]) /\ sym_check_deps(menu_finalize(Languages[l]))
  BY LanguagesAssumption
<1>2. Proper(menu_finalize(Languages[l])) /\ Framed(menu_finalize(Languages[l]))
  BY <1>1, FinalProper, FinalFramed
<1>3. /\ Len(menu_finalize(Languages[l])) = Len(Languages[l])
      /\ \A i \in 1 .. Len(Languages[l]) : menu_finalize(Languages[l])[i].name = Languages[l][i].name
  BY <1>1, FinalNames
<1>4. \A i \in 1 .. Len(Languages[l]) : Languages[l][i].name \in Names
  BY DEF Names
<1>5. QED
  BY <1>2, <1>3, <1>4

(* The invariant implies the types.                                        *)
LEMMA TypesMeans == ITypes => TypeOK
<1> SUFFICES ASSUME ITypes PROVE TypeOK
  OBVIOUS
<1>1. Proper(e) /\ Len(e) = Len(Languages[lang]) /\ lang \in DOMAIN Languages
  BY SourceProper DEF ITypes, Sources
<1>2. \A f \in {config, minimal, auto, header, saved, goal, tmp, wish} : FileOK(f)
  BY DEF ITypes, Files, FileOK, Lines
<1>3. /\ {fresh, ours, again} \subseteq BOOLEAN
      /\ mode \in Modes \cup {"none"}
      /\ phase \in {"idle", "walk", "ask", "write", "old", "new", "split", "header", "auto", "minimal"}
      /\ runs \in 0 .. MaxRuns /\ kills \in 0 .. MaxKills
  BY DEF ITypes, Flags
<1>4. IF phase = "idle" THEN mem = NoFile /\ excused = {}
      ELSE /\ mem \in Memories(Len(e))
           /\ \A s \in Entries : mem.pick[s] \in {0} \cup e[s].values
           /\ excused \subseteq Entries
  BY <1>1, FullType, Current DEF ITypes, Memory
<1>5. /\ \A k \in DOMAIN stack : /\ stack[k].op \in {"check", "conf"}
                                 /\ stack[k].at \in 1 .. Len(e) + 1
                                 /\ stack[k].to \in 0 .. Len(e)
      /\ rootEntry \in {0} \cup Entries
  <2>1. stack \in Seq(Calls(Len(e))) /\ rootEntry \in {0} \cup Entries
    BY DEF ITypes, Walks
  <2>2. \A k \in DOMAIN stack : stack[k] \in Calls(Len(e))
    BY <2>1
  <2>3. QED
    BY <2>1, <2>2 DEF Calls
<1>6. QED
  BY <1>1, <1>2, <1>3, <1>4, <1>5 DEF TypeOK

(* Files that are written.                                                 *)
LEMMA WrittenFile ==
  ASSUME Sources, NEW m, Full(e, m), NEW S, S \subseteq Named
  PROVE  Lines(FileOf(m, S)) /\ FileOf(m, S) # NoFile
<1> DEFINE file == FileOf(m, S)
           D == {e[i].name : i \in S}
<1>1. Proper(e) /\ Len(e) = Len(Languages[lang]) /\ \A i \in 1 .. Len(e) : e[i].name \in Names
  BY SourceProper DEF Sources
<1>2. S \subseteq Entries
  BY DEF Named
<1>3. DOMAIN file = D /\ file = [n \in D |-> file[n]] /\ \A i \in S : file[e[i].name] = m.sol[i].val
  BY <1>1, <1>2, FileOfIs
<1>4. \A i \in S : m.sol[i].val \in Contents
  BY <1>1, <1>2, SolvesFacts, Current DEF Full
<1>5. D \in SUBSET Names
  BY <1>1, <1>2 DEF Entries
<1> HIDE DEF file
<1>6. \A n \in D : file[n] \in Contents
  BY <1>3, <1>4
<1>7. file \in [D -> Contents]
  BY <1>3, <1>6
<1>8. file # NoFile
  BY <1>5, <1>7, NoFileAssumption
<1>9. QED
  BY <1>3, <1>6, <1>8 DEF Lines, file

LEMMA EmptyLines == Lines(EmptyFile)
BY DEF Lines, EmptyFile

LEMMA PositiveLines == \A f : Lines(f) => Lines(Positive(f))
BY DEF Lines, Positive

(* The calls of check_conf and conf.                                       *)
LEMMA Stacks ==
  ASSUME NEW C, NEW q \in Seq(C), q # <<>>
  PROVE  /\ Len(q) \in Nat \ {0} /\ q[Len(q)] \in C
         /\ \A c \in C : [q EXCEPT ![Len(q)] = c] \in Seq(C) \ {<<>>} /\ Append(q, c) \in Seq(C) \ {<<>>}
                         /\ <<c>> \in Seq(C) \ {<<>>}
         /\ Len(q) > 1 => SubSeq(q, 1, Len(q) - 1) \in Seq(C) \ {<<>>}
         /\ \A c \in C : Len([q EXCEPT ![Len(q)] = c]) = Len(q)
<1>1. Len(q) \in Nat \ {0} /\ q[Len(q)] \in C
  BY EmptySeq, LenProperties
<1>2. ASSUME NEW c \in C
      PROVE  [q EXCEPT ![Len(q)] = c] \in Seq(C) /\ Len([q EXCEPT ![Len(q)] = c]) = Len(q)
  BY ExceptSeq, <1>1
<1>3. \A c \in C : [q EXCEPT ![Len(q)] = c] # <<>>
  BY <1>1, <1>2
<1>4. \A c \in C : Append(q, c) \in Seq(C) /\ Append(q, c) # <<>> /\ <<c>> \in Seq(C) /\ <<c>> # <<>>
  BY AppendProperties
<1>5. ASSUME Len(q) > 1 PROVE SubSeq(q, 1, Len(q) - 1) \in Seq(C) /\ SubSeq(q, 1, Len(q) - 1) # <<>>
  <2>1. Len(q) - 1 \in 1 .. Len(q) /\ 1 \in 1 .. Len(q) + 1
    BY <1>1, <1>5
  <2>2. SubSeq(q, 1, Len(q) - 1) \in Seq(C) /\ Len(SubSeq(q, 1, Len(q) - 1)) = Len(q) - 1
    BY <1>1, <1>5, <2>1, SubSeqProperties
  <2>3. Len(SubSeq(q, 1, Len(q) - 1)) # 0
    BY <1>1, <1>5, <2>2
  <2>4. \A z : Len(z) # 0 => z # <<>>
    OBVIOUS
  <2>5. QED
    BY <2>2, <2>3, <2>4
<1>6. QED
  BY <1>1, <1>2, <1>3, <1>4, <1>5

(* Where a walk is.                                                        *)
LEMMA WalkFacts ==
  ASSUME ITypes, phase \in {"walk", "ask"}
  PROVE  /\ Proper(e) /\ Len(e) \in Nat /\ Full(e, mem)
         /\ Top \in Calls(Len(e))
         /\ Here \in 1 .. Len(e) + 1
         /\ Here <= Top.to => Here \in Entries
         /\ \A n \in 1 .. Len(e) + 1 :
              /\ Goto(n) \in Seq(Calls(Len(e))) /\ Goto(n) # <<>>
              /\ Goto(n) = [stack EXCEPT ![Len(stack)] = [Top EXCEPT !.at = n]]
              /\ Len(Goto(n)) = Len(stack)
         /\ \A i \in Entries : e[i].last + 1 \in 1 .. Len(e) + 1 /\ i + 1 \in 1 .. Len(e) + 1
<1>1. Proper(e)
  BY SourceProper DEF ITypes, Sources
<1>2. Len(e) \in Nat
  BY <1>1 DEF Proper
<1>3. Full(e, mem)
  BY DEF ITypes, Memory
<1>4. stack \in Seq(Calls(Len(e))) /\ stack # <<>>
  BY DEF ITypes, Walks
<1> DEFINE n == Len(e)
<1>5. Top \in Calls(n)
  BY <1>4, Stacks DEF Top
<1>6. Here \in 1 .. n + 1 /\ Top.to \in 0 .. n
  BY <1>5 DEF Here, Calls
<1>7. Here <= Top.to => Here \in Entries
  BY <1>2, <1>6 DEF Entries
<1>8. \A k \in 1 .. n + 1 : [Top EXCEPT !.at = k] \in Calls(n)
  BY <1>5 DEF Calls
<1>9. \A k : Goto(k) = [stack EXCEPT ![Len(stack)] = [Top EXCEPT !.at = k]]
  BY DEF Goto, Top
<1>10. \A k \in 1 .. n + 1 : Goto(k) \in Seq(Calls(n)) /\ Goto(k) # <<>> /\ Len(Goto(k)) = Len(stack)
  BY <1>4, <1>8, <1>9, Stacks
<1>11. ASSUME NEW i \in Entries PROVE e[i].last + 1 \in 1 .. n + 1 /\ i + 1 \in 1 .. n + 1
  <2>1. i \in 1 .. n /\ e[i].last \in i .. n
    BY <1>1 DEF Proper, Symbols, Entries, Ent
  <2> HIDE DEF n
  <2>2. QED
    BY <1>2, <2>1 DEF n
<1>12. QED
  BY <1>1, <1>2, <1>3, <1>5, <1>6, <1>7, <1>9, <1>10, <1>11

(* The steps keep the types.                                               *)
LEMMA LeaveTypes ==
  ASSUME ITypes, phase = "walk", NEW m, Full(e, m), NEW n \in 1 .. Len(e) + 1, Here \in Entries,
         Leave(m, n)
  PROVE  ITypes'
<1>1. /\ Goto(n) \in Seq(Calls(Len(e))) /\ Goto(n) # <<>> /\ Proper(e) /\ Full(e, mem)
  BY WalkFacts
<1>2. Marks(mem, Here) \subseteq Entries
  <2>1. Marks(mem, Here) \subseteq Markable(e, mem)
    BY <1>1, MarksIn
  <2>2. QED
    BY <2>1, Current DEF Markable
<1>3. mem' = m /\ stack' = Goto(n) /\ excused' = excused \cup (Marks(mem, Here) \ mem.has)
      /\ UNCHANGED <<disk, mode, phase, again, rootEntry, tmp, goal, wish, runs, kills>>
  BY DEF Leave
<1>4. UNCHANGED <<lang, e, config, minimal, auto, header, fresh, touched, ours, saved,
                  mode, phase, again, rootEntry, tmp, goal, wish, runs, kills>>
  BY <1>3 DEF disk, source
<1>5. Sources' /\ Files' /\ Flags'
  BY <1>4 DEF ITypes, Sources, Files, FileOK, Lines, Flags
<1>6. Memory'
  BY <1>2, <1>3, <1>4 DEF ITypes, Memory, Entries
<1>7. Walks'
  BY <1>1, <1>3, <1>4 DEF ITypes, Walks, Entries
<1>8. QED
  BY <1>5, <1>6, <1>7 DEF ITypes

(* A run begins.                                                           *)
LEMMA StartTypes ==
  ASSUME ITypes, NEW md \in Modes, NEW told, Lines(told), NEW m, Full(e, m),
         NEW first \in {"walk", "write", "minimal"},
         NEW calls \in Seq(Calls(Len(e))), first = "walk" => calls # <<>>,
         NEW aim, FileOK(aim), Start(md, told, m, first, calls, aim)
  PROVE  ITypes'
<1>1. /\ phase = "idle" /\ runs < MaxRuns
      /\ runs' = runs + 1 /\ mode' = md /\ mem' = m /\ phase' = first /\ stack' = calls /\ goal' = aim
      /\ wish' = told
      /\ UNCHANGED <<disk, again, rootEntry, tmp, excused, kills>>
  BY DEF Start
<1>2. UNCHANGED <<lang, e, config, minimal, auto, header, fresh, touched, ours, saved,
                  again, rootEntry, tmp, excused, kills>>
  BY <1>1 DEF disk, source
<1>3. Sources'
  BY <1>2 DEF ITypes, Sources
<1>4. Lines(wish')
  BY <1>1
<1>5. Files'
  BY <1>1, <1>2, <1>4 DEF ITypes, Files, FileOK, Lines
<1>6. Flags'
  <2>1. runs' \in 0 .. MaxRuns
    BY <1>1, BoundsAssumption DEF ITypes, Flags
  <2>2. QED
    BY <1>1, <1>2, <2>1 DEF ITypes, Flags
<1>7. Memory'
  BY <1>1, <1>2 DEF ITypes, Memory
<1>8. Walks'
  BY <1>1, <1>2 DEF ITypes, Walks, Entries
<1>9. QED
  BY <1>3, <1>5, <1>6, <1>7, <1>8 DEF ITypes

(* A run is over.                                                          *)
LEMMA IdleTypes ==
  ASSUME ITypes, Idle, UNCHANGED <<source, runs>>, kills' \in 0 .. MaxKills,
         fresh' \in BOOLEAN, ours' \in BOOLEAN,
         FileOK(config'), FileOK(minimal'), FileOK(auto'), FileOK(header'), FileOK(saved')
  PROVE  ITypes'
<1>1. /\ phase' = "idle" /\ mode' = "none" /\ mem' = NoFile
      /\ stack' = <<>> /\ again' = FALSE /\ rootEntry' = 0 /\ tmp' = NoFile
      /\ goal' = NoFile /\ wish' = EmptyFile /\ excused' = {}
  BY DEF Idle
<1>2. UNCHANGED <<lang, e, runs>>
  BY DEF source
<1>3. Sources'
  BY <1>2 DEF ITypes, Sources
<1>4. Files'
  BY <1>1, EmptyLines DEF Files, FileOK, Lines
<1>5. Flags'
  BY <1>1, <1>2 DEF ITypes, Flags
<1>6. Memory' /\ Walks'
  BY <1>1, <1>2 DEF Memory, Walks
<1>7. QED
  BY <1>3, <1>4, <1>5, <1>6 DEF ITypes

(* A question is answered.                                                 *)
LEMMA AnsweredTypes ==
  ASSUME ITypes, phase = "ask", NEW m, Full(e, m), NEW n \in 1 .. Len(e) + 1, NEW v \in Contents \cup Nat,
         NEW i, i \in Named => v \in Contents, Answered(m, i, n, v), excused' \subseteq Entries
  PROVE  ITypes'
<1>1. /\ phase' = "walk" /\ mem' = m
      /\ wish' = (IF i \in Named THEN Line(e[i].name, v, wish) ELSE wish)
      /\ stack' = Goto(n)
      /\ UNCHANGED <<disk, mode, again, rootEntry, tmp, goal, runs, kills>>
  BY DEF Answered
<1>2. UNCHANGED <<lang, e, config, minimal, auto, header, fresh, touched, ours, saved,
                  mode, again, rootEntry, tmp, goal, runs, kills>>
  BY <1>1 DEF disk, source
<1>3. Goto(n) \in Seq(Calls(Len(e))) /\ Goto(n) # <<>>
  BY WalkFacts
<1>4. Lines(wish')
  BY <1>1 DEF ITypes, Files, Lines, Line
<1>5. Sources' /\ Files' /\ Flags'
  BY <1>1, <1>2, <1>4 DEF ITypes, Sources, Files, FileOK, Lines, Flags
<1>6. Memory'
  BY <1>1, <1>2 DEF ITypes, Memory, Entries
<1>7. Walks'
  BY <1>1, <1>2, <1>3 DEF ITypes, Walks, Entries
<1>8. QED
  BY <1>5, <1>6, <1>7 DEF ITypes

(* Steps in which only phase, the memory and files change.                 *)
LEMMA WriteTypes ==
  ASSUME ITypes, phase' \in {"write", "old", "new", "split", "header", "auto"},
         UNCHANGED <<source, minimal, auto, saved, mode, walk, goal, wish, excused, runs, kills>>,
         Full(e, mem'), phase # "idle", FileOK(config'), FileOK(header'), FileOK(tmp'),
         fresh' \in BOOLEAN, ours' \in BOOLEAN
  PROVE  ITypes'
<1>1. UNCHANGED <<lang, e, minimal, auto, saved, mode, stack, again, rootEntry, goal, wish, excused, runs, kills>>
  BY DEF source, walk
<1>2. Sources' /\ Files' /\ Flags'
  BY <1>1 DEF ITypes, Sources, Files, FileOK, Lines, Flags
<1>3. Memory'
  BY <1>1 DEF ITypes, Memory, Entries
<1>4. Walks'
  BY <1>1 DEF ITypes, Walks, Entries
<1>5. QED
  BY <1>2, <1>3, <1>4 DEF ITypes

(* The calls that a step makes.                                            *)
LEMMA WholeCall ==
  ASSUME Proper(e), NEW op \in {"check", "conf"}
  PROVE  Whole(op) \in Calls(Len(e)) /\ <<Whole(op)>> \in Seq(Calls(Len(e))) /\ <<Whole(op)>> # <<>>
<1>1. Len(e) \in Nat
  BY DEF Proper
<1>2. 1 \in 1 .. Len(e) + 1 /\ Len(e) \in 0 .. Len(e)
  BY <1>1
<1>3. Whole(op) \in Calls(Len(e))
  BY <1>2 DEF Whole, Calls
<1> HIDE DEF Whole
<1>4. QED
  BY <1>3

LEMMA ParentMenu ==
  ASSUME Proper(e), NEW i \in Entries
  PROVE  menu_get_parent_menu(i) \in {0} \cup Entries
<1> DEFINE above == {k \in 1 .. i : e[k].menu /\ i <= e[k].last}
           n == Len(e)
<1>1. n \in Nat /\ i \in 1 .. n
  BY DEF Proper, Entries
<1> HIDE DEF n
<1>2. above \subseteq 1 .. n /\ above \subseteq 0 .. n
  BY <1>1
<1>3. menu_get_parent_menu(i) = IF above = {} THEN 0 ELSE Max(above)
  BY DEF menu_get_parent_menu
<1> HIDE DEF above
<1>4. above # {} => Max(above) \in above
  BY <1>1, <1>2, MaxIn
<1>5. QED
  BY <1>2, <1>3, <1>4 DEF Entries, n

(* check_conf and conf.                                                    *)
LEMMA TypesOfWalk ==
  ASSUME ITypes, Walk
  PROVE  ITypes'
<1>1. phase = "walk"
  BY DEF Walk, SkipHidden, CheckOld, CheckNew, ConfText, ConfMenu, ConfOld, ConfOldChoice, Ask, Return, Walking
<1>2. /\ Proper(e) /\ Len(e) \in Nat /\ Full(e, mem)
      /\ Top \in Calls(Len(e))
      /\ Here <= Top.to => Here \in Entries
      /\ \A n \in 1 .. Len(e) + 1 : Goto(n) \in Seq(Calls(Len(e))) /\ Goto(n) # <<>>
      /\ \A i \in Entries : e[i].last + 1 \in 1 .. Len(e) + 1 /\ i + 1 \in 1 .. Len(e) + 1
  BY <1>1, WalkFacts
<1>3. ASSUME SkipHidden PROVE ITypes'
  <2>1. Here \in Entries /\ Leave(mem, e[Here].last + 1)
    BY <1>2, <1>3 DEF SkipHidden
  <2>2. QED
    BY <1>1, <1>2, <2>1, LeaveTypes
<1>4. ASSUME CheckOld PROVE ITypes'
  <2>1. Here \in Entries /\ Leave(Marked(mem, Here), Here + 1)
    BY <1>2, <1>4 DEF CheckOld, Walking
  <2>2. Full(e, Marked(mem, Here))
    BY <1>2, <2>1, MarkedFacts
  <2>3. QED
    BY <1>1, <1>2, <2>1, <2>2, LeaveTypes
<1>5. ASSUME CheckNew PROVE ITypes'
  <2> DEFINE r == menu_get_parent_menu(Here)
             call == IF r = 0 THEN Whole("conf") ELSE [op |-> "conf", at |-> r, to |-> e[r].last]
  <2>1. Here \in Entries
    BY <1>2, <1>5 DEF CheckNew, Walking
  <2>2. rootEntry' = r /\ stack' = Append(Goto(Here + 1), call) /\ again' = TRUE
        /\ UNCHANGED <<disk, mode, phase, mem, tmp, goal, wish, excused, runs, kills>>
    BY <1>5 DEF CheckNew
  <2>3. r \in {0} \cup Entries
    BY <1>2, <2>1, ParentMenu
  <2>4. call \in Calls(Len(e))
    <3>1. CASE r = 0
      BY <1>2, <3>1, WholeCall
    <3>2. CASE r # 0
      <4> HIDE DEF r
      <4>1. r \in Entries /\ e[r].last \in r .. Len(e)
        BY <1>2, <2>3, <3>2 DEF Proper, Symbols, Entries, Ent
      <4>2. r \in 1 .. Len(e) + 1 /\ e[r].last \in 0 .. Len(e)
        BY <1>2, <4>1 DEF Entries
      <4>3. QED
        BY <3>2, <4>2 DEF Calls
    <3>3. QED
      BY <3>1, <3>2
  <2> HIDE DEF r, call
  <2>5. stack' \in Seq(Calls(Len(e))) /\ stack' # <<>>
    BY <1>2, <2>1, <2>2, <2>4, Stacks
  <2>6. UNCHANGED <<lang, e, config, minimal, auto, header, fresh, touched, ours, saved,
                    mode, phase, mem, tmp, goal, wish, excused, runs, kills>>
    BY <2>2 DEF disk, source
  <2>7. Sources' /\ Files' /\ Flags' /\ Memory'
    BY <2>2, <2>6 DEF ITypes, Sources, Files, FileOK, Lines, Flags, Memory, Entries
  <2>8. Walks'
    BY <1>1, <2>2, <2>3, <2>5, <2>6 DEF ITypes, Walks, Entries
  <2>9. QED
    BY <2>7, <2>8 DEF ITypes
<1>6. ASSUME ConfText PROVE ITypes'
  <2>1. Here \in Entries /\ Leave(mem, Here + 1)
    BY <1>2, <1>6 DEF ConfText, Walking
  <2>2. QED
    BY <1>1, <1>2, <2>1, LeaveTypes
<1>7. ASSUME ConfMenu PROVE ITypes'
  <2> DEFINE call == [op |-> "check", at |-> Here, to |-> e[Here].last]
  <2>1. Here \in Entries
    BY <1>2, <1>7 DEF ConfMenu, Walking
  <2>2. stack' = Append(Goto(e[Here].last + 1), call)
        /\ mem' = Marked(mem, Here) /\ excused' = excused \cup (Marks(mem, Here) \ mem.has)
        /\ UNCHANGED <<disk, mode, phase, again, rootEntry, tmp, goal, wish, runs, kills>>
    BY <1>7 DEF ConfMenu
  <2>3. Full(e, Marked(mem, Here)) /\ Marks(mem, Here) \subseteq Entries
    BY <1>2, <2>1, MarkedFacts, Current DEF Markable
  <2>4. call \in Calls(Len(e))
    <3>1. e[Here].last \in Here .. Len(e)
      BY <1>2, <2>1 DEF Proper, Symbols, Entries, Ent
    <3>2. Here \in 1 .. Len(e) + 1 /\ e[Here].last \in 0 .. Len(e)
      BY <1>2, <2>1, <3>1 DEF Entries
    <3>3. QED
      BY <3>2 DEF Calls
  <2> HIDE DEF call
  <2>5. stack' \in Seq(Calls(Len(e))) /\ stack' # <<>>
    BY <1>2, <2>1, <2>2, <2>4, Stacks
  <2>6. UNCHANGED <<lang, e, config, minimal, auto, header, fresh, touched, ours, saved,
                    mode, phase, again, rootEntry, tmp, goal, wish, runs, kills>>
    BY <2>2 DEF disk, source
  <2>7. Sources' /\ Files' /\ Flags'
    BY <2>6 DEF ITypes, Sources, Files, FileOK, Lines, Flags
  <2>10. Memory'
    BY <1>1, <2>2, <2>3, <2>6 DEF ITypes, Memory, Entries
  <2>8. Walks'
    BY <1>1, <2>5, <2>6 DEF ITypes, Walks, Entries
  <2>9. QED
    BY <2>7, <2>8, <2>10 DEF ITypes
<1>8. ASSUME ConfOld PROVE ITypes'
  <2>1. Here \in Entries /\ Leave(Marked(mem, Here), Here + 1)
    BY <1>2, <1>8 DEF ConfOld, Walking
  <2>2. Full(e, Marked(mem, Here))
    BY <1>2, <2>1, MarkedFacts
  <2>3. QED
    BY <1>1, <1>2, <2>1, <2>2, LeaveTypes
<1>9. ASSUME ConfOldChoice PROVE ITypes'
  <2> DEFINE v == mem.sol[Here].chosen
             m == IF mem.sol[Here].val = "n" THEN mem ELSE sym_set_tristate_value(mem, v, "y")
  <2>1. Here \in Entries /\ Here \in ChoiceSyms /\ Leave(m, e[Here].last + 1)
    BY <1>2, <1>9 DEF ConfOldChoice, Walking
  <2>2. Full(e, m)
    <3>1. CASE mem.sol[Here].val = "n"
      BY <1>2, <3>1
    <3>2. CASE mem.sol[Here].val # "n"
      <4>1. v \in e[Here].values
        BY <1>2, <2>1, <3>2, SolvesFacts, Current DEF Full, ChoicesIn
      <4>2. v \in Entries /\ e[v].choice = Here /\ Here # 0
        BY <1>2, <2>1, <4>1 DEF Proper, Symbols, Entries, Ent
      <4>3. e[v].type = "bool"
        BY <1>2, <4>2 DEF Proper, Symbols, Entries, Ent
      <4> HIDE DEF v
      <4>4. QED
        BY <1>2, <3>2, <4>2, <4>3, TristateFacts
    <3>3. QED
      BY <3>1, <3>2
  <2> HIDE DEF m
  <2>3. QED
    BY <1>1, <1>2, <2>1, <2>2, LeaveTypes
<1>10. ASSUME Ask PROVE ITypes'
  <2>1. phase' = "ask" /\ Here \in Named \cup ChoiceSyms
        /\ UNCHANGED <<disk, mode, mem, walk, tmp, goal, wish, excused, runs, kills>>
    BY <1>10 DEF Ask
  <2>2. UNCHANGED <<lang, e, config, minimal, auto, header, fresh, touched, ours, saved,
                    mode, mem, stack, again, rootEntry, tmp, goal, wish, excused, runs, kills>>
    BY <2>1 DEF disk, source, walk
  <2>3. Sources' /\ Files' /\ Flags'
    BY <2>1, <2>2 DEF ITypes, Sources, Files, FileOK, Lines, Flags
  <2>4. Memory'
    BY <1>1, <2>1, <2>2 DEF ITypes, Memory, Entries
  <2>5. Walks'
    BY <1>1, <2>1, <2>2 DEF ITypes, Walks, Entries, Here, Top, Named, ChoiceSyms
  <2>6. QED
    BY <2>3, <2>4, <2>5 DEF ITypes
<1>11. ASSUME Return PROVE ITypes'
  <2>0. UNCHANGED <<disk, mode, mem, rootEntry, tmp, goal, wish, excused, runs, kills>>
        /\ (\/ phase' = phase /\ stack' = SubSeq(stack, 1, Len(stack) - 1) /\ Len(stack) > 1 /\ again' = again
            \/ phase' = phase /\ stack' = <<Whole("check")>> /\ again' = FALSE
            \/ phase' \in {"split", "write"} /\ stack' = <<>> /\ again' = again)
    BY <1>11 DEF Return
  <2>1. UNCHANGED <<lang, e, config, minimal, auto, header, fresh, touched, ours, saved,
                    mode, mem, rootEntry, tmp, goal, wish, excused, runs, kills>>
    BY <2>0 DEF disk, source
  <2>2. Sources' /\ Files'
    BY <2>1 DEF ITypes, Sources, Files, FileOK, Lines
  <2>3. Flags' /\ phase' \in {"walk", "split", "write"}
    BY <1>1, <2>0, <2>1 DEF ITypes, Flags
  <2>4. Memory'
    BY <1>1, <2>1, <2>3 DEF ITypes, Memory, Entries
  <2>5. stack \in Seq(Calls(Len(e))) /\ stack # <<>>
    BY <1>1 DEF ITypes, Walks
  <2>6. stack' \in Seq(Calls(Len(e))) /\ (phase' = "walk" => stack' # <<>>)
    <3>1. <<>> \in Seq(Calls(Len(e)))
      OBVIOUS
    <3>2. CASE phase' = phase /\ stack' = SubSeq(stack, 1, Len(stack) - 1) /\ Len(stack) > 1
      BY <2>5, <3>2, Stacks
    <3>3. CASE stack' = <<Whole("check")>>
      BY <1>2, <3>3, WholeCall
    <3>4. CASE phase' \in {"split", "write"} /\ stack' = <<>>
      BY <3>1, <3>4
    <3>5. QED
      BY <2>0, <3>2, <3>3, <3>4
  <2>7. Walks'
    BY <2>1, <2>3, <2>6 DEF ITypes, Walks, Entries
  <2>8. QED
    BY <2>2, <2>3, <2>4, <2>7 DEF ITypes
<1>12. QED
  BY <1>3, <1>4, <1>5, <1>6, <1>7, <1>8, <1>9, <1>10, <1>11 DEF Walk

(* The answers.                                                            *)
LEMMA TypesOfAnswer ==
  ASSUME ITypes, Answer
  PROVE  ITypes'
<1>1. phase = "ask"
  BY DEF Answer, AnswerBool, AnswerString, AnswerChoice, Abort
<1>2. /\ Proper(e) /\ Len(e) \in Nat /\ Full(e, mem)
      /\ \A i \in Entries : e[i].last + 1 \in 1 .. Len(e) + 1 /\ i + 1 \in 1 .. Len(e) + 1
  BY <1>1, WalkFacts
<1>3. Here \in Named \cup ChoiceSyms /\ Here \in Entries
  BY <1>1 DEF ITypes, Walks, Named, ChoiceSyms
<1>4. excused \subseteq Entries
  BY <1>1 DEF ITypes, Memory
<1>5. ASSUME AnswerBool PROVE ITypes'
  <2>1. PICK v \in {"n", "y"} : Answered(sym_set_tristate_value(mem, Here, v), Here, Here + 1, v)
    BY <1>5 DEF AnswerBool
  <2>2. e[Here].type = "bool" /\ excused' \subseteq Entries
    BY <1>4, <1>5 DEF AnswerBool
  <2>3. Full(e, sym_set_tristate_value(mem, Here, v))
    BY <1>2, <1>3, <2>2, TristateFacts
  <2>4. v \in Contents
    BY DEF Contents
  <2>5. QED
    BY <1>1, <1>2, <1>3, <2>1, <2>2, <2>3, <2>4, AnsweredTypes
<1>6. ASSUME AnswerString PROVE ITypes'
  <2>1. PICK v \in Texts :
          /\ Answered(sym_set_string_value(mem, Here, v), Here, Here + 1, v)
          /\ excused' = IF v = mem.def[Here] /\ v # mem.sol[Here].val THEN excused \cup {Here} ELSE excused
    BY <1>6 DEF AnswerString
  <2>2. excused' \subseteq Entries
    BY <1>3, <1>4, <2>1
  <2>3. Full(e, sym_set_string_value(mem, Here, v))
    BY <1>2, <1>3, StringFacts
  <2>4. v \in Contents
    BY DEF Contents
  <2>5. QED
    BY <1>1, <1>2, <1>3, <2>1, <2>2, <2>3, <2>4, AnsweredTypes
<1>7. ASSUME AnswerChoice PROVE ITypes'
  <2>1. PICK v \in Shown(Here) : Answered(sym_set_tristate_value(mem, v, "y"), Here, e[Here].last + 1, v)
    BY <1>7 DEF AnswerChoice
  <2>2. Here \in ChoiceSyms /\ excused' \subseteq Entries
    BY <1>4, <1>7 DEF AnswerChoice
  <2>3. Here \notin Named
    BY <2>2 DEF ChoiceSyms, Named
  <2>4. v \in Entries /\ e[v].choice = Here /\ Here # 0
    BY <1>2, <1>3 DEF Shown, Proper, Symbols, Entries, Ent
  <2>5. e[v].type = "bool"
    BY <1>2, <2>4 DEF Proper, Symbols, Entries, Ent
  <2>6. Full(e, sym_set_tristate_value(mem, v, "y"))
    BY <1>2, <2>4, <2>5, TristateFacts
  <2>7. v \in Nat
    BY <2>4 DEF Entries
  <2>8. QED
    BY <1>1, <1>2, <1>3, <2>1, <2>2, <2>3, <2>6, <2>7, AnsweredTypes
<1>8. ASSUME Abort PROVE ITypes'
  BY <1>8, IdleTypes DEF Abort, disk, source, ITypes, Files, Flags
<1>9. QED
  BY <1>5, <1>6, <1>7, <1>8 DEF Answer

(* The new .config is written.                                             *)
LEMMA WriteTmpFacts ==
  ASSUME ITypes, WriteTmp
  PROVE  LET m == IF mem.changed THEN mem ELSE sym_clear_all_valid(mem)
         IN  /\ Full(e, m) /\ Full(e, mem') /\ mem' = [m EXCEPT !.write = {}]
             /\ mem'.write = {} /\ mem'.sol = m.sol
             /\ mem'.has = m.has /\ mem'.def = m.def /\ mem'.pick = m.pick
             /\ Lines(tmp') /\ tmp' # NoFile
<1> DEFINE m == IF mem.changed THEN mem ELSE sym_clear_all_valid(mem)
<1>1. Proper(e) /\ Full(e, mem) /\ Sources
  BY SourceProper DEF ITypes, Sources, Memory, WriteTmp
<1>2. Full(e, m)
  BY <1>1, ClearFacts DEF Full
<1>3. mem' = [m EXCEPT !.write = {}]
      /\ \E w \in SUBSET {v \in Values \cap m.write : ~m.sol[v].vis} :
           tmp' = FileOf(m, (Named \cap m.write) \ w)
  BY DEF WriteTmp
<1> HIDE DEF m
<1>4. \A w : (Named \cap m.write) \ w \subseteq Named
  OBVIOUS
<1>5. Lines(tmp') /\ tmp' # NoFile
  BY <1>1, <1>2, <1>3, <1>4, WrittenFile
<1>6. Record(m)
  BY <1>2 DEF Full, Held
<1>7. mem' = [has |-> m.has, def |-> m.def, pick |-> m.pick, sol |-> m.sol, write |-> {}, changed |-> m.changed]
  BY <1>3, <1>6 DEF Record
<1>8. mem'.has = m.has /\ mem'.def = m.def /\ mem'.pick = m.pick /\ mem'.sol = m.sol
      /\ mem'.write = {} /\ mem'.changed = m.changed
  BY <1>7
<1>9. Full(e, mem')
  BY <1>2, <1>7, <1>8 DEF Full, Held, Record, Given
<1>10. QED
  BY <1>2, <1>3, <1>5, <1>8, <1>9 DEF m

LEMMA UnchangedFull ==
  ASSUME NEW x, NEW m, Full(x, m)
  PROVE  LET o == [m EXCEPT !.changed = FALSE]
         IN  /\ Full(x, o) /\ ~o.changed
             /\ o.has = m.has /\ o.def = m.def /\ o.pick = m.pick /\ o.sol = m.sol /\ o.write = m.write
<1> DEFINE o == [m EXCEPT !.changed = FALSE]
<1>1. m = [has |-> m.has, def |-> m.def, pick |-> m.pick, sol |-> m.sol,
           write |-> m.write, changed |-> m.changed]
  BY DEF Full, Held, Record
<1>5. o = [m EXCEPT !.changed = FALSE]
  OBVIOUS
<1> HIDE DEF o
<1>2. o = [has |-> m.has, def |-> m.def, pick |-> m.pick, sol |-> m.sol, write |-> m.write, changed |-> FALSE]
  BY <1>1, <1>5
<1>3. o.has = m.has /\ o.def = m.def /\ o.pick = m.pick /\ o.sol = m.sol /\ o.write = m.write
      /\ o.changed = FALSE
  BY <1>2
<1>4. Full(x, o)
  BY <1>2, <1>3 DEF Full, Held, Record, Given
<1>6. QED
  BY <1>3, <1>4 DEF o

(* What savedefconfig writes is a file.                                    *)
LEMMA MinimalLines ==
  ASSUME ITypes, phase = "minimal"
  PROVE  Lines(WrittenMinimal(sym_clear_all_valid(mem)))
<1> DEFINE m == sym_clear_all_valid(mem)
<1>1. Proper(e) /\ Full(e, mem) /\ Sources
  BY SourceProper DEF ITypes, Sources, Memory
<1>2. Full(e, m)
  BY <1>1, ClearFacts DEF Full
<1> HIDE DEF m
<1>3. {s \in Named \cap m.write :
         /\ sym_is_changable(m, s)
         /\ m.sol[s].val # m.sol[s].default
         /\ s \in Values => m.sol[e[s].choice].preset # s} \subseteq Named
  OBVIOUS
<1>4. QED
  BY <1>1, <1>2, <1>3, WrittenFile DEF WrittenMinimal, m

(* The rest of a run.                                                      *)
LEMMA TypesOfWrite ==
  ASSUME ITypes, Write
  PROVE  ITypes'
<1>1. phase # "idle"
  BY DEF Write, WriteTmp, RenameOld, RenameNew, conf_split_config, RenameHeader, RenameAuto,
         conf_write_defconfig
<1>2. Proper(e) /\ Full(e, mem) /\ Sources
  BY <1>1, SourceProper DEF ITypes, Sources, Memory
<1>3. \A f : Lines(f) => FileOK(f)
  BY DEF FileOK, Lines
<1>4. /\ FileOK(config) /\ FileOK(minimal) /\ FileOK(auto) /\ FileOK(header) /\ FileOK(saved)
      /\ FileOK(goal) /\ FileOK(tmp) /\ fresh \in BOOLEAN /\ ours \in BOOLEAN /\ kills \in 0 .. MaxKills
  BY DEF ITypes, Files, Flags
<1>5. FileOK(NoFile) /\ FileOK(EmptyFile)
  BY EmptyLines, <1>3 DEF FileOK
<1>6. FileOK(WrittenAuto(mem))
  <2>1. {s \in Named \cap mem.write : mem.sol[s].val # "n"} \subseteq Named
    OBVIOUS
  <2>2. QED
    BY <1>2, <1>3, <2>1, WrittenFile DEF WrittenAuto
<1>7. ASSUME WriteTmp PROVE ITypes'
  <2>1. Full(e, mem') /\ FileOK(tmp')
    BY <1>3, <1>7, WriteTmpFacts
  <2>2. phase' = "old" /\ UNCHANGED <<disk, mode, walk, goal, wish, excused, runs, kills>>
    BY <1>7 DEF WriteTmp
  <2>3. UNCHANGED <<source, config, minimal, auto, header, fresh, touched, ours, saved, mode, walk, goal,
                    wish, excused, runs, kills>>
    BY <2>2 DEF disk
  <2>4. QED
    BY <1>1, <1>4, <2>1, <2>2, <2>3, WriteTypes
<1>8. ASSUME RenameOld PROVE ITypes'
  <2>1. /\ phase' = "new" /\ config' = NoFile /\ fresh' = FALSE
        /\ UNCHANGED <<source, minimal, auto, header, touched, ours, saved,
                       mode, mem, walk, tmp, goal, wish, excused, runs, kills>>
    BY <1>8 DEF RenameOld
  <2>2. Full(e, mem') /\ FileOK(config') /\ FileOK(header') /\ FileOK(tmp')
    BY <1>2, <1>4, <1>5, <2>1 DEF FileOK
  <2>3. QED
    BY <1>1, <1>4, <2>1, <2>2, WriteTypes
<1>9. ASSUME RenameNew PROVE ITypes'
  <2>1. /\ config' = tmp /\ ours' = TRUE
        /\ UNCHANGED <<source, minimal, auto, header, fresh, touched, saved, runs, kills>>
        /\ \/ /\ phase' = "split"
              /\ mem' = [mem EXCEPT !.changed = FALSE]
              /\ UNCHANGED <<mode, walk, tmp, goal, wish, excused>>
           \/ Idle
    BY <1>9 DEF RenameNew
  <2>2. FileOK(config') /\ FileOK(minimal') /\ FileOK(auto') /\ FileOK(header') /\ FileOK(saved')
        /\ fresh' \in BOOLEAN /\ ours' \in BOOLEAN /\ kills' \in 0 .. MaxKills
    BY <1>4, <2>1 DEF FileOK
  <2>3. CASE Idle
    BY <2>1, <2>2, <2>3, IdleTypes
  <2>4. CASE /\ phase' = "split"
             /\ mem' = [mem EXCEPT !.changed = FALSE]
             /\ UNCHANGED <<mode, walk, tmp, goal, wish, excused>>
    <3>1. Full(e, mem')
      BY <1>2, <2>4, UnchangedFull
    <3>2. FileOK(tmp')
      BY <1>4, <2>4 DEF FileOK
    <3>3. QED
      BY <1>1, <2>1, <2>2, <2>4, <3>1, <3>2, WriteTypes
  <2>5. QED
    BY <2>1, <2>3, <2>4
<1>10. ASSUME conf_split_config PROVE ITypes'
  <2>1. /\ mem' = sym_clear_all_valid(mem) /\ phase' = "header"
        /\ UNCHANGED <<source, config, minimal, auto, header, fresh, ours, saved,
                       mode, walk, tmp, goal, wish, excused, runs, kills>>
    BY <1>10 DEF conf_split_config
  <2>2. Full(e, mem')
    BY <1>2, <2>1, ClearFacts DEF Full
  <2>3. FileOK(config') /\ FileOK(header') /\ FileOK(tmp') /\ fresh' \in BOOLEAN /\ ours' \in BOOLEAN
    BY <1>4, <2>1 DEF FileOK
  <2>4. QED
    BY <1>1, <2>1, <2>2, <2>3, WriteTypes
<1>11. ASSUME RenameHeader PROVE ITypes'
  <2>1. /\ header' = WrittenAuto(mem) /\ phase' = "auto"
        /\ UNCHANGED <<source, config, minimal, auto, fresh, touched, ours, saved,
                       mode, mem, walk, tmp, goal, wish, excused, runs, kills>>
    BY <1>11 DEF RenameHeader
  <2>2. Full(e, mem') /\ FileOK(config') /\ FileOK(header') /\ FileOK(tmp')
        /\ fresh' \in BOOLEAN /\ ours' \in BOOLEAN
    BY <1>2, <1>4, <1>6, <2>1 DEF FileOK
  <2>3. QED
    BY <1>1, <2>1, <2>2, WriteTypes
<1>12. ASSUME RenameAuto PROVE ITypes'
  <2>1. /\ auto' = WrittenAuto(mem) /\ fresh' = TRUE /\ Idle
        /\ UNCHANGED <<source, config, minimal, header, ours, saved, runs, kills>>
    BY <1>12 DEF RenameAuto
  <2>2. FileOK(config') /\ FileOK(minimal') /\ FileOK(auto') /\ FileOK(header') /\ FileOK(saved')
        /\ fresh' \in BOOLEAN /\ ours' \in BOOLEAN /\ kills' \in 0 .. MaxKills
    BY <1>4, <1>6, <2>1 DEF FileOK
  <2>3. QED
    BY <2>1, <2>2, IdleTypes
<1>13. ASSUME conf_write_defconfig PROVE ITypes'
  <2>1. /\ minimal' = WrittenMinimal(sym_clear_all_valid(mem))
        /\ saved' = (IF ours THEN config ELSE NoFile) /\ Idle
        /\ UNCHANGED <<source, config, auto, header, fresh, touched, ours, runs, kills>>
    BY <1>13 DEF conf_write_defconfig
  <2>4. FileOK(WrittenMinimal(sym_clear_all_valid(mem)))
    BY <1>3, <1>13, MinimalLines DEF conf_write_defconfig
  <2>5. FileOK(config') /\ FileOK(minimal') /\ FileOK(auto') /\ FileOK(header') /\ FileOK(saved')
        /\ fresh' \in BOOLEAN /\ ours' \in BOOLEAN /\ kills' \in 0 .. MaxKills
    BY <1>4, <1>5, <2>1, <2>4 DEF FileOK
  <2>6. QED
    BY <2>1, <2>5, IdleTypes
<1>14. QED
  BY <1>7, <1>8, <1>9, <1>10, <1>11, <1>12, <1>13 DEF Write

(* A run begins.                                                           *)
LEMMA TypesOfStart ==
  ASSUME ITypes, StartSome
  PROVE  ITypes'
<1>1. Proper(e)
  BY SourceProper DEF ITypes, Sources
<1>2. /\ FileOK(config) /\ FileOK(minimal) /\ FileOK(saved)
  BY DEF ITypes, Files
<1>3. \A f : FileOK(f) => /\ Full(e, conf_read(f)) /\ Lines(Told(f))
                          /\ f # NoFile => FileOK(Positive(f)) /\ Lines(f)
  BY <1>1, ConfReadFacts, PositiveLines, EmptyLines DEF FileOK, Lines, Told
<1>4. FileOK(Again) /\ FileOK(NoFile)
  BY <1>2, <1>3 DEF Again, FileOK
<1>5. /\ <<Whole("check")>> \in Seq(Calls(Len(e))) /\ <<Whole("check")>> # <<>>
      /\ <<Whole("conf")>> \in Seq(Calls(Len(e))) /\ <<Whole("conf")>> # <<>>
      /\ <<>> \in Seq(Calls(Len(e)))
  BY <1>1, WholeCall
<1>6. {"config", "oldconfig", "silentoldconfig", "defconfig", "savedefconfig"} \cup AllModes \subseteq Modes
  BY DEF Modes, AllModes
<1>7. ASSUME Config PROVE ITypes'
  BY <1>2, <1>3, <1>4, <1>5, <1>6, <1>7, StartTypes DEF Config
<1>8. ASSUME OldConfig PROVE ITypes'
  BY <1>2, <1>3, <1>4, <1>5, <1>6, <1>8, StartTypes DEF OldConfig
<1>9. ASSUME SilentOldConfig PROVE ITypes'
  BY <1>2, <1>3, <1>4, <1>5, <1>6, <1>9, StartTypes DEF SilentOldConfig
<1>10. ASSUME SaveDefConfig PROVE ITypes'
  BY <1>2, <1>3, <1>4, <1>5, <1>6, <1>10, StartTypes DEF SaveDefConfig
<1>11. ASSUME DefConfig PROVE ITypes'
  <2> DEFINE m == conf_set_all_new_symbols(conf_read(minimal), "default")
             aim == IF saved = NoFile THEN NoFile ELSE Positive(saved)
  <2>1. Full(e, m)
    BY <1>1, <1>2, <1>3, AllNewFacts DEF Full
  <2>2. FileOK(aim)
    BY <1>2, <1>3, <1>4
  <2>3. Start("defconfig", Told(minimal), m, "write", <<>>, aim) /\ Lines(Told(minimal))
    BY <1>2, <1>3, <1>11 DEF DefConfig
  <2> HIDE DEF m, aim
  <2>4. QED
    BY <1>2, <1>5, <1>6, <2>1, <2>2, <2>3, StartTypes
<1>12. ASSUME NEW md \in AllModes, AllConfig(md) PROVE ITypes'
  <2> DEFINE v == IF md \in {"allyesconfig", "allyespackageconfig"} THEN "y" ELSE "n"
             file == IF md \in PackageModes THEN WithoutPackages(config) ELSE EmptyFile
             m == IF md \in PackageModes THEN conf_read_simple(file) ELSE Parsed
             rule == [n \in {e[s].name : s \in {x \in Named : e[x].type = "bool"}} |-> v]
             new == conf_set_all_new_symbols(m, v)
  <2>1. md \in PackageModes => config # NoFile
    BY <1>12 DEF AllConfig
  <2>2. Start(md, Over(file, rule), new, "write", <<>>, NoFile)
    BY <1>12 DEF AllConfig
  <2>3. v \in {"n", "y"} /\ v \in Contents
    BY DEF Contents
  <2>4. Lines(file)
    BY <1>2, <2>1, EmptyLines DEF FileOK, Lines, WithoutPackages
  <2>5. Lines(rule)
    BY <2>3 DEF Lines
  <2>6. Held(e, m)
    BY <1>1, <2>4, ReadFacts, ParsedHeld
  <2> HIDE DEF v, file, m, rule
  <2>7. Full(e, new)
    BY <1>1, <2>3, <2>6, AllNewFacts
  <2>8. Lines(Over(file, rule))
    BY <2>4, <2>5 DEF Lines, Over
  <2> HIDE DEF new
  <2>9. QED
    BY <1>4, <1>5, <1>6, <2>2, <2>7, <2>8, StartTypes
<1>13. QED
  BY <1>7, <1>8, <1>9, <1>10, <1>11, <1>12 DEF StartSome

(* What happens between two runs.                                          *)
LEMMA TypesOfRest ==
  ASSUME ITypes, Upgrade \/ Kill \/ UNCHANGED vars
  PROVE  ITypes'
<1>1. ASSUME Upgrade PROVE ITypes'
  <2>1. /\ phase = "idle" /\ runs < MaxRuns /\ runs' = runs + 1
        /\ lang' \in DOMAIN Languages /\ e' = menu_finalize(Languages[lang'])
        /\ ours' = FALSE /\ saved' = NoFile
        /\ UNCHANGED <<config, minimal, auto, header, fresh, touched, process, kills>>
    BY <1>1 DEF Upgrade
  <2>2. UNCHANGED <<config, minimal, auto, header, fresh, touched, mode, phase, mem, stack, again, rootEntry,
                    tmp, goal, wish, excused, kills>>
    BY <2>1 DEF process, walk
  <2>3. runs' \in 0 .. MaxRuns
    BY <2>1, BoundsAssumption DEF ITypes, Flags
  <2>4. Sources' /\ Files' /\ Flags'
    BY <2>1, <2>2, <2>3 DEF ITypes, Sources, Files, FileOK, Lines, Flags
  <2>5. Memory'
    BY <2>1, <2>2 DEF ITypes, Memory
  <2>6. Walks'
    BY <2>1, <2>2 DEF ITypes, Walks
  <2>7. QED
    BY <2>4, <2>5, <2>6 DEF ITypes
<1>2. ASSUME Kill PROVE ITypes'
  <2> DEFINE f == WrittenMinimal(sym_clear_all_valid(mem))
  <2>1. /\ kills < MaxKills /\ kills' = kills + 1 /\ Idle
        /\ \/ UNCHANGED <<minimal, saved>>
           \/ /\ phase = "minimal" /\ saved' = NoFile
              /\ \E k \in 0 .. Len(e) : minimal' = Begun(f, k)
        /\ UNCHANGED <<source, config, auto, header, fresh, ours, runs>>
    BY <1>2 DEF Kill
  <2>5. phase = "minimal" => Lines(f)
    BY MinimalLines
  <2> HIDE DEF f
  <2>6. FileOK(minimal') /\ FileOK(saved')
    <3>1. ASSUME phase = "minimal", NEW k \in 0 .. Len(e) PROVE FileOK(Begun(f, k))
      BY <2>5, <3>1 DEF Lines, FileOK, Begun
    <3>2. FileOK(minimal) /\ FileOK(saved) /\ FileOK(NoFile)
      BY DEF ITypes, Files, FileOK
    <3>3. QED
      BY <2>1, <3>1, <3>2
  <2>2. kills' \in 0 .. MaxKills
    BY <2>1, BoundsAssumption DEF ITypes, Flags
  <2>3. FileOK(config') /\ FileOK(minimal') /\ FileOK(auto') /\ FileOK(header') /\ FileOK(saved')
        /\ fresh' \in BOOLEAN /\ ours' \in BOOLEAN
    BY <2>1, <2>6 DEF ITypes, Files, Flags, FileOK, Lines
  <2>4. QED
    BY <2>1, <2>2, <2>3, IdleTypes
<1>3. ASSUME UNCHANGED vars PROVE ITypes'
  <2>1. UNCHANGED <<lang, e, config, minimal, auto, header, fresh, touched, ours, saved, mode, phase, mem,
                    stack, again, rootEntry, tmp, goal, wish, excused, runs, kills>>
    BY <1>3 DEF vars, disk, source, process, walk
  <2>2. Sources' /\ Files' /\ Flags'
    BY <2>1 DEF ITypes, Sources, Files, FileOK, Lines, Flags
  <2>3. Memory'
    BY <2>1 DEF ITypes, Memory, Entries
  <2>4. Walks'
    BY <2>1 DEF ITypes, Walks, Entries, Named, ChoiceSyms, Here, Top
  <2>5. QED
    BY <2>2, <2>3, <2>4 DEF ITypes
<1>4. QED
  BY <1>1, <1>2, <1>3

(* The types hold at first, and after every step.                          *)
LEMMA TypesInit == Init => ITypes
<1> SUFFICES ASSUME Init PROVE ITypes
  OBVIOUS
<1>1. /\ lang \in DOMAIN Languages
      /\ e = menu_finalize(Languages[lang])
      /\ config \in Configs[lang] \cup {NoFile}
      /\ minimal = NoFile /\ auto = NoFile /\ header = NoFile
      /\ fresh = FALSE /\ touched = {} /\ ours = FALSE /\ saved = NoFile
      /\ mode = "none" /\ phase = "idle" /\ mem = NoFile
      /\ stack = <<>> /\ again = FALSE /\ rootEntry = 0 /\ tmp = NoFile
      /\ goal = NoFile /\ wish = EmptyFile /\ excused = {}
      /\ runs = 0 /\ kills = 0
  BY DEF Init
<1>2. FileOK(config)
  BY <1>1, ConfigsAssumption DEF FileOK
<1>3. Files
  BY <1>1, <1>2, EmptyLines DEF Files, FileOK
<1>4. Flags
  <2>1. MaxRuns \in Nat /\ MaxKills \in Nat
    BY BoundsAssumption
  <2>2. runs \in 0 .. MaxRuns /\ kills \in 0 .. MaxKills
    BY <1>1, <2>1
  <2>3. QED
    BY <1>1, <2>2 DEF Flags
<1>5. Sources /\ Memory /\ Walks
  BY <1>1 DEF Sources, Memory, Walks
<1>6. QED
  BY <1>3, <1>4, <1>5 DEF ITypes

LEMMA TypesStep == ITypes /\ [Next]_vars => ITypes'
<1> SUFFICES ASSUME ITypes, Next \/ UNCHANGED vars PROVE ITypes'
  OBVIOUS
<1>1. CASE Walk
  BY <1>1, TypesOfWalk
<1>2. CASE Answer
  BY <1>2, TypesOfAnswer
<1>3. CASE Write
  BY <1>3, TypesOfWrite
<1>4. CASE StartSome
  BY <1>4, TypesOfStart
<1>5. CASE Upgrade \/ Kill \/ UNCHANGED vars
  BY <1>5, TypesOfRest
<1>6. QED
  BY <1>1, <1>2, <1>3, <1>4, <1>5 DEF Next, Run, Rest

(* Every variable has its type at any time, in the form the steps need.    *)
THEOREM Types == Spec => []ITypes
BY TypesInit, TypesStep, PTL DEF Spec

(* Every variable has its type: the memory of conf is whole in every run,  *)
(* its walk stays inside the entries, and no file has a value that no      *)
(* symbol can have (TypeOK).                                               *)
THEOREM KconfigTypeOK == Spec => []TypeOK
BY Types, TypesMeans, PTL

-----------------------------------------------------------------------------
(* auto.conf and autoconf.h.                                               *)

(* The solution is about what was given, not about what was calculated.    *)
LEMMA SolsSame ==
  ASSUME NEW x, NEW m, NEW o, o.has = m.has, o.def = m.def, o.pick = m.pick
  PROVE  Sols(x, o) = Sols(x, m)
<1>1. \A f, s : sym_calc_choice(x, o, f, s) = sym_calc_choice(x, m, f, s)
  BY DEF sym_calc_choice
<1>2. \A f, s : SymValue(x, o, f, s) = SymValue(x, m, f, s)
  BY <1>1 DEF SymValue
<1>3. \A f : IsSol(x, o, f) = IsSol(x, m, f)
  BY <1>2 DEF IsSol
<1>4. QED
  BY <1>3 DEF Sols

(* What a run of silentoldconfig knows where it is.                        *)
Fresh == fresh => config # NoFile /\ auto = Positive(config) /\ header = auto
Aside == phase = "new" => ~fresh
Only == phase \in {"split", "header", "auto"} => mode = "silentoldconfig"
Asking == phase \in {"walk", "ask"} => /\ ~mem.changed => Says(e, config, mem.sol)
                                       /\ Kept(e, mem) \/ (phase = "walk" /\ Settled(e, mem))
UpToDate == phase \in {"walk", "ask", "write", "header", "auto"} => Fit(e, mem)
Renaming == /\ phase \in {"old", "new"} => Says(e, tmp, Sols(e, mem))
            /\ phase = "split" => Says(e, config, Sols(e, mem))
Telling == /\ phase \in {"header", "auto"} => /\ Says(e, config, mem.sol)
                                              /\ Differ(OldAuto, WrittenAuto(mem)) \subseteq touched
           /\ phase = "auto" => header = WrittenAuto(mem)
IAuto == /\ Fresh /\ Aside /\ Only
         /\ mode = "silentoldconfig" => Asking /\ UpToDate /\ Renaming /\ Telling

(* What is chosen is "y" when it is chosen again.                          *)
LEMMA ChosenAgain ==
  ASSUME Proper(e), NEW m, Full(e, m), NEW c \in ChoiceSyms, m.sol[c].val # "n"
  PROVE  LET v == m.sol[c].chosen
         IN  v \in Entries /\ e[v].choice = c /\ e[v].type = "bool" /\ m.sol[v].val = "y"
<1> DEFINE v == m.sol[c].chosen
<1>0. Solves(e, m.sol) /\ c \in Ent(e) /\ e[c].type = "choice"
  BY Current DEF Full, ChoicesIn
<1>1. m.sol[c].val = "y" /\ v \in e[c].values /\ v \in Choosable(e, m.sol, c)
  BY <1>0, SolvesFacts
<1>2. v \in Entries /\ e[v].choice = c /\ c # 0
  BY <1>0, <1>1 DEF Proper, Symbols, Entries, Ent
<1>3. e[v].type = "bool"
  BY <1>2 DEF Proper, Symbols, Entries, Ent
<1>4. sym_calc_visibility(e, m.sol, v)
  BY <1>1 DEF Choosable
<1>5. m.sol[v].vis
  BY <1>0, <1>2, <1>4, SolvesFacts, Current
<1>6. m.sol[e[v].choice].chosen = v
  BY <1>2
<1> HIDE DEF v
<1>7. m.sol[v].val = "y"
  BY <1>0, <1>2, <1>5, <1>6, SolvesFacts, Current
<1>8. QED
  BY <1>2, <1>3, <1>7 DEF v

(* There is nothing to ask when nothing is left.                           *)
LEMMA NothingToAsk ==
  ASSUME Proper(e), Full(e, mem), Here \in Entries, Here \in Named \cup ChoiceSyms, ~AskAll,
         Asks(Marked(mem, Here), Here), Here \in ChoiceSyms => mem.sol[Here].val = "y"
  PROVE  ~Settled(e, mem)
<1> DEFINE m == Marked(mem, Here)
<1>1. m.has = mem.has \cup Marks(mem, Here) /\ m.sol = mem.sol
  BY MarkedFacts
<1> HIDE DEF m
<1>2. Here \notin mem.has
  BY <1>1 DEF Asks, m
<1>3. mem.sol[Here].vis
  <2>1. CASE Here \in ChoiceSyms
    BY <2>1, SolvesFacts, Current DEF Full, ChoicesIn
  <2>2. CASE Here \notin ChoiceSyms
    BY <1>1, <2>2 DEF Asks, sym_is_changable, m
  <2>3. QED
    BY <2>1, <2>2
<1>4. QED
  BY <1>2, <1>3, Current DEF Settled

(* The walk goes on, with as much known of what is in memory.              *)
LEMMA WalkAuto ==
  ASSUME ITypes, IAuto, phase \in {"walk", "ask"}, phase' = "walk", UNCHANGED <<disk, mode>>,
         mode = "silentoldconfig" =>
            /\ Fit(e, mem')
            /\ Kept(e, mem) => Kept(e, mem')
            /\ Settled(e, mem) /\ phase = "walk" => Settled(e, mem')
            /\ mem'.changed \/ (mem'.sol = mem.sol /\ mem'.changed = mem.changed)
  PROVE  IAuto'
<1>1. UNCHANGED <<e, config, auto, header, fresh, mode>>
  BY DEF disk, source
<1>2. Fresh' /\ Aside' /\ Only'
  BY <1>1 DEF IAuto, Fresh, Aside, Only
<1>3. mode = "silentoldconfig" => UpToDate' /\ Renaming' /\ Telling'
  BY <1>1 DEF UpToDate, Renaming, Telling
<1>4. ASSUME mode = "silentoldconfig" PROVE Asking'
  <2>1. (~mem.changed => Says(e, config, mem.sol)) /\ (Kept(e, mem) \/ (phase = "walk" /\ Settled(e, mem)))
    BY <1>4 DEF IAuto, Asking
  <2>2. ~mem'.changed => Says(e, config, mem'.sol)
    BY <1>4, <2>1
  <2>3. Kept(e, mem') \/ Settled(e, mem')
    BY <1>4, <2>1
  <2>4. QED
    BY <1>1, <2>2, <2>3 DEF Asking
<1>5. QED
  BY <1>1, <1>2, <1>3, <1>4 DEF IAuto

(* Nothing of this is said of a run that is over, or of another target.    *)
LEMMA OtherAuto ==
  ASSUME IAuto, mode' # "silentoldconfig", phase' \notin {"new", "split", "header", "auto"}, Fresh'
  PROVE  IAuto'
BY DEF IAuto, Aside, Only

(* check_conf and conf.                                                    *)
LEMMA AutoOfWalk ==
  ASSUME ITypes, IAuto, Walk
  PROVE  IAuto'
<1>1. phase = "walk"
  BY DEF Walk, SkipHidden, CheckOld, CheckNew, ConfText, ConfMenu, ConfOld, ConfOldChoice, Ask, Return, Walking
<1>2. Proper(e) /\ Full(e, mem) /\ (Here <= Top.to => Here \in Entries)
  BY <1>1, WalkFacts
<1>3. mode = "silentoldconfig" => Fit(e, mem)
  BY <1>1 DEF IAuto, UpToDate
<1>4. ASSUME NEW m, NEW n, Leave(m, n),
             mode = "silentoldconfig" =>
               /\ Fit(e, m)
               /\ Kept(e, mem) => Kept(e, m)
               /\ Settled(e, mem) => Settled(e, m)
               /\ m.changed \/ (m.sol = mem.sol /\ m.changed = mem.changed)
      PROVE  IAuto'
  <2>1. mem' = m /\ phase' = "walk" /\ UNCHANGED <<disk, mode>>
    BY <1>1, <1>4 DEF Leave
  <2>2. QED
    BY <1>1, <1>4, <2>1, WalkAuto
<1>5. ASSUME mem' = mem, phase' = "walk", UNCHANGED <<disk, mode>> PROVE IAuto'
  BY <1>1, <1>3, <1>5, WalkAuto
<1>6. ASSUME Here \in Entries, NEW n, Leave(Marked(mem, Here), n) PROVE IAuto'
  <2> DEFINE m == Marked(mem, Here)
  <2>1. /\ m.has = mem.has \cup Marks(mem, Here)
        /\ m.sol = mem.sol /\ m.changed = mem.changed
        /\ Fit(e, mem) => Fit(e, m)
        /\ Kept(e, mem) => Kept(e, m)
    BY <1>2, <1>6, MarkedFacts
  <2> HIDE DEF m
  <2>2. Settled(e, mem) => Settled(e, m)
    BY <2>1 DEF Settled
  <2>3. QED
    BY <1>3, <1>4, <1>6, <2>1, <2>2 DEF m
<1>7. ASSUME NEW n, Leave(mem, n) PROVE IAuto'
  BY <1>3, <1>4, <1>7
<1>8. ASSUME SkipHidden PROVE IAuto'
  BY <1>7, <1>8 DEF SkipHidden
<1>9. ASSUME CheckOld PROVE IAuto'
  <2>1. Here \in Entries /\ Leave(Marked(mem, Here), Here + 1)
    BY <1>2, <1>9 DEF CheckOld, Walking
  <2>2. QED
    BY <1>6, <2>1
<1>10. ASSUME CheckNew PROVE IAuto'
  BY <1>1, <1>5, <1>10 DEF CheckNew
<1>11. ASSUME ConfText PROVE IAuto'
  BY <1>7, <1>11 DEF ConfText
<1>12. ASSUME ConfMenu PROVE IAuto'
  <2> DEFINE m == Marked(mem, Here)
  <2>1. /\ Here \in Entries /\ mem' = m /\ phase' = "walk" /\ UNCHANGED <<disk, mode>>
    BY <1>1, <1>2, <1>12 DEF ConfMenu, Walking
  <2>2. /\ m.has = mem.has \cup Marks(mem, Here)
        /\ m.sol = mem.sol /\ m.changed = mem.changed
        /\ Fit(e, mem) => Fit(e, m)
        /\ Kept(e, mem) => Kept(e, m)
    BY <1>2, <2>1, MarkedFacts
  <2> HIDE DEF m
  <2>3. Settled(e, mem) => Settled(e, m)
    BY <2>2 DEF Settled
  <2>4. QED
    BY <1>1, <1>3, <2>1, <2>2, <2>3, WalkAuto
<1>13. ASSUME ConfOld PROVE IAuto'
  <2>1. Here \in Entries /\ Leave(Marked(mem, Here), Here + 1)
    BY <1>2, <1>13 DEF ConfOld, Walking
  <2>2. QED
    BY <1>6, <2>1
<1>14. ASSUME ConfOldChoice PROVE IAuto'
  <2>1. Here \in ChoiceSyms /\ Here \in Entries
        /\ Leave(IF mem.sol[Here].val = "n" THEN mem
                 ELSE sym_set_tristate_value(mem, mem.sol[Here].chosen, "y"), e[Here].last + 1)
    BY <1>2, <1>14 DEF ConfOldChoice, Walking
  <2>2. CASE mem.sol[Here].val = "n"
    BY <1>7, <2>1, <2>2
  <2>3. CASE mem.sol[Here].val # "n"
    <3> DEFINE v == mem.sol[Here].chosen
               m == sym_set_tristate_value(mem, v, "y")
    <3>2. v \in Entries /\ e[v].type = "bool" /\ mem.sol[v].val = "y"
      BY <1>2, <2>1, <2>3, ChosenAgain
    <3>5. Leave(m, e[Here].last + 1)
      BY <2>1, <2>3
    <3> HIDE DEF v
    <3>6. /\ mem.has \subseteq m.has
          /\ Fit(e, mem) => Fit(e, m)
          /\ Kept(e, mem) => Kept(e, m)
          /\ m.sol = mem.sol /\ m.changed = mem.changed
      BY <1>2, <3>2, TristateFacts
    <3> HIDE DEF m
    <3>7. Settled(e, mem) => Settled(e, m)
      BY <3>6 DEF Settled
    <3>8. QED
      BY <1>3, <1>4, <3>5, <3>6, <3>7
  <2>4. QED
    BY <2>2, <2>3
<1>15. ASSUME Ask PROVE IAuto'
  <2>1. /\ phase' = "ask" /\ Here \in Entries /\ Here \in Named \cup ChoiceSyms
        /\ Asks(Marked(mem, Here), Here)
        /\ Here \in ChoiceSyms => mem.sol[Here].val = "y"
        /\ UNCHANGED <<disk, mode, mem>>
    BY <1>2, <1>15 DEF Ask, Walking
  <2>2. UNCHANGED <<e, config, auto, header, fresh, mode, mem>>
    BY <2>1 DEF disk, source
  <2>3. Fresh' /\ Aside' /\ Only'
    BY <2>1, <2>2 DEF IAuto, Fresh, Aside, Only
  <2>4. mode = "silentoldconfig" => UpToDate' /\ Renaming' /\ Telling'
    BY <1>3, <2>1, <2>2 DEF UpToDate, Renaming, Telling
  <2>5. ASSUME mode = "silentoldconfig" PROVE Asking'
    <3>2. ~AskAll
      BY <2>5 DEF AskAll
    <3>5. ~Settled(e, mem)
      BY <1>2, <2>1, <3>2, NothingToAsk
    <3>6. QED
      BY <1>1, <2>1, <2>2, <2>5, <3>5 DEF IAuto, Asking
  <2>6. QED
    BY <2>2, <2>3, <2>4, <2>5 DEF IAuto
<1>16. ASSUME Return PROVE IAuto'
  <2>1. /\ UNCHANGED <<disk, mode, mem>>
        /\ \/ phase' = "walk"
           \/ phase' = IF mode = "silentoldconfig" /\ ~mem.changed THEN "split" ELSE "write"
    BY <1>1, <1>16 DEF Return
  <2>2. CASE phase' = "walk"
    BY <1>5, <2>1, <2>2
  <2>3. CASE phase' = IF mode = "silentoldconfig" /\ ~mem.changed THEN "split" ELSE "write"
    <3>1. UNCHANGED <<e, config, auto, header, fresh, mode, mem>>
      BY <2>1 DEF disk, source
    <3>2. Fresh' /\ Aside' /\ Only'
      BY <2>3, <3>1 DEF IAuto, Fresh, Aside, Only
    <3>3. ASSUME mode = "silentoldconfig" PROVE Asking' /\ UpToDate' /\ Renaming' /\ Telling'
      <4>1. ~mem.changed => Says(e, config, Sols(e, mem))
        BY <1>1, <1>3, <3>3 DEF IAuto, Asking, Fit
      <4>2. Renaming'
        BY <2>3, <3>1, <4>1 DEF Renaming
      <4>3. QED
        BY <1>3, <2>3, <3>1, <3>3, <4>2 DEF Asking, UpToDate, Telling
    <3>4. QED
      BY <3>1, <3>2, <3>3 DEF IAuto
  <2>4. QED
    BY <2>1, <2>2, <2>3
<1>17. QED
  BY <1>8, <1>9, <1>10, <1>11, <1>12, <1>13, <1>14, <1>15, <1>16 DEF Walk

(* The answers.                                                            *)
LEMMA AutoOfAnswer ==
  ASSUME ITypes, IAuto, Answer
  PROVE  IAuto'
<1>1. phase = "ask"
  BY DEF Answer, AnswerBool, AnswerString, AnswerChoice, Abort
<1>2. Proper(e) /\ Full(e, mem)
  BY <1>1, WalkFacts
<1>3. Here \in Entries
  BY <1>1 DEF ITypes, Walks, Named, ChoiceSyms
<1>4. mode = "silentoldconfig" => Fit(e, mem) /\ Kept(e, mem)
  BY <1>1 DEF IAuto, UpToDate, Asking
<1>5. ASSUME NEW m, NEW i, NEW n, NEW v, Answered(m, i, n, v),
             mode = "silentoldconfig" =>
               /\ Fit(e, m)
               /\ Kept(e, mem) => Kept(e, m)
               /\ m.changed \/ (m.sol = mem.sol /\ m.changed = mem.changed)
      PROVE  IAuto'
  <2>1. mem' = m /\ phase' = "walk" /\ UNCHANGED <<disk, mode>>
    BY <1>5 DEF Answered
  <2>2. QED
    BY <1>1, <1>5, <2>1, WalkAuto
<1>6. ASSUME AnswerBool PROVE IAuto'
  <2>1. PICK v \in {"n", "y"} : Answered(sym_set_tristate_value(mem, Here, v), Here, Here + 1, v)
    BY <1>6 DEF AnswerBool
  <2>2. e[Here].type = "bool"
    BY <1>6 DEF AnswerBool
  <2> DEFINE m == sym_set_tristate_value(mem, Here, v)
  <2>3. /\ Fit(e, mem) => Fit(e, m)
        /\ Kept(e, mem) => Kept(e, m)
        /\ m.changed \/ (m.sol = mem.sol /\ m.changed = mem.changed)
    BY <1>2, <1>3, <2>2, TristateKeeps
  <2>4. Answered(m, Here, Here + 1, v)
    BY <2>1
  <2> HIDE DEF m
  <2>5. QED
    BY <1>4, <1>5, <2>3, <2>4
<1>7. ASSUME AnswerString PROVE IAuto'
  <2>1. PICK v \in Texts : Answered(sym_set_string_value(mem, Here, v), Here, Here + 1, v)
    BY <1>7 DEF AnswerString
  <2>2. e[Here].type = "string"
    BY <1>7 DEF AnswerString
  <2> DEFINE m == sym_set_string_value(mem, Here, v)
  <2>3. /\ Kept(e, mem) => Kept(e, m)
        /\ Fit(e, mem) /\ (mem.def[Here] = v => Here \in mem.has) => Fit(e, m)
        /\ m.changed \/ (m.sol = mem.sol /\ m.changed = mem.changed)
    BY <1>2, <1>3, StringFacts
  <2>4. Answered(m, Here, Here + 1, v)
    BY <2>1
  <2>5. v # NoFile
    BY NoFileAssumption DEF Contents
  <2>6. Kept(e, mem) => (mem.def[Here] = v => Here \in mem.has)
    BY <1>3, <2>2, <2>5, Current DEF Kept, NamedIn
  <2> HIDE DEF m
  <2>7. QED
    BY <1>4, <1>5, <2>3, <2>4, <2>6
<1>8. ASSUME AnswerChoice PROVE IAuto'
  <2>1. PICK v \in Shown(Here) : Answered(sym_set_tristate_value(mem, v, "y"), Here, e[Here].last + 1, v)
    BY <1>8 DEF AnswerChoice
  <2>2. v \in Entries /\ e[v].choice = Here /\ Here # 0
    BY <1>2, <1>3 DEF Shown, Proper, Symbols, Entries, Ent
  <2>3. e[v].type = "bool"
    BY <1>2, <2>2 DEF Proper, Symbols, Entries, Ent
  <2> DEFINE m == sym_set_tristate_value(mem, v, "y")
  <2>4. /\ Fit(e, mem) => Fit(e, m)
        /\ Kept(e, mem) => Kept(e, m)
        /\ m.changed \/ (m.sol = mem.sol /\ m.changed = mem.changed)
    BY <1>2, <2>2, <2>3, TristateKeeps
  <2>5. Answered(m, Here, e[Here].last + 1, v)
    BY <2>1
  <2> HIDE DEF m
  <2>6. QED
    BY <1>4, <1>5, <2>4, <2>5
<1>9. ASSUME Abort PROVE IAuto'
  <2>1. phase' = "idle" /\ mode' = "none" /\ UNCHANGED <<config, auto, header, fresh>>
    BY <1>9 DEF Abort, Idle, disk
  <2>2. Fresh'
    BY <2>1 DEF IAuto, Fresh
  <2>3. QED
    BY <2>1, <2>2, OtherAuto
<1>10. QED
  BY <1>6, <1>7, <1>8, <1>9 DEF Answer

(* The writing of .config, of the headers of the symbols, of autoconf.h and*)
(* of auto.conf.                                                           *)
LEMMA AutoOfWrite ==
  ASSUME ITypes, IAuto, Write
  PROVE  IAuto'
<1>1. phase # "idle"
  BY DEF Write, WriteTmp, RenameOld, RenameNew, conf_split_config, RenameHeader, RenameAuto,
         conf_write_defconfig
<1>2. Proper(e) /\ Full(e, mem)
  BY <1>1, SourceProper DEF ITypes, Sources, Memory
<1>3. ASSUME WriteTmp PROVE IAuto'
  <2> DEFINE m == IF mem.changed THEN mem ELSE sym_clear_all_valid(mem)
  <2>1. /\ phase = "write" /\ phase' = "old" /\ UNCHANGED <<disk, mode>>
        /\ \E w \in SUBSET {v \in Values \cap m.write : ~m.sol[v].vis} :
             tmp' = FileOf(m, (Named \cap m.write) \ w)
    BY <1>3 DEF WriteTmp
  <2>2. /\ Full(e, m)
        /\ mem'.has = m.has /\ mem'.def = m.def /\ mem'.pick = m.pick
        /\ tmp' # NoFile
    BY <1>3, WriteTmpFacts
  <2>3. UNCHANGED <<e, config, auto, header, fresh, mode>>
    BY <2>1 DEF disk, source
  <2>4. Fresh' /\ Aside' /\ Only'
    BY <2>1, <2>3 DEF IAuto, Fresh, Aside, Only
  <2>5. ASSUME mode = "silentoldconfig" PROVE Renaming'
    <3>1. Fit(e, m)
      BY <1>2, <2>1, <2>5, ClearFit DEF IAuto, UpToDate, Full
    <3> HIDE DEF m
    <3>2. Positive(tmp') = AutoOf(e, m.sol)
      BY <1>2, <2>1, <2>2, <3>1, WrittenSays DEF Fit
    <3>3. Sols(e, mem') = m.sol
      BY <2>2, <3>1, SolsSame DEF Fit
    <3>4. Says(e, tmp', Sols(e, mem'))
      BY <2>2, <3>2, <3>3 DEF Says
    <3>5. QED
      BY <2>1, <2>3, <3>4 DEF Renaming
  <2>6. Asking' /\ UpToDate' /\ Telling'
    BY <2>1 DEF Asking, UpToDate, Telling
  <2>7. QED
    BY <2>3, <2>4, <2>5, <2>6 DEF IAuto
<1>4. ASSUME RenameOld PROVE IAuto'
  <2>1. /\ phase = "old" /\ phase' = "new" /\ fresh' = FALSE
        /\ UNCHANGED <<source, mode, mem, tmp>>
    BY <1>4 DEF RenameOld
  <2>2. Fresh' /\ Aside' /\ Only'
    BY <2>1 DEF Fresh, Aside, Only
  <2>3. mode = "silentoldconfig" => Renaming'
    BY <2>1 DEF IAuto, Renaming, source
  <2>4. Asking' /\ UpToDate' /\ Telling'
    BY <2>1 DEF Asking, UpToDate, Telling
  <2>5. QED
    BY <2>1, <2>2, <2>3, <2>4 DEF IAuto
<1>5. ASSUME RenameNew PROVE IAuto'
  <2>1. /\ phase = "new" /\ config' = tmp /\ UNCHANGED <<source, auto, header, fresh>>
        /\ IF mode = "silentoldconfig"
           THEN phase' = "split" /\ mem' = [mem EXCEPT !.changed = FALSE] /\ mode' = mode
           ELSE phase' = "idle" /\ mode' = "none"
    BY <1>5 DEF RenameNew, Idle
  <2>2. Fresh'
    BY <2>1 DEF IAuto, Aside, Fresh
  <2>3. CASE mode # "silentoldconfig"
    BY <2>1, <2>2, <2>3, OtherAuto
  <2>4. CASE mode = "silentoldconfig"
    <3>1. mem'.has = mem.has /\ mem'.def = mem.def /\ mem'.pick = mem.pick
      BY <1>2, <2>1, <2>4, UnchangedFull
    <3>2. Sols(e, mem') = Sols(e, mem)
      BY <3>1, SolsSame
    <3>3. Says(e, tmp, Sols(e, mem))
      BY <2>1, <2>4 DEF IAuto, Renaming
    <3>4. Renaming'
      BY <2>1, <2>4, <3>2, <3>3 DEF Renaming, source
    <3>5. Asking' /\ UpToDate' /\ Telling' /\ Aside' /\ Only'
      BY <2>1, <2>4 DEF Asking, UpToDate, Telling, Aside, Only
    <3>6. QED
      BY <2>2, <3>4, <3>5 DEF IAuto
  <2>5. QED
    BY <2>3, <2>4
<1>6. ASSUME conf_split_config PROVE IAuto'
  <2>1. /\ phase = "split" /\ phase' = "header" /\ mem' = sym_clear_all_valid(mem)
        /\ touched' = touched \cup Differ(OldAuto, WrittenAuto(mem'))
        /\ UNCHANGED <<source, config, auto, header, fresh, mode>>
    BY <1>6 DEF conf_split_config
  <2>2. mode = "silentoldconfig" /\ Says(e, config, Sols(e, mem))
    BY <2>1 DEF IAuto, Only, Renaming
  <2>3. mem'.sol = Sols(e, mem) /\ Fit(e, mem')
    BY <1>2, <2>1, ClearFacts, ClearFit DEF Full
  <2>4. UNCHANGED <<e, config, auto, header, fresh, mode>> /\ OldAuto' = OldAuto
    BY <2>1 DEF source, OldAuto
  <2>5. Fresh' /\ Aside' /\ Only' /\ Asking' /\ Renaming'
    BY <2>1, <2>2, <2>4 DEF IAuto, Fresh, Aside, Only, Asking, Renaming
  <2>6. UpToDate'
    BY <2>3, <2>4 DEF UpToDate
  <2>7. WrittenAuto(mem') = WrittenAuto(mem)'
    BY <2>4 DEF WrittenAuto, FileOf, Named, Entries
  <2>8. Telling'
    BY <2>1, <2>2, <2>3, <2>4, <2>7 DEF Telling
  <2>9. QED
    BY <2>5, <2>6, <2>8 DEF IAuto
<1>7. ASSUME phase \in {"header", "auto"}
      PROVE  mode = "silentoldconfig" /\ Fit(e, mem) /\ config # NoFile
             /\ WrittenAuto(mem) = Positive(config)
  <2>1. mode = "silentoldconfig" /\ Fit(e, mem) /\ Says(e, config, mem.sol)
    BY <1>7 DEF IAuto, Only, UpToDate, Telling
  <2>2. WrittenAuto(mem) = AutoOf(e, mem.sol)
    BY <1>2, <2>1, WrittenAutoIs DEF Fit
  <2>3. QED
    BY <2>1, <2>2 DEF Says
<1>8. ASSUME RenameHeader PROVE IAuto'
  <2>1. /\ phase = "header" /\ phase' = "auto" /\ header' = WrittenAuto(mem)
        /\ UNCHANGED <<source, config, auto, fresh, touched, mode, mem>>
    BY <1>8 DEF RenameHeader
  <2>2. UNCHANGED <<e, config, auto, fresh, touched, mode, mem>> /\ OldAuto' = OldAuto
        /\ WrittenAuto(mem)' = WrittenAuto(mem)
    BY <2>1 DEF source, OldAuto, WrittenAuto, FileOf, Named, Entries
  <2>3. Fresh'
    BY <1>7, <2>1, <2>2 DEF IAuto, Fresh
  <2>4. Aside' /\ Only' /\ Asking' /\ Renaming'
    BY <1>7, <2>1, <2>2 DEF Aside, Only, Asking, Renaming
  <2>5. UpToDate' /\ Telling'
    BY <1>7, <2>1, <2>2 DEF IAuto, UpToDate, Telling
  <2>6. QED
    BY <2>3, <2>4, <2>5 DEF IAuto
<1>9. ASSUME RenameAuto PROVE IAuto'
  <2>1. /\ phase = "auto" /\ phase' = "idle" /\ mode' = "none" /\ auto' = WrittenAuto(mem)
        /\ UNCHANGED <<config, header>>
    BY <1>9 DEF RenameAuto, Idle
  <2>2. header = WrittenAuto(mem)
    BY <1>7, <2>1 DEF IAuto, Telling
  <2>3. Fresh'
    BY <1>7, <2>1, <2>2 DEF Fresh
  <2>4. QED
    BY <2>1, <2>3, OtherAuto
<1>10. ASSUME conf_write_defconfig PROVE IAuto'
  <2>1. phase' = "idle" /\ mode' = "none" /\ UNCHANGED <<config, auto, header, fresh>>
    BY <1>10 DEF conf_write_defconfig, Idle
  <2>2. Fresh'
    BY <2>1 DEF IAuto, Fresh
  <2>3. QED
    BY <2>1, <2>2, OtherAuto
<1>11. QED
  BY <1>3, <1>4, <1>5, <1>6, <1>8, <1>9, <1>10 DEF Write

(* A run begins.                                                           *)
LEMMA AutoOfStart ==
  ASSUME ITypes, IAuto, StartSome
  PROVE  IAuto'
<1>1. Proper(e) /\ FileOK(config)
  BY SourceProper DEF ITypes, Sources, Files
<1>2. ASSUME NEW md, NEW told, NEW m, NEW first \in {"walk", "write", "minimal"}, NEW calls, NEW aim,
             Start(md, told, m, first, calls, aim), md # "silentoldconfig"
      PROVE  IAuto'
  <2>1. phase' = first /\ mode' = md /\ UNCHANGED <<config, auto, header, fresh>>
    BY <1>2 DEF Start, disk
  <2>2. Fresh'
    BY <2>1 DEF IAuto, Fresh
  <2>3. QED
    BY <1>2, <2>1, <2>2, OtherAuto
<1>3. ASSUME SilentOldConfig PROVE IAuto'
  <2>1. /\ config # NoFile /\ mode' = "silentoldconfig" /\ phase' = "walk" /\ mem' = conf_read(config)
        /\ UNCHANGED disk
    BY <1>3 DEF SilentOldConfig, Start
  <2>2. /\ Fit(e, mem')
        /\ Kept(e, mem') \/ Settled(e, mem')
        /\ ~mem'.changed => Says(e, config, mem'.sol)
    BY <1>1, <2>1, ConfReadFacts
  <2>3. UNCHANGED <<e, config, auto, header, fresh>>
    BY <2>1 DEF disk, source
  <2>4. Fresh' /\ Aside' /\ Only'
    BY <2>1, <2>3 DEF IAuto, Fresh, Aside, Only
  <2>5. Asking' /\ UpToDate' /\ Renaming' /\ Telling'
    BY <2>1, <2>2, <2>3 DEF Asking, UpToDate, Renaming, Telling
  <2>6. QED
    BY <2>4, <2>5 DEF IAuto
<1>4. ASSUME NEW md \in AllModes, AllConfig(md) PROVE IAuto'
  <2>1. md # "silentoldconfig"
    BY DEF AllModes
  <2> QED
    BY <1>2, <1>4, <2>1 DEF AllConfig
<1>5. ASSUME Config \/ OldConfig \/ SaveDefConfig \/ DefConfig PROVE IAuto'
  BY <1>2, <1>5 DEF Config, OldConfig, SaveDefConfig, DefConfig
<1>6. QED
  BY <1>3, <1>4, <1>5 DEF StartSome

(* What happens between two runs.                                          *)
LEMMA AutoOfRest ==
  ASSUME ITypes, IAuto, Upgrade \/ Kill \/ UNCHANGED vars
  PROVE  IAuto'
<1>1. ASSUME Upgrade PROVE IAuto'
  <2>1. phase = "idle" /\ UNCHANGED <<config, auto, header, fresh, mode, phase>>
    BY <1>1 DEF Upgrade, process
  <2>2. Fresh' /\ Aside' /\ Only'
    BY <2>1 DEF IAuto, Fresh, Aside, Only
  <2>3. Asking' /\ UpToDate' /\ Renaming' /\ Telling'
    BY <2>1 DEF Asking, UpToDate, Renaming, Telling
  <2>4. QED
    BY <2>2, <2>3 DEF IAuto
<1>2. ASSUME Kill PROVE IAuto'
  <2>1. phase' = "idle" /\ mode' = "none" /\ UNCHANGED <<config, auto, header, fresh>>
    BY <1>2 DEF Kill, Idle
  <2>2. Fresh'
    BY <2>1 DEF IAuto, Fresh
  <2>3. QED
    BY <2>1, <2>2, OtherAuto
<1>3. ASSUME UNCHANGED vars PROVE IAuto'
  <2>1. UNCHANGED <<e, config, auto, header, fresh, touched, mode, phase, mem, tmp>>
    BY <1>3 DEF vars, disk, source, process
  <2>2. OldAuto' = OldAuto /\ WrittenAuto(mem)' = WrittenAuto(mem)
    BY <2>1 DEF OldAuto, WrittenAuto, FileOf, Named, Entries
  <2>3. Fresh' /\ Aside' /\ Only'
    BY <2>1 DEF IAuto, Fresh, Aside, Only
  <2>4. ASSUME mode = "silentoldconfig" PROVE Asking' /\ UpToDate' /\ Renaming' /\ Telling'
    <3>1. Asking /\ UpToDate /\ Renaming /\ Telling
      BY <2>4 DEF IAuto
    <3>2. QED
      BY <2>1, <2>2, <3>1 DEF Asking, UpToDate, Renaming, Telling
  <2>5. QED
    BY <2>1, <2>3, <2>4 DEF IAuto
<1>4. QED
  BY <1>1, <1>2, <1>3

(* The invariant is kept.                                                  *)
LEMMA AutoStep == ITypes /\ IAuto /\ [Next]_vars => IAuto'
<1> SUFFICES ASSUME ITypes, IAuto, Next \/ UNCHANGED vars PROVE IAuto'
  OBVIOUS
<1>1. CASE Walk
  BY <1>1, AutoOfWalk
<1>2. CASE Answer
  BY <1>2, AutoOfAnswer
<1>3. CASE Write
  BY <1>3, AutoOfWrite
<1>4. CASE StartSome
  BY <1>4, AutoOfStart
<1>5. CASE Upgrade \/ Kill \/ UNCHANGED vars
  BY <1>5, AutoOfRest
<1>6. QED
  BY <1>1, <1>2, <1>3, <1>4, <1>5 DEF Next, Run, Rest

(* auto.conf changes in one step only.                                     *)
LEMMA TouchedStep ==
  ASSUME IAuto, [Next]_vars, auto' # auto
  PROVE  Differ(OldAuto, auto') \subseteq touched
<1>1. RenameAuto
  <2>1. ~Walk
    BY DEF Walk, SkipHidden, CheckOld, CheckNew, ConfText, ConfMenu, ConfOld, ConfOldChoice, Ask,
           Return, Leave, disk
  <2>2. ~Answer
    BY DEF Answer, AnswerBool, AnswerString, AnswerChoice, Abort, Answered, disk
  <2>3. ~WriteTmp /\ ~RenameOld /\ ~RenameNew /\ ~conf_split_config /\ ~RenameHeader
        /\ ~conf_write_defconfig
    BY DEF WriteTmp, RenameOld, RenameNew, conf_split_config, RenameHeader, conf_write_defconfig, disk
  <2>4. ~StartSome
    BY DEF StartSome, Config, OldConfig, SilentOldConfig, SaveDefConfig, DefConfig, AllConfig, Start, disk
  <2>5. ~Upgrade /\ ~Kill /\ ~UNCHANGED vars
    BY DEF Upgrade, Kill, vars, disk
  <2>6. QED
    BY <2>1, <2>2, <2>3, <2>4, <2>5 DEF Next, Run, Rest, Write
<1>2. phase = "auto" /\ auto' = WrittenAuto(mem)
  BY <1>1 DEF RenameAuto
<1>3. Differ(OldAuto, WrittenAuto(mem)) \subseteq touched
  BY <1>2 DEF IAuto, Only, Telling
<1>4. QED
  BY <1>2, <1>3

(* When make sees no need to run silentoldconfig, auto.conf and autoconf.h *)
(* say what .config says, whatever was answered, killed or upgraded before;*)
(* and the header of every symbol that auto.conf changes was touched first *)
(* (AutoFresh).                                                            *)
THEOREM KconfigAutoFresh == Spec => AutoFresh
<1>1. Init => IAuto
  BY DEF Init, IAuto, Fresh, Aside, Only
<1>2. IAuto => (fresh => config # NoFile /\ auto = Positive(config) /\ header = auto)
  BY DEF IAuto, Fresh
<1>3. IAuto /\ [Next]_vars => [auto' # auto => Differ(OldAuto, auto') \subseteq touched]_vars
  BY TouchedStep
<1>4. Spec => [][Next]_vars /\ []ITypes /\ Init
  BY Types DEF Spec
<1>5. Spec => []IAuto
  BY <1>1, <1>4, AutoStep, PTL
<1>6. QED
  BY <1>2, <1>3, <1>4, <1>5, PTL DEF AutoFresh

-----------------------------------------------------------------------------
(* What is read is what was written.                                       *)

(* What a solution says of the defaults.                                   *)
LEMMA SolvesMore ==
  ASSUME NEW x, Proper(x), NEW f, Solves(x, f), NEW s \in Ent(x)
  PROVE  /\ x[s].type = "choice" =>
              /\ f[s].preset = sym_choice_default(x, f, s)
              /\ f[s].chosen \in {0} \cup Choosable(x, f, s)
              /\ f[s].vis /\ Choosable(x, f, s) # {} => f[s].chosen # 0
         /\ x[s].choice # 0 => f[s].default = "n"
         /\ Plain(x, s) =>
              /\ ~f[s].rev => f[s].default = sym_get_default(x, f, s)
              /\ f[s].rev => f[s].val = "y"
<1>1. PICK m : Given(x, m) /\ f = Sols(x, m)
  BY DEF Solves
<1>2. IsSol(x, m, f)
  BY <1>1, SolsFacts
<1>3. f[s] = SymValue(x, m, f, s)
  BY <1>2 DEF IsSol
<1>4. x[s].choice # 0 => x[s].type = "bool"
  BY DEF Proper, Symbols
<1> DEFINE vis == sym_calc_visibility(x, f, s)
<1>5. vis \in BOOLEAN
  BY VisibilityBool DEF Proper, Symbols
<1>6. ASSUME x[s].type = "choice"
      PROVE  /\ f[s].preset = sym_choice_default(x, f, s)
             /\ f[s].chosen \in {0} \cup Choosable(x, f, s)
             /\ f[s].vis /\ Choosable(x, f, s) # {} => f[s].chosen # 0
  <2> DEFINE picked == sym_calc_choice(x, m, f, s)
  <2>1. f[s] = [vis |-> vis, rev |-> vis,
                write |-> vis, default |-> "n",
                preset |-> sym_choice_default(x, f, s),
                chosen |-> IF vis THEN picked ELSE 0,
                val |-> IF vis /\ picked # 0 THEN "y" ELSE "n"]
    BY <1>3, <1>4, <1>6, SymValueIs
  <2>2. picked \in {0} \cup Choosable(x, f, s)
        /\ (Choosable(x, f, s) # {} => picked \in Choosable(x, f, s))
        /\ 0 \notin Choosable(x, f, s)
    BY ChoiceFacts
  <2> HIDE DEF vis, picked
  <2>3. f[s].vis = vis /\ f[s].chosen = (IF vis THEN picked ELSE 0)
        /\ f[s].preset = sym_choice_default(x, f, s)
    BY <2>1
  <2>4. QED
    BY <1>5, <2>2, <2>3
<1>7. ASSUME x[s].choice # 0 PROVE f[s].default = "n"
  <2>1. f[s] = [vis |-> vis, rev |-> FALSE, write |-> vis,
                default |-> "n", preset |-> 0, chosen |-> 0,
                val |-> IF vis /\ f[x[s].choice].chosen = s THEN "y" ELSE "n"]
    BY <1>3, <1>4, <1>7, SymValueIs
  <2> HIDE DEF vis
  <2>2. QED
    BY <2>1
<1>8. ASSUME Plain(x, s)
      PROVE  (~f[s].rev => f[s].default = sym_get_default(x, f, s)) /\ (f[s].rev => f[s].val = "y")
  <2> DEFINE rev == rev_dep(x, f, s)
             def == sym_get_default(x, f, s)
  <2>1. f[s] = [vis |-> vis, rev |-> rev,
                write |-> vis \/ rev \/ Defaults(x, f, s) # {},
                default |-> IF rev THEN "y" ELSE def,
                preset |-> 0, chosen |-> 0,
                val |-> IF rev THEN "y"
                        ELSE IF vis /\ s \in m.has THEN m.def[s]
                        ELSE def]
    BY <1>3, <1>4, <1>8, SymValueIs DEF Plain, NamedIn
  <2>2. rev \in BOOLEAN
    BY DEF rev_dep
  <2> HIDE DEF vis, rev, def
  <2>3. f[s].rev = rev /\ f[s].default = (IF rev THEN "y" ELSE def) /\ (rev => f[s].val = "y")
    BY <2>1
  <2>4. QED
    BY <2>2, <2>3 DEF def
<1>9. QED
  BY <1>6, <1>7, <1>8

(* What gives every choice its value and every visible symbol its own again*)
(* gives the whole solution again.                                         *)
LEMMA Resolves ==
  ASSUME NEW x, Proper(x), NEW f, Solves(x, f), NEW o, Given(x, o),
         \A c \in ChoicesIn(x) : f[c].vis => sym_calc_choice(x, o, f, c) = f[c].chosen,
         \A s \in NamedIn(x) : x[s].choice = 0 /\ f[s].vis /\ ~f[s].rev =>
            f[s].val = IF s \in o.has THEN o.def[s] ELSE sym_get_default(x, f, s)
  PROVE  Sols(x, o) = f
<1>0. PICK m : Given(x, m) /\ f = Sols(x, m)
  BY DEF Solves
<1>1. ASSUME NEW s \in Ent(x) PROVE SymValue(x, o, f, s) = SymValue(x, m, f, s)
  <2>1. x[s].choice # 0 => x[s].type = "bool"
    BY DEF Proper, Symbols
  <2>2. x[s].type \in {"bool", "string", "choice", "menu", "comment"}
    BY DEF Proper, Symbols
  <2>0. f[s] = SymValue(x, m, f, s)
    BY <1>0, SolsFacts DEF IsSol
  <2> DEFINE vis == sym_calc_visibility(x, f, s)
  <2>3. CASE x[s].type = "choice"
    <3> DEFINE At(p) == [vis |-> vis, rev |-> vis,
                         write |-> vis, default |-> "n",
                         preset |-> sym_choice_default(x, f, s),
                         chosen |-> IF vis THEN p ELSE 0,
                         val |-> IF vis /\ p # 0 THEN "y" ELSE "n"]
               P(y) == sym_calc_choice(x, y, f, s)
    <3>1. SymValue(x, m, f, s) = At(P(m)) /\ SymValue(x, o, f, s) = At(P(o))
      BY <2>1, <2>3, SymValueIs
    <3>2. f[s].vis = vis /\ f[s].chosen = IF vis THEN P(m) ELSE 0
      <4>1. f[s] = At(P(m))
        BY <2>0, <3>1
      <4> HIDE DEF vis, P
      <4>2. QED
        BY <4>1
    <3>3. f[s].vis => P(o) = f[s].chosen
      BY <2>3 DEF ChoicesIn
    <3>4. vis \in BOOLEAN
      BY VisibilityBool DEF Proper, Symbols
    <3> HIDE DEF vis, P
    <3>5. vis => P(o) = P(m)
      BY <3>2, <3>3
    <3>6. ~vis => At(P(o)) = At(P(m))
      OBVIOUS
    <3>7. QED
      BY <3>1, <3>5, <3>6
  <2>4. CASE x[s].type # "choice" /\ x[s].choice # 0
    <3> DEFINE is == vis /\ f[x[s].choice].chosen = s
               At(a, b) == [vis |-> a, rev |-> FALSE, write |-> a, default |-> "n", preset |-> 0,
                            chosen |-> 0, val |-> IF b THEN "y" ELSE "n"]
    <3>1. SymValue(x, m, f, s) = At(vis, is)
      BY <2>1, <2>4, SymValueIs
    <3>2. SymValue(x, o, f, s) = At(vis, is)
      BY <2>1, <2>4, SymValueIs
    <3>3. QED
      BY <3>1, <3>2
  <2>5. CASE x[s].type \in {"bool", "string"} /\ x[s].choice = 0
    <3> DEFINE rev == rev_dep(x, f, s)
               def == sym_get_default(x, f, s)
               At(v) == [vis |-> vis, rev |-> rev, write |-> vis \/ rev \/ Defaults(x, f, s) # {},
                         default |-> IF rev THEN "y" ELSE def, preset |-> 0, chosen |-> 0,
                         val |-> IF rev THEN "y" ELSE v]
               V(y) == IF vis /\ s \in y.has THEN y.def[s] ELSE def
    <3>1. Plain(x, s)
      BY <2>5 DEF Plain, NamedIn, Ent
    <3>2. f[s].vis = vis /\ f[s].rev = rev /\ f[s].val = IF rev THEN "y" ELSE V(m)
      BY <1>0, <3>1, PlainIs
    <3>3. vis /\ ~rev => f[s].val = IF s \in o.has THEN o.def[s] ELSE def
      BY <3>1, <3>2 DEF Plain
    <3>4. ~rev => V(o) = V(m)
      BY <3>2, <3>3
    <3>5. SymValue(x, m, f, s) = At(V(m))
      BY <2>1, <2>5, SymValueIs
    <3>6. SymValue(x, o, f, s) = At(V(o))
      BY <2>1, <2>5, SymValueIs
    <3>7. rev => At(V(o)) = At(V(m))
      OBVIOUS
    <3> HIDE DEF V, At, rev
    <3>8. QED
      BY <3>4, <3>5, <3>6, <3>7
  <2>6. CASE x[s].type \in {"menu", "comment"} /\ x[s].choice = 0
    <3> DEFINE At(a) == [vis |-> a, rev |-> FALSE, write |-> FALSE, default |-> "n", preset |-> 0,
                            chosen |-> 0, val |-> "n"]
    <3>1. SymValue(x, m, f, s) = At(vis)
      BY <2>1, <2>6, SymValueIs
    <3>2. SymValue(x, o, f, s) = At(vis)
      BY <2>1, <2>6, SymValueIs
    <3>3. QED
      BY <3>1, <3>2
  <2>7. QED
    BY <2>2, <2>3, <2>4, <2>5, <2>6
<1>2. f = [s \in Ent(x) |-> SymValue(x, m, f, s)]
  BY <1>0, SolsFacts DEF IsSol
<1>3. f = [s \in Ent(x) |-> SymValue(x, o, f, s)]
  BY <1>1, <1>2
<1>4. IsSol(x, o, f)
  BY <1>3 DEF IsSol
<1>5. QED
  BY <1>4, SolsFacts

(* A file with the lines of a solution, as conf_write writes them, and as  *)
(* conf_write_defconfig does.                                              *)
Quotes(x, file, f) ==
  /\ \A n \in DOMAIN file : \E s \in NamedIn(x) : x[s].name = n
  /\ \A s \in NamedBy(x, file) : file[x[s].name] = f[s].val
Tells(x, file, f) ==
  /\ Solves(x, f) /\ Quotes(x, file, f)
  /\ \A s \in NamedIn(x) : f[s].write => s \in NamedBy(x, file)
  /\ \A s \in NamedBy(x, file) : x[s].choice = 0 => f[s].write
Differs(x, f, s) ==
  /\ f[s].vis /\ ~f[s].rev
  /\ f[s].val # f[s].default
  /\ x[s].choice # 0 => f[x[s].choice].preset # s
Least(x, file, f) ==
  /\ Solves(x, f) /\ Quotes(x, file, f)
  /\ \A s \in NamedIn(x) : s \in NamedBy(x, file) <=> Differs(x, f, s)

(* A .config of conf says what auto.conf is to say.                        *)
LEMMA TellsPositive ==
  ASSUME NEW x, Proper(x), NEW file, NEW f, Tells(x, file, f)
  PROVE  Positive(file) = AutoOf(x, f)
<1>1. \A s \in Positives(x, f) : x[s].name \in DOMAIN file /\ file[x[s].name] = f[s].val
  BY DEF Tells, Quotes, Positives, NamedBy
<1>2. ASSUME NEW n \in DOMAIN file, file[n] # "n" PROVE \E s \in Positives(x, f) : x[s].name = n
  <2>1. PICK s \in NamedIn(x) : x[s].name = n
    BY DEF Tells, Quotes
  <2>2. s \in NamedBy(x, file) /\ f[s].val # "n" /\ s \in Ent(x)
    BY <1>2, <2>1 DEF Tells, Quotes, NamedBy, NamedIn
  <2>3. x[s].choice # 0 => f[s].write
    BY <2>2, SolvesFacts DEF Tells
  <2>4. f[s].write
    BY <2>2, <2>3 DEF Tells
  <2>5. QED
    BY <2>1, <2>2, <2>4 DEF Positives
<1>3. QED
  BY <1>1, <1>2, PositiveIs

(* The value of a choice that a file picks.                                *)
LEMMA ReadPick ==
  ASSUME Proper(e), NEW file, NEW c \in ChoiceSyms
  PROVE  LET Y == {v \in e[c].values \cap NamedBy(e, file) : file[e[v].name] = "y"}
         IN  conf_read_simple(file).pick[c] = IF Y = {} THEN 0 ELSE Max(Y)
<1> DEFINE named == NamedBy(e, file)
           Yeses(d) == {v \in e[d].values \cap named : file[e[v].name] = "y"}
           has == named \cup ChoiceSyms
           def == [s \in Entries |-> IF s \in named THEN file[e[s].name] ELSE Parsed.def[s]]
           pick == [d \in Entries |-> IF Yeses(d) = {} THEN 0 ELSE Max(Yeses(d))]
           changed == \/ DOMAIN file \ {e[s].name : s \in Named} # {}
                      \/ \E d \in ChoiceSyms : Cardinality(Yeses(d)) > 1
           m == conf_read_simple(file)
<1>1. m = [Parsed EXCEPT !.has = has, !.def = def, !.pick = pick, !.changed = changed]
  BY Current DEF conf_read_simple, NamedBy
<1>2. Record(Parsed)
  BY ParsedHeld DEF Held
<1>3. c \in Entries
  BY DEF ChoiceSyms
<1>4. pick[c] = IF Yeses(c) = {} THEN 0 ELSE Max(Yeses(c))
  BY <1>3
<1> HIDE DEF has, def, pick, changed, m
<1>5. m.pick = pick
  BY <1>1, <1>2 DEF Record
<1>6. QED
  BY <1>4, <1>5 DEF m

LEMMA MaxOne == \A n \in Nat : \A v \in 1 .. n : \A Y : Y = {v} => Max(Y) = v
<1>1. TAKE n \in Nat
<1>2. TAKE v \in 1 .. n
<1>3. TAKE Y
<1>4. HAVE Y = {v}
<1>5. Y \subseteq 0 .. n /\ Y # {}
  BY <1>4
<1>6. Max(Y) \in Y
  BY <1>5, MaxIn
<1>7. QED
  BY <1>4, <1>6

(* What a file picks is what is chosen, if it says so or there is nothing  *)
(* else to choose.                                                         *)
LEMMA PickedAgain ==
  ASSUME Proper(e), NEW file, NEW f, Solves(e, f), Quotes(e, file, f),
         NEW c \in ChoiceSyms, f[c].vis,
         \/ f[c].chosen \in NamedBy(e, file)
         \/ f[c].chosen \in {0, f[c].preset}
  PROVE  sym_calc_choice(e, conf_read_simple(file), f, c) = f[c].chosen
<1> DEFINE Y == {v \in e[c].values \cap NamedBy(e, file) : file[e[v].name] = "y"}
           r == conf_read_simple(file)
<1>1. c \in Ent(e) /\ e[c].type = "choice" /\ c # 0
  BY Current DEF ChoicesIn, Ent
<1>2. r.pick[c] = IF Y = {} THEN 0 ELSE Max(Y)
  BY ReadPick
<1>3. /\ f[c].preset = sym_choice_default(e, f, c)
      /\ f[c].chosen \in {0} \cup Choosable(e, f, c)
      /\ Choosable(e, f, c) # {} => f[c].chosen # 0
  BY <1>1, SolvesMore
<1>4. /\ Choosable(e, f, c) \subseteq e[c].values
      /\ 0 \notin Choosable(e, f, c)
      /\ sym_choice_default(e, f, c) \in {0} \cup Choosable(e, f, c)
  BY <1>1, ChoiceFacts
<1>5. \A v \in e[c].values : v \in Ent(e) /\ e[v].choice = c
  BY <1>1 DEF Proper, Symbols
<1>6. \A v \in e[c].values : f[v].vis = sym_calc_visibility(e, f, v)
                             /\ (f[v].val = "y" <=> f[v].vis /\ f[c].chosen = v)
  BY <1>1, <1>5, SolvesFacts
<1>7. Y = {f[c].chosen} \cap NamedBy(e, file) \cap Choosable(e, f, c)
  <2>1. \A v \in e[c].values \cap NamedBy(e, file) : file[e[v].name] = f[v].val
    BY DEF Quotes
  <2>2. \A v : v \in Y <=> v \in e[c].values \cap NamedBy(e, file) /\ f[v].vis /\ f[c].chosen = v
    BY <1>6, <2>1
  <2>3. \A v \in e[c].values : v \in Choosable(e, f, c) <=> f[v].vis
    BY <1>6 DEF Choosable
  <2> HIDE DEF Y
  <2>4. QED
    BY <1>4, <2>2, <2>3
<1> HIDE DEF Y, r
<1>8. CASE f[c].chosen = 0
  <2>1. Choosable(e, f, c) = {}
    BY <1>3, <1>8
  <2>2. QED
    BY <1>4, <1>8, <2>1 DEF sym_calc_choice
<1>9. CASE f[c].chosen # 0 /\ f[c].chosen \in NamedBy(e, file)
  <2>1. Y = {f[c].chosen} /\ f[c].chosen \in Choosable(e, f, c)
    BY <1>3, <1>7, <1>9
  <2>2. f[c].chosen \in 1 .. Len(e) /\ Len(e) \in Nat
    BY <1>4, <1>5, <2>1 DEF Ent, Proper
  <2>3. Max(Y) = f[c].chosen
    BY <2>1, <2>2, MaxOne
  <2>4. r.pick[c] = f[c].chosen
    BY <1>2, <2>1, <2>3
  <2>5. QED
    BY <2>1, <2>4 DEF sym_calc_choice, r
<1>10. CASE f[c].chosen # 0 /\ f[c].chosen \notin NamedBy(e, file)
  <2>1. Y = {} /\ f[c].chosen = f[c].preset
    BY <1>7, <1>10
  <2>2. r.pick[c] = 0
    BY <1>2, <2>1
  <2>3. QED
    BY <1>3, <1>4, <2>1, <2>2 DEF sym_calc_choice, r
<1>11. QED
  BY <1>8, <1>9, <1>10

(* What the run computes from a file that it or its like has written.      *)
(* What is read from a .config of conf is what it was written for.         *)
LEMMA ReadTells ==
  ASSUME Proper(e), NEW file, Lines(file), NEW f, Tells(e, file, f)
  PROVE  Sols(e, conf_read_simple(file)) = f
<1> DEFINE r == conf_read_simple(file)
<1>1. /\ Given(e, r)
      /\ r.has = NamedBy(e, file) \cup ChoiceSyms
      /\ \A s \in NamedBy(e, file) : r.def[s] = file[e[s].name]
  BY ReadFacts DEF Held
<1>2. Solves(e, f) /\ Quotes(e, file, f)
  BY DEF Tells
<1>3. ASSUME NEW c \in ChoicesIn(e), f[c].vis PROVE sym_calc_choice(e, r, f, c) = f[c].chosen
  <2>1. c \in ChoiceSyms /\ c \in Ent(e) /\ e[c].type = "choice" /\ c # 0
    BY Current DEF ChoicesIn, Ent
  <2>2. ASSUME f[c].chosen # 0 PROVE f[c].chosen \in NamedBy(e, file)
    <3> DEFINE v == f[c].chosen
    <3>1. v \in Choosable(e, f, c) /\ v \in e[c].values
      BY <1>2, <2>1, <2>2, SolvesMore, ChoiceFacts
    <3>2. v \in Ent(e) /\ e[v].choice = c
      BY <2>1, <3>1 DEF Proper, Symbols
    <3>3. v \in NamedIn(e)
      BY <2>1, <3>2 DEF Proper, Symbols, NamedIn
    <3>4. f[v].vis
      BY <1>2, <3>1, <3>2, SolvesFacts DEF Choosable
    <3> HIDE DEF v
    <3>5. f[v].write
      BY <1>2, <2>1, <3>2, <3>4, SolvesFacts
    <3>6. QED
      BY <3>3, <3>5 DEF Tells, v
  <2> HIDE DEF r
  <2>3. QED
    BY <1>2, <1>3, <2>1, <2>2, PickedAgain DEF r
<1>4. ASSUME NEW s \in NamedIn(e), e[s].choice = 0, f[s].vis, ~f[s].rev
      PROVE  f[s].val = IF s \in r.has THEN r.def[s] ELSE sym_get_default(e, f, s)
  <2>1. s \in Ent(e) /\ e[s].type \in {"bool", "string"}
    BY DEF NamedIn
  <2>2. f[s].write
    BY <1>2, <1>4, <2>1, SolvesFacts
  <2>3. s \in NamedBy(e, file)
    BY <2>2 DEF Tells
  <2>4. r.def[s] = f[s].val
    BY <1>1, <1>2, <2>3 DEF Quotes
  <2> HIDE DEF r
  <2>5. QED
    BY <1>1, <2>3, <2>4
<1> HIDE DEF r
<1>5. Sols(e, r) = f
  BY <1>1, <1>2, <1>3, <1>4, Resolves
<1>6. QED
  BY <1>5 DEF r

(* The same for a file of savedefconfig.                                   *)
LEMMA ReadLeast ==
  ASSUME Proper(e), NEW file, Lines(file), NEW f, Least(e, file, f)
  PROVE  Sols(e, conf_read_simple(file)) = f
<1> DEFINE r == conf_read_simple(file)
<1>1. /\ Given(e, r)
      /\ r.has = NamedBy(e, file) \cup ChoiceSyms
      /\ \A s \in NamedBy(e, file) : r.def[s] = file[e[s].name]
  BY ReadFacts DEF Held
<1>2. Solves(e, f) /\ Quotes(e, file, f)
  BY DEF Least
<1>3. ASSUME NEW c \in ChoicesIn(e), f[c].vis PROVE sym_calc_choice(e, r, f, c) = f[c].chosen
  <2>1. c \in ChoiceSyms /\ c \in Ent(e) /\ e[c].type = "choice" /\ c # 0
    BY Current DEF ChoicesIn, Ent
  <2>2. ASSUME f[c].chosen # 0, f[c].chosen # f[c].preset PROVE f[c].chosen \in NamedBy(e, file)
    <3> DEFINE v == f[c].chosen
    <3>1. v \in Choosable(e, f, c) /\ v \in e[c].values
      BY <1>2, <2>1, <2>2, SolvesMore, ChoiceFacts
    <3>2. v \in Ent(e) /\ e[v].choice = c
      BY <2>1, <3>1 DEF Proper, Symbols
    <3>3. v \in NamedIn(e)
      BY <2>1, <3>2 DEF Proper, Symbols, NamedIn
    <3>4. f[v].vis
      BY <1>2, <3>1, <3>2, SolvesFacts DEF Choosable
    <3>5. f[v].val = "y" /\ ~f[v].rev
      BY <1>2, <2>1, <3>2, <3>4, SolvesFacts
    <3>6. f[v].default = "n"
      BY <1>2, <2>1, <3>2, SolvesMore
    <3>7. Differs(e, f, v)
      BY <2>2, <3>2, <3>4, <3>5, <3>6 DEF Differs
    <3> HIDE DEF v
    <3>8. QED
      BY <3>3, <3>7 DEF Least, v
  <2> HIDE DEF r
  <2>3. QED
    BY <1>2, <1>3, <2>1, <2>2, PickedAgain DEF r
<1>4. ASSUME NEW s \in NamedIn(e), e[s].choice = 0, f[s].vis, ~f[s].rev
      PROVE  f[s].val = IF s \in r.has THEN r.def[s] ELSE sym_get_default(e, f, s)
  <2>1. s \in Ent(e) /\ e[s].type \in {"bool", "string"} /\ Plain(e, s)
    BY <1>4 DEF NamedIn, Plain
  <2>2. CASE s \in NamedBy(e, file)
    <3>1. r.def[s] = f[s].val
      BY <1>1, <1>2, <2>2 DEF Quotes
    <3> HIDE DEF r
    <3>2. QED
      BY <1>1, <2>2, <3>1
  <2>3. CASE s \notin NamedBy(e, file)
    <3>1. ~Differs(e, f, s)
      BY <2>3 DEF Least
    <3>2. f[s].val = f[s].default
      BY <1>4, <3>1 DEF Differs
    <3>3. f[s].default = sym_get_default(e, f, s)
      BY <1>2, <1>4, <2>1, SolvesMore
    <3>4. s \notin r.has
      BY <1>1, <2>1, <2>3 DEF ChoiceSyms
    <3> HIDE DEF r
    <3>5. QED
      BY <3>2, <3>3, <3>4
  <2>4. QED
    BY <2>2, <2>3
<1> HIDE DEF r
<1>5. Sols(e, r) = f
  BY <1>1, <1>2, <1>3, <1>4, Resolves
<1>6. QED
  BY <1>5 DEF r

(* conf_read in its steps.                                                 *)
LEMMA ReadParts ==
  ASSUME Proper(e), NEW file, file # NoFile, Lines(file)
  PROVE  LET r == conf_read_simple(file)
             m == Calc(r)
             o == conf_read(file)
         IN  /\ Full(e, m) /\ Full(e, o) /\ Fit(e, o)
             /\ m.has = NamedBy(e, file) \cup ChoiceSyms
             /\ m.sol = Sols(e, r) /\ o.sol = m.sol /\ o.def = m.def
             /\ \A s \in m.has : s \in o.has \/ ~m.sol[s].vis \/ s \in Open(m)
<1> DEFINE r == conf_read_simple(file)
           m == Calc(r)
           o == conf_read(file)
           hidden == {s \in ChoiceSyms \cup (Named \ Values) : ~m.sol[s].vis /\ Unsaved(m) = {}}
<1>1. Held(e, r) /\ r.has = NamedBy(e, file) \cup ChoiceSyms
  BY ReadFacts
<1>2. /\ Full(e, m) /\ Fit(e, m)
      /\ m.has = r.has /\ m.sol = Sols(e, r)
  <2> HIDE DEF r
  <2>1. QED
    BY <1>1, CalcFacts, ClearFit
<1>3. o = Judged(m)
  BY DEF conf_read
<1> HIDE DEF o, m, r
<1>4. /\ Full(e, o) /\ Fit(e, o)
      /\ o.has = m.has \ (Open(m) \cup hidden)
      /\ o.def = m.def /\ o.sol = m.sol
  BY <1>2, <1>3, JudgedFacts
<1>5. \A s \in m.has : s \in o.has \/ ~m.sol[s].vis \/ s \in Open(m)
  BY <1>4
<1>6. QED
  BY <1>1, <1>2, <1>4, <1>5 DEF o, m, r

(* A file that conf wrote has nothing new in it.                           *)
LEMMA ReadOurs ==
  ASSUME Proper(e), NEW file, file # NoFile, Lines(file), NEW f, Tells(e, file, f)
  PROVE  LET o == conf_read(file)
         IN  Full(e, o) /\ Fit(e, o) /\ o.sol = f /\ Settled(e, o)
<1> DEFINE m == Calc(conf_read_simple(file))
           o == conf_read(file)
<1>1. /\ Full(e, o) /\ Fit(e, o)
      /\ m.has = NamedBy(e, file) \cup ChoiceSyms
      /\ m.sol = f /\ o.sol = f
      /\ \A s \in m.has : s \in o.has \/ ~m.sol[s].vis \/ s \in Open(m)
  BY ReadParts, ReadTells
<1> HIDE DEF m, o
<1>2. Solves(e, f)
  BY DEF Tells
<1>3. \A s \in NamedIn(e) : f[s].vis => s \in m.has
  <2>1. ASSUME NEW s \in NamedIn(e), f[s].vis PROVE s \in m.has
    <3>1. s \in Ent(e) /\ e[s].type \in {"bool", "string"}
      BY DEF NamedIn
    <3>2. f[s].write
      BY <1>2, <2>1, <3>1, SolvesFacts
    <3>3. QED
      BY <1>1, <3>2 DEF Tells
  <2>2. QED
    BY <2>1
<1>4. Open(m) = {}
  <2>1. ASSUME NEW c \in ChoiceSyms, NEW v \in e[c].values, m.sol[v].vis PROVE v \in m.has
    <3>1. v \in Ent(e) /\ e[v].choice = c /\ c # 0
      BY DEF Proper, Symbols, ChoiceSyms, Entries, Ent
    <3>2. v \in NamedIn(e)
      BY <3>1 DEF Proper, Symbols, NamedIn
    <3>3. QED
      BY <1>1, <1>3, <2>1, <3>2
  <2>2. QED
    BY <2>1 DEF Open
<1>5. Settled(e, o)
  <2>1. ASSUME NEW s \in NamedIn(e) \cup ChoicesIn(e), o.sol[s].vis PROVE s \in o.has
    <3>1. s \in m.has
      BY <1>1, <1>3, <2>1, Current
    <3>2. QED
      BY <1>1, <1>4, <2>1, <3>1
  <2>2. QED
    BY <2>1 DEF Settled
<1>6. QED
  BY <1>1, <1>5 DEF o

(* What savedefconfig left out is found again.                             *)
LEMMA ReadMinimal ==
  ASSUME Proper(e), NEW file, file # NoFile, Lines(file), NEW f, Least(e, file, f)
  PROVE  LET o == conf_set_all_new_symbols(conf_read(file), "default")
         IN  Full(e, o) /\ Fit(e, o) /\ o.sol = f
<1> DEFINE m == conf_read(file)
           new == {s \in Entries \ m.has : e[s].type \in {"bool", "choice"} /\ "default" # "default"}
           d == [s \in Entries |-> IF s \in new THEN "default" ELSE m.def[s]]
           h == m.has \cup new \cup ChoiceSyms
           g == [m EXCEPT !.def = d, !.has = h]
           o == conf_set_all_new_symbols(m, "default")
<1>1. Full(e, m) /\ Fit(e, m) /\ m.sol = f
  BY ReadParts, ReadLeast
<1>2. o = sym_clear_all_valid(g)
  BY DEF conf_set_all_new_symbols
<1>3. Record(m) /\ Given(e, m) /\ m.write \subseteq NamedIn(e) /\ m.changed \in BOOLEAN
  BY <1>1 DEF Full, Held
<1>4. new = {}
  OBVIOUS
<1>5. d = m.def
  <2>1. m.def \in [Entries -> {NoFile} \cup Contents]
    BY <1>3, Current DEF Given
  <2>2. d = [s \in Entries |-> m.def[s]]
    BY <1>4
  <2> HIDE DEF d, m
  <2>3. QED
    BY <2>1, <2>2
<1>6. h = m.has \cup ChoiceSyms
  BY <1>4
<1>16. g = [m EXCEPT !.def = d, !.has = h]
  OBVIOUS
<1> HIDE DEF new, d, h, m, g
<1>7. g = [has |-> h, def |-> d, pick |-> m.pick, sol |-> m.sol, write |-> m.write, changed |-> m.changed]
  BY <1>3, <1>16 DEF Record
<1>8. g.has = h /\ g.def = d /\ g.pick = m.pick /\ g.sol = m.sol /\ g.write = m.write /\ g.changed = m.changed
  BY <1>7
<1>9. Record(g)
  BY <1>7, <1>8 DEF Record
<1>10. Given(e, g)
  <2>1. \A s \in ChoiceSyms : s \in Entries /\ e[s].type = "choice"
    BY DEF ChoiceSyms
  <2>2. QED
    BY <1>3, <1>5, <1>6, <1>8, <2>1, Current DEF Given
<1>11. Held(e, g)
  BY <1>3, <1>8, <1>9, <1>10 DEF Held
<1>12. Effectless(e, m, g)
  <2>1. \A s \in NamedIn(e) : s \in g.has <=> s \in m.has
    BY <1>6, <1>8 DEF ChoiceSyms, NamedIn
  <2>2. QED
    BY <1>5, <1>8, <2>1 DEF Effectless
<1>13. Sols(e, g) = f
  BY <1>1, <1>3, <1>10, <1>12, SameSolution DEF Fit
<1> HIDE DEF o
<1>14. Full(e, o) /\ o.sol = f /\ Fit(e, o)
  BY <1>2, <1>11, <1>13, ClearFacts, ClearFit
<1>15. QED
  BY <1>14 DEF o, m

(* What conf_write writes, and conf_write_defconfig.                       *)
LEMMA WrittenTells ==
  ASSUME Proper(e), NEW m, Full(e, m), WriteGood(e, m),
         NEW w, w \subseteq {v \in Values \cap m.write : ~m.sol[v].vis}
  PROVE  Tells(e, FileOf(m, (Named \cap m.write) \ w), m.sol)
<1> DEFINE S == (Named \cap m.write) \ w
           file == FileOf(m, S)
<1>1. Solves(e, m.sol)
  BY DEF Full
<1>2. S \subseteq Entries
  BY Current DEF NamedIn
<1>3. /\ DOMAIN file = {e[i].name : i \in S}
      /\ \A i \in S : file[e[i].name] = m.sol[i].val
  <2> HIDE DEF S
  <2>1. QED
    BY <1>2, FileOfIs
<1>4. \A s \in w : s \in Ent(e) /\ e[s].choice # 0 /\ ~m.sol[s].write
  <2>1. \A s \in w : s \in Ent(e) /\ e[s].choice # 0 /\ ~m.sol[s].vis
    BY Current DEF ValuesIn
  <2>2. QED
    BY <1>1, <2>1, SolvesFacts
<1>5. \A s \in NamedIn(e) : m.sol[s].write => s \in S
  BY <1>4, Current DEF WriteGood
<1>6. \A s \in S : s \in NamedIn(e) /\ (e[s].choice = 0 => m.sol[s].write)
  BY Current DEF WriteGood, ValuesIn
<1> HIDE DEF S, file
<1>7. NamedBy(e, file) = S
  <2>1. \A s \in NamedIn(e), t \in S : e[s].name = e[t].name => s = t
    BY <1>2, Current DEF Proper, NamedIn
  <2>2. QED
    BY <1>3, <1>6, <2>1 DEF NamedBy
<1>8. Quotes(e, file, m.sol)
  BY <1>3, <1>6, <1>7 DEF Quotes
<1>9. QED
  BY <1>1, <1>5, <1>6, <1>7, <1>8 DEF Tells, file, S

(* ... and conf_write_defconfig.                                           *)
LEMMA WrittenLeast ==
  ASSUME Proper(e), NEW m, Full(e, m), WriteGood(e, m)
  PROVE  Least(e, WrittenMinimal(m), m.sol)
<1> DEFINE S == {s \in Named \cap m.write :
                   /\ sym_is_changable(m, s)
                   /\ m.sol[s].val # m.sol[s].default
                   /\ s \in Values => m.sol[e[s].choice].preset # s}
           file == FileOf(m, S)
<1>1. Solves(e, m.sol)
  BY DEF Full
<1>2. S \subseteq Entries
  BY Current DEF NamedIn
<1>3. /\ DOMAIN file = {e[i].name : i \in S}
      /\ \A i \in S : file[e[i].name] = m.sol[i].val
  <2> HIDE DEF S
  <2>1. QED
    BY <1>2, FileOfIs
<1>4. \A s \in NamedIn(e) : s \in S <=> Differs(e, m.sol, s)
  <2>1. ASSUME NEW s \in NamedIn(e) PROVE s \in S <=> Differs(e, m.sol, s)
    <3>1. s \in Ent(e) /\ e[s].type \in {"bool", "string"}
      BY DEF NamedIn
    <3>2. m.sol[s].vis => s \in m.write
      BY <1>1, <3>1, SolvesFacts DEF WriteGood
    <3>3. s \in Values <=> e[s].choice # 0
      BY <3>1, Current DEF ValuesIn
    <3>4. QED
      BY <3>2, <3>3, Current DEF Differs, sym_is_changable
  <2>2. QED
    BY <2>1
<1>5. \A s \in S : s \in NamedIn(e)
  BY Current
<1>6. WrittenMinimal(m) = file
  BY DEF WrittenMinimal
<1> HIDE DEF S, file
<1>7. NamedBy(e, file) = S
  <2>1. \A s \in NamedIn(e), t \in S : e[s].name = e[t].name => s = t
    BY <1>2, Current DEF Proper, NamedIn
  <2>2. QED
    BY <1>3, <1>5, <2>1 DEF NamedBy
<1>8. Quotes(e, file, m.sol)
  BY <1>3, <1>5, <1>7 DEF Quotes
<1>9. QED
  BY <1>1, <1>4, <1>6, <1>7, <1>8 DEF Least

-----------------------------------------------------------------------------
(* What conf wrote is found again.                                         *)
OursTold == ours /\ config # NoFile => \E f : Tells(e, config, f)
SavedTold == saved # NoFile => /\ minimal # NoFile
                               /\ \E f : Least(e, minimal, f) /\ Positive(saved) = AutoOf(e, f)
Marking == phase \in {"walk", "ask", "write"} => WriteGood(e, mem)
Renamed == phase \in {"old", "new"} => \E f : Tells(e, tmp, f)
Saving == phase = "minimal" => /\ Fit(e, mem)
                               /\ ours /\ config # NoFile => Tells(e, config, mem.sol)
Unwritten == phase \in {"idle", "walk", "ask", "write", "minimal"} => tmp = NoFile
Aiming == goal # NoFile => /\ mode # "config" /\ phase # "ask"
                           /\ phase \in {"walk", "write"} => Fit(e, mem) /\ goal = AutoOf(e, mem.sol)
                           /\ phase = "walk" => Settled(e, mem)
                           /\ tmp # NoFile => Positive(tmp) = goal
IRepro == /\ OursTold /\ SavedTold /\ Marking /\ Renamed /\ Saving /\ Unwritten
          /\ Aiming

(* Files that are left alone tell what they told.                          *)
LEMMA KeptTold ==
  ASSUME OursTold, SavedTold, UNCHANGED disk
  PROVE  OursTold' /\ SavedTold'
<1>1. UNCHANGED <<e, config, minimal, ours, saved>>
  BY DEF disk, source
<1>2. QED
  BY <1>1 DEF OursTold, SavedTold

(* The walk goes on.                                                       *)
LEMMA WalkRepro ==
  ASSUME ITypes, IRepro, phase \in {"walk", "ask"}, phase' = "walk", UNCHANGED <<disk, mode, goal, tmp>>,
         WriteGood(e, mem'),
         goal # NoFile /\ phase = "walk" =>
            mem'.sol = mem.sol /\ Fit(e, mem') /\ Settled(e, mem')
  PROVE  IRepro'
<1>1. UNCHANGED <<e, mode, goal, tmp>>
  BY DEF disk, source
<1>2. OursTold' /\ SavedTold'
  BY KeptTold DEF IRepro
<1>3. Marking' /\ Renamed' /\ Saving' /\ Unwritten'
  BY <1>1 DEF IRepro, Marking, Renamed, Saving, Unwritten
<1>4. Aiming'
  BY <1>1 DEF IRepro, Aiming, Unwritten
<1>5. QED
  BY <1>2, <1>3, <1>4 DEF IRepro

(* A run that is over aims at nothing.                                     *)
LEMMA IdleRepro ==
  ASSUME Idle, OursTold', SavedTold'
  PROVE  IRepro'
BY DEF Idle, IRepro, Marking, Renamed, Saving, Unwritten, Aiming

(* check_conf and conf: nothing is asked about a file that conf wrote.     *)
LEMMA ReproOfWalk ==
  ASSUME ITypes, IRepro, Walk
  PROVE  IRepro'
<1>1. phase = "walk"
  BY DEF Walk, SkipHidden, CheckOld, CheckNew, ConfText, ConfMenu, ConfOld, ConfOldChoice, Ask, Return, Walking
<1>2. Proper(e) /\ Full(e, mem) /\ (Here <= Top.to => Here \in Entries)
  BY <1>1, WalkFacts
<1>3. WriteGood(e, mem) /\ tmp = NoFile
      /\ (goal # NoFile => Fit(e, mem) /\ Settled(e, mem) /\ mode # "config")
  BY <1>1 DEF IRepro, Marking, Aiming, Unwritten
<1>4. ASSUME NEW m, NEW n, Leave(m, n), WriteGood(e, m),
             goal # NoFile => m.sol = mem.sol /\ Fit(e, m) /\ Settled(e, m)
      PROVE  IRepro'
  <2>1. mem' = m /\ phase' = "walk" /\ UNCHANGED <<disk, mode, goal, tmp>>
    BY <1>1, <1>4 DEF Leave
  <2>2. QED
    BY <1>1, <1>4, <2>1, WalkRepro
<1>5. ASSUME mem' = mem, phase' = "walk", UNCHANGED <<disk, mode, goal, tmp>> PROVE IRepro'
  BY <1>1, <1>3, <1>5, WalkRepro
<1>6. ASSUME Here \in Entries, NEW n, Leave(Marked(mem, Here), n) PROVE IRepro'
  <2> DEFINE m == Marked(mem, Here)
  <2>1. /\ m.has = mem.has \cup Marks(mem, Here)
        /\ m.sol = mem.sol
        /\ Fit(e, mem) => Fit(e, m)
        /\ WriteGood(e, m)
    BY <1>2, <1>3, <1>6, MarkedFacts
  <2> HIDE DEF m
  <2>2. Settled(e, mem) => Settled(e, m)
    BY <2>1 DEF Settled
  <2>3. QED
    BY <1>3, <1>4, <1>6, <2>1, <2>2 DEF m
<1>7. ASSUME NEW n, Leave(mem, n) PROVE IRepro'
  BY <1>3, <1>4, <1>7
<1>8. ASSUME SkipHidden PROVE IRepro'
  BY <1>7, <1>8 DEF SkipHidden
<1>9. ASSUME CheckOld PROVE IRepro'
  <2>1. Here \in Entries /\ Leave(Marked(mem, Here), Here + 1)
    BY <1>2, <1>9 DEF CheckOld, Walking
  <2>2. QED
    BY <1>6, <2>1
<1>10. ASSUME CheckNew PROVE IRepro'
  BY <1>1, <1>5, <1>10 DEF CheckNew
<1>11. ASSUME ConfText PROVE IRepro'
  BY <1>7, <1>11 DEF ConfText
<1>12. ASSUME ConfMenu PROVE IRepro'
  <2> DEFINE m == Marked(mem, Here)
  <2>1. /\ Here \in Entries /\ mem' = m /\ phase' = "walk" /\ UNCHANGED <<disk, mode, goal, tmp>>
    BY <1>1, <1>2, <1>12 DEF ConfMenu, Walking
  <2>2. /\ m.has = mem.has \cup Marks(mem, Here)
        /\ m.sol = mem.sol
        /\ Fit(e, mem) => Fit(e, m)
        /\ WriteGood(e, m)
    BY <1>2, <1>3, <2>1, MarkedFacts
  <2> HIDE DEF m
  <2>3. Settled(e, mem) => Settled(e, m)
    BY <2>2 DEF Settled
  <2>4. QED
    BY <1>1, <1>3, <2>1, <2>2, <2>3, WalkRepro
<1>13. ASSUME ConfOld PROVE IRepro'
  <2>1. Here \in Entries /\ Leave(Marked(mem, Here), Here + 1)
    BY <1>2, <1>13 DEF ConfOld, Walking
  <2>2. QED
    BY <1>6, <2>1
<1>14. ASSUME ConfOldChoice PROVE IRepro'
  <2>1. Here \in ChoiceSyms /\ Here \in Entries
        /\ Leave(IF mem.sol[Here].val = "n" THEN mem
                 ELSE sym_set_tristate_value(mem, mem.sol[Here].chosen, "y"), e[Here].last + 1)
    BY <1>2, <1>14 DEF ConfOldChoice, Walking
  <2>2. CASE mem.sol[Here].val = "n"
    BY <1>7, <2>1, <2>2
  <2>3. CASE mem.sol[Here].val # "n"
    <3> DEFINE v == mem.sol[Here].chosen
               m == sym_set_tristate_value(mem, v, "y")
    <3>1. v \in Entries /\ e[v].type = "bool" /\ mem.sol[v].val = "y"
      BY <1>2, <2>1, <2>3, ChosenAgain
    <3>2. Leave(m, e[Here].last + 1)
      BY <2>1, <2>3
    <3> HIDE DEF v
    <3>3. /\ mem.has \subseteq m.has /\ m.sol = mem.sol
          /\ Fit(e, mem) => Fit(e, m)
          /\ WriteGood(e, m)
      BY <1>2, <1>3, <3>1, TristateFacts
    <3> HIDE DEF m
    <3>4. Settled(e, mem) => Settled(e, m)
      BY <3>3 DEF Settled
    <3>5. QED
      BY <1>3, <1>4, <3>2, <3>3, <3>4
  <2>4. QED
    BY <2>2, <2>3
<1>15. ASSUME Ask PROVE IRepro'
  <2>1. /\ phase' = "ask" /\ Here \in Entries /\ Here \in Named \cup ChoiceSyms
        /\ Asks(Marked(mem, Here), Here)
        /\ Here \in ChoiceSyms => mem.sol[Here].val = "y"
        /\ UNCHANGED <<disk, mode, mem, goal, tmp>>
    BY <1>2, <1>15 DEF Ask, Walking
  <2>2. ASSUME goal # NoFile PROVE FALSE
    <3>1. ~AskAll
      BY <1>3, <2>2 DEF AskAll
    <3>2. QED
      BY <1>2, <1>3, <2>1, <2>2, <3>1, NothingToAsk
  <2>3. UNCHANGED <<e, mem, goal, tmp>> /\ OursTold' /\ SavedTold'
    BY <2>1, KeptTold DEF IRepro, disk, source
  <2>4. Marking' /\ Renamed' /\ Saving' /\ Unwritten' /\ Aiming'
    BY <1>3, <2>1, <2>2, <2>3 DEF Marking, Renamed, Saving, Unwritten, Aiming
  <2>5. QED
    BY <2>3, <2>4 DEF IRepro
<1>16. ASSUME Return PROVE IRepro'
  <2>1. /\ UNCHANGED <<disk, mode, mem, goal, tmp>>
        /\ phase' \in {"walk", "write", "split"}
    BY <1>1, <1>16 DEF Return
  <2>2. CASE phase' = "walk"
    BY <1>5, <2>1, <2>2
  <2>3. CASE phase' \in {"write", "split"}
    <3>1. UNCHANGED <<e, mode, mem, goal, tmp>> /\ OursTold' /\ SavedTold'
      BY <2>1, KeptTold DEF IRepro, disk, source
    <3>2. Marking' /\ Renamed' /\ Saving' /\ Unwritten'
      BY <1>3, <2>3, <3>1 DEF Marking, Renamed, Saving, Unwritten
    <3>3. Aiming'
      BY <1>1, <1>3, <2>3, <3>1 DEF IRepro, Aiming
    <3>4. QED
      BY <3>1, <3>2, <3>3 DEF IRepro
  <2>4. QED
    BY <2>1, <2>2, <2>3
<1>17. QED
  BY <1>8, <1>9, <1>10, <1>11, <1>12, <1>13, <1>14, <1>15, <1>16 DEF Walk

(* The answers.                                                            *)
LEMMA ReproOfAnswer ==
  ASSUME ITypes, IRepro, Answer
  PROVE  IRepro'
<1>1. phase = "ask"
  BY DEF Answer, AnswerBool, AnswerString, AnswerChoice, Abort
<1>2. Proper(e) /\ Full(e, mem)
  BY <1>1, WalkFacts
<1>3. Here \in Entries
  BY <1>1 DEF ITypes, Walks, Named, ChoiceSyms
<1>4. WriteGood(e, mem)
  BY <1>1 DEF IRepro, Marking
<1>5. ASSUME NEW m, NEW i, NEW n, NEW v, Answered(m, i, n, v), WriteGood(e, m)
      PROVE  IRepro'
  <2>1. mem' = m /\ phase' = "walk" /\ UNCHANGED <<disk, mode, goal, tmp>>
    BY <1>5 DEF Answered
  <2>2. QED
    BY <1>1, <1>5, <2>1, WalkRepro
<1>6. ASSUME AnswerBool PROVE IRepro'
  <2>1. PICK v \in {"n", "y"} : Answered(sym_set_tristate_value(mem, Here, v), Here, Here + 1, v)
    BY <1>6 DEF AnswerBool
  <2>2. e[Here].type = "bool"
    BY <1>6 DEF AnswerBool
  <2> DEFINE m == sym_set_tristate_value(mem, Here, v)
  <2>3. WriteGood(e, m)
    BY <1>2, <1>3, <1>4, <2>2, TristateFacts
  <2>4. Answered(m, Here, Here + 1, v)
    BY <2>1
  <2> HIDE DEF m
  <2>5. QED
    BY <1>5, <2>3, <2>4
<1>7. ASSUME AnswerString PROVE IRepro'
  <2>1. PICK v \in Texts : Answered(sym_set_string_value(mem, Here, v), Here, Here + 1, v)
    BY <1>7 DEF AnswerString
  <2> DEFINE m == sym_set_string_value(mem, Here, v)
  <2>2. WriteGood(e, m)
    BY <1>2, <1>3, <1>4, StringFacts
  <2>3. Answered(m, Here, Here + 1, v)
    BY <2>1
  <2> HIDE DEF m
  <2>4. QED
    BY <1>5, <2>2, <2>3
<1>8. ASSUME AnswerChoice PROVE IRepro'
  <2>1. PICK v \in Shown(Here) : Answered(sym_set_tristate_value(mem, v, "y"), Here, e[Here].last + 1, v)
    BY <1>8 DEF AnswerChoice
  <2>2. v \in Entries /\ e[v].choice = Here /\ Here # 0
    BY <1>2, <1>3 DEF Shown, Proper, Symbols, Entries, Ent
  <2>3. e[v].type = "bool"
    BY <1>2, <2>2 DEF Proper, Symbols, Entries, Ent
  <2> DEFINE m == sym_set_tristate_value(mem, v, "y")
  <2>4. WriteGood(e, m)
    BY <1>2, <1>4, <2>2, <2>3, TristateFacts
  <2>5. Answered(m, Here, e[Here].last + 1, v)
    BY <2>1
  <2> HIDE DEF m
  <2>6. QED
    BY <1>5, <2>4, <2>5
<1>9. ASSUME Abort PROVE IRepro'
  <2>1. Idle /\ UNCHANGED disk
    BY <1>9 DEF Abort
  <2>2. QED
    BY <2>1, KeptTold, IdleRepro DEF IRepro
<1>10. QED
  BY <1>6, <1>7, <1>8, <1>9 DEF Answer

(* The writing of .config and of the file of savedefconfig.                *)
LEMMA ReproOfWrite ==
  ASSUME ITypes, IRepro, Write
  PROVE  IRepro'
<1>1. phase \notin {"idle", "walk", "ask"}
  BY DEF Write, WriteTmp, RenameOld, RenameNew, conf_split_config, RenameHeader, RenameAuto,
         conf_write_defconfig
<1>2. Proper(e) /\ Full(e, mem) /\ Sources
  BY <1>1, SourceProper DEF ITypes, Sources, Memory
<1>3. ASSUME WriteTmp PROVE IRepro'
  <2> DEFINE m == IF mem.changed THEN mem ELSE sym_clear_all_valid(mem)
  <2>1. /\ phase = "write" /\ phase' = "old" /\ UNCHANGED <<disk, mode, goal>>
        /\ \E w \in SUBSET {v \in Values \cap m.write : ~m.sol[v].vis} :
             tmp' = FileOf(m, (Named \cap m.write) \ w)
    BY <1>3 DEF WriteTmp
  <2>2. Full(e, m) /\ mem'.sol = m.sol
    BY <1>3, WriteTmpFacts
  <2>3. WriteGood(e, mem)
    BY <2>1 DEF IRepro, Marking
  <2>4. WriteGood(e, m)
    BY <1>2, <2>3, ClearFit DEF Full, Fit
  <2>5. Fit(e, mem) => m.sol = mem.sol
    BY <1>2, ClearFacts DEF Full, Fit
  <2> HIDE DEF m
  <2>6. Tells(e, tmp', m.sol)
    BY <1>2, <2>1, <2>2, <2>4, WrittenTells
  <2>7. Positive(tmp') = AutoOf(e, m.sol)
    BY <1>2, <2>6, TellsPositive
  <2>8. UNCHANGED <<e, mode, goal>> /\ OursTold' /\ SavedTold'
    BY <2>1, KeptTold DEF IRepro, disk, source
  <2>9. Renamed'
    BY <2>6, <2>8 DEF Renamed
  <2>10. Aiming'
    BY <2>1, <2>5, <2>7, <2>8 DEF IRepro, Aiming
  <2>11. Marking' /\ Saving' /\ Unwritten'
    BY <2>1 DEF Marking, Saving, Unwritten
  <2>12. QED
    BY <2>8, <2>9, <2>10, <2>11 DEF IRepro
<1>4. ASSUME RenameOld PROVE IRepro'
  <2>1. /\ phase = "old" /\ phase' = "new" /\ config' = NoFile
        /\ UNCHANGED <<e, minimal, saved, mode, tmp, goal>>
    BY <1>4 DEF RenameOld, source
  <2>2. OursTold' /\ SavedTold'
    BY <2>1 DEF IRepro, OursTold, SavedTold
  <2>3. Marking' /\ Renamed' /\ Saving' /\ Unwritten' /\ Aiming'
    BY <2>1 DEF IRepro, Marking, Renamed, Saving, Unwritten, Aiming
  <2>4. QED
    BY <2>2, <2>3 DEF IRepro
<1>5. ASSUME RenameNew PROVE IRepro'
  <2>1. phase = "new" /\ config' = tmp /\ UNCHANGED <<e, minimal, saved>>
    BY <1>5 DEF RenameNew, source
  <2>6. Idle \/ (phase' = "split" /\ UNCHANGED <<mode, tmp, goal>>)
    BY <1>5 DEF RenameNew
  <2>2. OursTold'
    BY <2>1 DEF IRepro, Renamed, OursTold
  <2>3. SavedTold'
    BY <2>1 DEF IRepro, SavedTold
  <2>4. CASE phase' = "split" /\ UNCHANGED <<mode, tmp, goal>>
    <3>1. Marking' /\ Renamed' /\ Saving' /\ Unwritten' /\ Aiming'
      BY <2>4 DEF IRepro, Marking, Renamed, Saving, Unwritten, Aiming
    <3>2. QED
      BY <2>2, <2>3, <3>1 DEF IRepro
  <2>5. QED
    BY <2>2, <2>3, <2>4, <2>6, IdleRepro
<1>6. ASSUME phase' \in {"header", "auto"},
             UNCHANGED <<e, config, minimal, ours, saved, mode, tmp, goal>>
      PROVE  IRepro'
  <2>1. OursTold' /\ SavedTold'
    BY <1>6 DEF IRepro, OursTold, SavedTold
  <2>2. Marking' /\ Renamed' /\ Saving' /\ Unwritten' /\ Aiming'
    BY <1>6 DEF IRepro, Marking, Renamed, Saving, Unwritten, Aiming
  <2>3. QED
    BY <2>1, <2>2 DEF IRepro
<1>7. ASSUME conf_split_config PROVE IRepro'
  BY <1>6, <1>7 DEF conf_split_config, source
<1>8. ASSUME RenameHeader PROVE IRepro'
  BY <1>6, <1>8 DEF RenameHeader, source
<1>9. ASSUME RenameAuto PROVE IRepro'
  <2>1. Idle /\ UNCHANGED <<e, config, minimal, ours, saved>>
    BY <1>9 DEF RenameAuto, source
  <2>2. OursTold' /\ SavedTold'
    BY <2>1 DEF IRepro, OursTold, SavedTold
  <2>3. QED
    BY <2>1, <2>2, IdleRepro
<1>10. ASSUME conf_write_defconfig PROVE IRepro'
  <2> DEFINE m == sym_clear_all_valid(mem)
  <2>1. /\ phase = "minimal" /\ minimal' = WrittenMinimal(m)
        /\ saved' = IF ours THEN config ELSE NoFile
        /\ Idle /\ UNCHANGED <<e, config, ours>>
    BY <1>10 DEF conf_write_defconfig, source
  <2>2. Fit(e, mem) /\ (ours /\ config # NoFile => Tells(e, config, mem.sol))
    BY <2>1 DEF IRepro, Saving
  <2>3. Full(e, m) /\ WriteGood(e, m) /\ m.sol = mem.sol
    BY <1>2, <2>2, ClearFacts, ClearFit DEF Full, Fit
  <2> HIDE DEF m
  <2>4. Least(e, minimal', mem.sol)
    BY <1>2, <2>1, <2>3, WrittenLeast
  <2>5. minimal' # NoFile
    BY <1>2, <2>1, <2>3, WrittenFile DEF WrittenMinimal
  <2>6. OursTold'
    BY <2>1 DEF IRepro, OursTold
  <2>7. SavedTold'
    <3>1. ASSUME saved' # NoFile PROVE Positive(saved') = AutoOf(e, mem.sol)
      BY <1>2, <2>1, <2>2, <3>1, TellsPositive
    <3>2. QED
      BY <2>1, <2>4, <2>5, <3>1 DEF SavedTold
  <2>8. QED
    BY <2>1, <2>6, <2>7, IdleRepro
<1>11. QED
  BY <1>3, <1>4, <1>5, <1>7, <1>8, <1>9, <1>10 DEF Write

(* A run begins, ...                                                       *)
LEMMA StartRepro ==
  ASSUME ITypes, IRepro, NEW md, NEW told, NEW m, NEW first \in {"walk", "write", "minimal"},
         NEW calls, NEW aim, Start(md, told, m, first, calls, aim),
         Fit(e, m),
         first = "minimal" => (ours /\ config # NoFile => Tells(e, config, m.sol)),
         aim # NoFile => md # "config" /\ aim = AutoOf(e, m.sol) /\ (first = "walk" => Settled(e, m))
  PROVE  IRepro'
<1>1. /\ phase = "idle" /\ mode' = md /\ mem' = m /\ phase' = first /\ goal' = aim
      /\ UNCHANGED <<disk, tmp>>
  BY DEF Start
<1>2. tmp = NoFile
  BY <1>1 DEF IRepro, Unwritten
<1>3. UNCHANGED <<e, config, ours, tmp>> /\ OursTold' /\ SavedTold'
  BY <1>1, KeptTold DEF IRepro, disk, source
<1>4. Marking' /\ Renamed' /\ Saving' /\ Unwritten'
  BY <1>1, <1>2, <1>3 DEF Marking, Renamed, Saving, Unwritten, Fit
<1>5. Aiming'
  BY <1>1, <1>2, <1>3 DEF Aiming
<1>6. QED
  BY <1>3, <1>4, <1>5 DEF IRepro

(* ... on what is there.                                                   *)
LEMMA ReproOfStart ==
  ASSUME ITypes, IRepro, StartSome
  PROVE  IRepro'
<1>1. Proper(e)
  BY SourceProper DEF ITypes, Sources
<1>2. /\ FileOK(config) /\ FileOK(minimal)
      /\ config # NoFile => Lines(config)
      /\ minimal # NoFile => Lines(minimal)
  BY DEF ITypes, Files, FileOK, Lines
<1>3. Full(e, conf_read(config)) /\ Fit(e, conf_read(config))
      /\ Full(e, conf_read(minimal)) /\ Fit(e, conf_read(minimal))
  BY <1>1, <1>2, ConfReadFacts
<1>4. ASSUME ours, config # NoFile
      PROVE  /\ Tells(e, config, conf_read(config).sol)
             /\ Settled(e, conf_read(config))
             /\ Positive(config) = AutoOf(e, conf_read(config).sol)
  <2>1. PICK f : Tells(e, config, f)
    BY <1>4 DEF IRepro, OursTold
  <2>2. conf_read(config).sol = f /\ Settled(e, conf_read(config))
    BY <1>1, <1>2, <1>4, <2>1, ReadOurs
  <2>3. QED
    BY <1>1, <2>1, <2>2, TellsPositive
<1>5. Again # NoFile => /\ Settled(e, conf_read(config))
                        /\ Again = AutoOf(e, conf_read(config).sol)
  BY <1>4 DEF Again
<1>6. ASSUME Config PROVE IRepro'
  BY <1>3, <1>6, StartRepro DEF Config
<1>7. ASSUME OldConfig PROVE IRepro'
  BY <1>3, <1>5, <1>7, StartRepro DEF OldConfig
<1>8. ASSUME SilentOldConfig PROVE IRepro'
  BY <1>3, <1>5, <1>8, StartRepro DEF SilentOldConfig
<1>9. ASSUME SaveDefConfig PROVE IRepro'
  BY <1>3, <1>4, <1>9, StartRepro DEF SaveDefConfig
<1>10. ASSUME DefConfig PROVE IRepro'
  <2> DEFINE m == conf_set_all_new_symbols(conf_read(minimal), "default")
             aim == IF saved = NoFile THEN NoFile ELSE Positive(saved)
  <2>1. minimal # NoFile /\ Start("defconfig", Told(minimal), m, "write", <<>>, aim)
    BY <1>10 DEF DefConfig
  <2>2. Fit(e, m)
    BY <1>1, <1>3, AllNewFacts DEF Full
  <2>3. ASSUME saved # NoFile PROVE Positive(saved) = AutoOf(e, m.sol)
    <3>1. PICK f : Least(e, minimal, f) /\ Positive(saved) = AutoOf(e, f)
      BY <2>3 DEF IRepro, SavedTold
    <3>2. m.sol = f
      BY <1>1, <1>2, <2>1, <3>1, ReadMinimal
    <3>3. QED
      BY <3>1, <3>2
  <2>4. aim # NoFile => aim = AutoOf(e, m.sol)
    BY <2>3
  <2> HIDE DEF m, aim
  <2>5. QED
    BY <2>1, <2>2, <2>4, StartRepro
<1>11. ASSUME NEW md \in AllModes, AllConfig(md) PROVE IRepro'
  <2> DEFINE v == IF md \in {"allyesconfig", "allyespackageconfig"} THEN "y" ELSE "n"
             file == IF md \in PackageModes THEN WithoutPackages(config) ELSE EmptyFile
             m == IF md \in PackageModes THEN conf_read_simple(file) ELSE Parsed
             rule == [n \in {e[s].name : s \in {x \in Named : e[x].type = "bool"}} |-> v]
             new == conf_set_all_new_symbols(m, v)
  <2>1. md \in PackageModes => config # NoFile
    BY <1>11 DEF AllConfig
  <2>2. Start(md, Over(file, rule), new, "write", <<>>, NoFile)
    BY <1>11 DEF AllConfig
  <2>3. v \in {"n", "y"}
    OBVIOUS
  <2>4. Lines(file)
    BY <1>2, <2>1, EmptyLines DEF Lines, WithoutPackages
  <2>5. Held(e, m)
    BY <1>1, <2>4, ReadFacts, ParsedHeld
  <2> HIDE DEF v, file, m, rule
  <2>6. Fit(e, new)
    BY <1>1, <2>3, <2>5, AllNewFacts
  <2> HIDE DEF new
  <2>7. QED
    BY <2>2, <2>6, StartRepro
<1>12. QED
  BY <1>6, <1>7, <1>8, <1>9, <1>10, <1>11 DEF StartSome

(* What happens between two runs.                                          *)
LEMMA ReproOfRest ==
  ASSUME ITypes, IRepro, Upgrade \/ Kill \/ UNCHANGED vars
  PROVE  IRepro'
<1>1. ASSUME Upgrade PROVE IRepro'
  <2>1. phase = "idle" /\ UNCHANGED <<phase, mode, goal, tmp>> /\ ours' = FALSE /\ saved' = NoFile
    BY <1>1 DEF Upgrade, process
  <2>2. QED
    BY <2>1, <2>2 DEF IRepro, OursTold, SavedTold, Marking, Renamed, Saving, Unwritten, Aiming
<1>2. ASSUME Kill PROVE IRepro'
  <2>1. /\ Idle /\ UNCHANGED <<e, config, ours>>
        /\ saved' = NoFile \/ UNCHANGED <<minimal, saved>>
    BY <1>2 DEF Kill, source
  <2>2. OursTold' /\ SavedTold'
    BY <2>1 DEF IRepro, OursTold, SavedTold
  <2>3. QED
    BY <2>1, <2>2, IdleRepro
<1>3. ASSUME UNCHANGED vars PROVE IRepro'
  <2>1. UNCHANGED <<e, config, minimal, ours, saved, mode, phase, mem, tmp, goal>>
    BY <1>3 DEF vars, disk, source, process
  <2>2. QED
    BY <2>1 DEF IRepro, OursTold, SavedTold, Marking, Renamed, Saving, Unwritten, Aiming
<1>4. QED
  BY <1>1, <1>2, <1>3

(* The invariant is kept.                                                  *)
LEMMA ReproStep == ITypes /\ IRepro /\ [Next]_vars => IRepro'
<1> SUFFICES ASSUME ITypes, IRepro, Next \/ UNCHANGED vars PROVE IRepro'
  OBVIOUS
<1>1. CASE Walk
  BY <1>1, ReproOfWalk
<1>2. CASE Answer
  BY <1>2, ReproOfAnswer
<1>3. CASE Write
  BY <1>3, ReproOfWrite
<1>4. CASE StartSome
  BY <1>4, ReproOfStart
<1>5. CASE Upgrade \/ Kill \/ UNCHANGED vars
  BY <1>5, ReproOfRest
<1>6. QED
  BY <1>1, <1>2, <1>3, <1>4, <1>5 DEF Next, Run, Rest

(* The files on the disk tell what they were written for, at any time.     *)
THEOREM Found == Spec => []IRepro
<1>1. Init => IRepro
  BY DEF Init, IRepro, OursTold, SavedTold, Marking, Renamed, Saving, Unwritten, Aiming
<1>2. Spec => [][Next]_vars /\ []ITypes /\ Init
  BY Types DEF Spec
<1>3. QED
  BY <1>1, <1>2, ReproStep, PTL

(* A .config that conf wrote is read back as it is: oldconfig and          *)
(* silentoldconfig ask nothing and write the same values again; and        *)
(* defconfig finds in the file of savedefconfig all that was left out of   *)
(* it (Reproduces).                                                        *)
THEOREM KconfigReproduces == Spec => []Reproduces
<1>1. IRepro => Reproduces
  BY DEF IRepro, Aiming, Reproduces
<1>2. QED
  BY <1>1, Found, PTL

-----------------------------------------------------------------------------
(* Solved, of any entries, any file and any memory it was written from.    *)

(* A text counts where it can be seen.                                     *)
Strings(x, m) ==
  \A s \in NamedIn(x) : x[s].type = "string" /\ m.sol[s].vis /\ m.def[s] # NoFile => s \in m.has

(* What a plain symbol gets from a file is what the file says.             *)
LEMMA ReadPlain ==
  ASSUME Proper(e), NEW file, FileOK(file)
  PROVE  LET o == conf_read(file)
         IN  /\ \A s : Plain(e, s) /\ s \in o.has =>
                  file # NoFile /\ e[s].name \in DOMAIN file /\ o.def[s] = file[e[s].name]
             /\ \A s : Plain(e, s) /\ file # NoFile /\ e[s].name \in DOMAIN file /\ o.sol[s].vis => s \in o.has
             /\ ~o.changed => Strings(e, o)
<1> DEFINE o == conf_read(file)
<1>1. CASE file = NoFile
  <2>1. o = sym_clear_all_valid(Parsed)
    BY <1>1 DEF conf_read, sym_clear_all_valid
  <2>2. o.has = {} /\ o.changed
    BY <2>1, ParsedHeld, ClearFacts
  <2> HIDE DEF o
  <2>3. QED
    BY <1>1, <2>2 DEF o
<1>2. CASE file # NoFile
  <2> DEFINE r == conf_read_simple(file)
             m == Calc(r)
             hidden == {s \in ChoiceSyms \cup (Named \ Values) : ~m.sol[s].vis /\ Unsaved(m) = {}}
  <2>1. /\ Held(e, r)
        /\ r.has = NamedBy(e, file) \cup ChoiceSyms
        /\ \A s \in NamedBy(e, file) : r.def[s] = file[e[s].name]
    BY <1>2, ReadFacts DEF FileOK, Lines
  <2>2. Full(e, m) /\ m.has = r.has /\ m.def = r.def
    BY <2>1, CalcFacts
  <2>3. o = Judged(m)
    BY <1>2 DEF conf_read
  <2>4. o.has = m.has \ (Open(m) \cup hidden) /\ o.def = m.def /\ o.sol = m.sol
    BY <2>2, <2>3, JudgedFacts
  <2>5. Kept(e, o) \/ Settled(e, o)
    BY <1>2, ConfReadFacts
  <2> HIDE DEF m, r, o
  <2>6. \A s : Plain(e, s) => s \in NamedIn(e) /\ s \notin Open(m) /\ s \notin ChoiceSyms
    BY DEF Plain, NamedIn, Open, ChoiceSyms
  <2>7. \A s : Plain(e, s) /\ s \in o.has => s \in NamedBy(e, file)
    BY <2>1, <2>2, <2>4, <2>6
  <2>8. \A s : Plain(e, s) /\ e[s].name \in DOMAIN file /\ o.sol[s].vis => s \in o.has
    BY <2>1, <2>2, <2>4, <2>6 DEF NamedBy
  <2>9. Strings(e, o)
    BY <2>5 DEF Strings, Kept, Settled
  <2>10. \A s : Plain(e, s) /\ s \in o.has => e[s].name \in DOMAIN file /\ o.def[s] = file[e[s].name]
    BY <2>1, <2>2, <2>4, <2>7 DEF NamedBy
  <2>11. QED
    BY <1>2, <2>8, <2>9, <2>10 DEF o
<1>3. QED
  BY <1>1, <1>2

(* The walk gets to s: what s is below is visible, or "y".                 *)
ReachedIn(x, f, s) ==
  \A i \in 1 .. s - 1 : s <= x[i].last => f[i].vis \/ (x[i].type = "bool" /\ f[i].val = "y")

(* What is above a symbol that the walk gets to is not skipped.            *)
LEMMA SeenReached ==
  ASSUME Proper(e), Framed(e), NEW m, Full(e, m), NEW s \in Entries, m.sol[s].vis,
         ReachedIn(e, m.sol, s), NEW h \in 1 .. s, s <= e[h].last
  PROVE  Seen(m)[h]
<1> DEFINE n == Len(e)
           B == {k \in 1 .. s : s <= e[k].last /\ ~Seen(m)[k]}
           b == Max(B)
<1>1. n \in Nat /\ Entries = 1 .. n /\ s \in Nat /\ 1 .. s \subseteq Entries
  BY DEF Proper, Entries
<1>2. \A i \in Entries : e[i].last \in Nat /\ i <= e[i].last
  BY DEF Proper, Symbols, Ent, Entries
<1>3. Solves(e, m.sol)
  BY DEF Full
<1>4. \A i \in Entries : m.sol[i].vis => e[i].prompt
  <2>1. \A i \in Entries : m.sol[i].vis = sym_calc_visibility(e, m.sol, i)
    BY <1>3, SolvesFacts, Current
  <2>2. QED
    BY <2>1 DEF sym_calc_visibility
<1>5. \A i \in Entries : m.sol[i].vis => Seen(m)[i]
  BY <1>4, SeenFacts DEF SeenIs
<1> SUFFICES ASSUME ~Seen(m)[h] PROVE FALSE
  OBVIOUS
<1>6. B \subseteq 0 .. s /\ h \in B
  BY <1>1
<1>7. b \in B /\ \A y \in B : y <= b
  <2> HIDE DEF B
  <2>1. QED
    BY <1>1, <1>6, MaxIn
<1> HIDE DEF b
<1>8. b \in 1 .. s /\ s <= e[b].last /\ ~Seen(m)[b] /\ b \in Entries /\ b # s
  BY <1>1, <1>5, <1>7
<1>9. b < s /\ e[b].last # b
  BY <1>1, <1>2, <1>8
<1>10. e[b].prompt
  BY <1>8, <1>9, Current DEF Framed
<1>11. e[b].type = "bool" /\ m.sol[b].val = "y"
  <2>1. b \in 1 .. s - 1
    BY <1>1, <1>8, <1>9
  <2>2. QED
    BY <1>5, <1>8, <2>1 DEF ReachedIn
<1> DEFINE K == {k \in b + 1 .. s : s <= e[k].last}
           j == Min(K)
<1>12. K \subseteq Nat /\ s \in K
  BY <1>1, <1>2, <1>8, <1>9
<1>13. j \in K /\ \A y \in K : j <= y
  <2> HIDE DEF K
  <2>1. QED
    BY <1>12, MinIn
<1> HIDE DEF j
<1>14. j \in b + 1 .. s /\ s <= e[j].last /\ j \in Entries
  BY <1>1, <1>8, <1>13
<1>15. Seen(m)[j]
  <2>1. j \notin B
    BY <1>1, <1>7, <1>8, <1>14
  <2>2. QED
    BY <1>1, <1>8, <1>14, <2>1
<1>16. ASSUME NEW k \in b + 1 .. j - 1 PROVE e[k].last < j
  <2>1. k \in b + 1 .. s /\ k < j /\ k \in Entries /\ k \in Nat /\ j \in Nat
    BY <1>1, <1>8, <1>14
  <2>2. k \notin K
    BY <1>13, <2>1
  <2>3. e[k].last < s
    BY <1>1, <1>2, <2>1, <2>2
  <2>4. j <= e[k].last => e[j].last <= e[k].last
    BY <1>14, <2>1, Current DEF Framed
  <2>5. QED
    BY <1>1, <1>2, <1>14, <2>1, <2>3, <2>4
<1>17. j \in Children(b)
  <2>1. j \in b + 1 .. e[b].last
    BY <1>1, <1>2, <1>8, <1>14
  <2>2. QED
    BY <1>16, <2>1 DEF Children
<1>18. Seen(m)[b]
  BY <1>8, <1>10, <1>11, <1>15, <1>17, SeenFacts DEF SeenIs
<1>19. QED
  BY <1>8, <1>18

(* Solved, of any entries and any file.                                    *)
ValIn(x, file, s) == IF x[s].name \in DOMAIN file THEN file[x[s].name] ELSE Blank(x, s)
HoldsIn(x, file, c) == \A k \in c : \E l \in k : (ValIn(x, file, l.sym) = l.val) = l.is
VisIn(x, file, s) == x[s].prompt /\ HoldsIn(x, file, x[s].visible)
SelectedIn(x, file, s) == \E c \in x[s].rev : HoldsIn(x, file, c)
GoodIn(x, file, s) == {k \in DOMAIN x[s].defaults : HoldsIn(x, file, x[s].defaults[k].if)}
DefaultIn(x, file, s) ==
  CASE GoodIn(x, file, s) = {} -> Blank(x, s)
    [] GoodIn(x, file, s) # {} /\ x[s].type = "string" -> x[s].defaults[Min(GoodIn(x, file, s))].val
    [] OTHER -> IF HoldsIn(x, file, x[s].defaults[Min(GoodIn(x, file, s))].val) THEN "y" ELSE "n"
Reaches(x, file, s) ==
  \A i \in 1 .. s - 1 :
     s <= x[i].last => VisIn(x, file, i) \/ (x[i].type = "bool" /\ ValIn(x, file, i) = "y")

(* Read in the file that tells of it, a solution is what it is.            *)
LEMMA ReadBack ==
  ASSUME NEW x, Proper(x), Framed(x), NEW file, NEW f, Tells(x, file, f)
  PROVE  \A s \in NamedIn(x) : ValIn(x, file, s) = f[s].val
<1>1. Solves(x, f) /\ Quotes(x, file, f)
  BY DEF Tells
<1>2. PICK m : Given(x, m) /\ f = Sols(x, m)
  BY <1>1 DEF Solves
<1>3. ASSUME NEW s \in NamedIn(x) PROVE ValIn(x, file, s) = f[s].val
  <2>1. CASE s \in NamedBy(x, file)
    BY <1>1, <2>1 DEF ValIn, NamedBy, Quotes
  <2>2. CASE s \notin NamedBy(x, file)
    <3>1. ValIn(x, file, s) = Blank(x, s) /\ ~f[s].write /\ s \in Ent(x)
      BY <1>3, <2>2 DEF ValIn, NamedBy, Tells, NamedIn
    <3>2. CASE x[s].choice # 0
      <4>1. f[s].val = "n" /\ x[s].type = "bool"
        BY <1>1, <3>1, <3>2, SolvesFacts DEF Proper, Symbols
      <4>2. QED
        BY <3>1, <4>1 DEF Blank
    <3>3. CASE x[s].choice = 0
      <4> DEFINE vis == sym_calc_visibility(x, f, s)
                 rev == rev_dep(x, f, s)
                 def == sym_get_default(x, f, s)
                 good == Defaults(x, f, s)
      <4>1. f[s] = SymValue(x, m, f, s)
        BY <1>2, <3>1, SolsFacts DEF IsSol
      <4>2. f[s] = [vis |-> vis, rev |-> rev, write |-> vis \/ rev \/ good # {},
                    default |-> IF rev THEN "y" ELSE def,
                    preset |-> 0, chosen |-> 0,
                    val |-> IF rev THEN "y"
                            ELSE IF vis /\ s \in m.has THEN m.def[s]
                            ELSE def]
        BY <3>3, <4>1, SymValueIs DEF NamedIn
      <4>3. good = {} => def = Blank(x, s)
        BY DEF sym_get_default
      <4> HIDE DEF vis, rev, def, good
      <4>4. /\ f[s].write = (vis \/ rev \/ good # {})
            /\ f[s].val = IF rev THEN "y" ELSE IF vis /\ s \in m.has THEN m.def[s] ELSE def
        BY <4>2
      <4>5. QED
        BY <3>1, <4>3, <4>4
    <3>4. QED
      BY <3>2, <3>3
  <2>3. QED
    BY <2>1, <2>2
<1>4. QED
  BY <1>3

(* ... and so is what depends on it.                                       *)
LEMMA ReadSame ==
  ASSUME NEW x, Proper(x), Framed(x), NEW file, NEW f, Tells(x, file, f), NEW s \in Ent(x)
  PROVE  /\ \A c \in Conditions(x, s) : HoldsIn(x, file, c) = Sat(f, c)
         /\ VisIn(x, file, s) = f[s].vis
         /\ SelectedIn(x, file, s) = rev_dep(x, f, s)
         /\ GoodIn(x, file, s) = Defaults(x, f, s)
         /\ Plain(x, s) => DefaultIn(x, file, s) = sym_get_default(x, f, s)
<1>1. ASSUME NEW c \in Conditions(x, s) PROVE HoldsIn(x, file, c) = Sat(f, c)
  <2>1. \A k \in c : \A l \in k : l.sym \in NamedIn(x)
    BY <1>1 DEF Framed, Syms
  <2>2. \A k \in c : \A l \in k : ValIn(x, file, l.sym) = f[l.sym].val
    BY <2>1, ReadBack
  <2>3. QED
    BY <2>2 DEF HoldsIn, Sat
<1>2. /\ x[s].visible \in Conditions(x, s)
      /\ \A c \in x[s].rev : c \in Conditions(x, s)
      /\ \A k \in DOMAIN x[s].defaults : x[s].defaults[k].if \in Conditions(x, s)
      /\ x[s].type = "bool" => \A k \in DOMAIN x[s].defaults : x[s].defaults[k].val \in Conditions(x, s)
  BY DEF Conditions
<1>3. VisIn(x, file, s) = f[s].vis
  <2>1. f[s].vis = sym_calc_visibility(x, f, s)
    BY SolvesFacts DEF Tells
  <2>2. QED
    BY <1>1, <1>2, <2>1 DEF VisIn, sym_calc_visibility
<1>4. SelectedIn(x, file, s) = rev_dep(x, f, s)
  BY <1>1, <1>2 DEF SelectedIn, rev_dep
<1>5. GoodIn(x, file, s) = Defaults(x, f, s)
  BY <1>1, <1>2 DEF GoodIn, Defaults
<1>6. ASSUME Plain(x, s) PROVE DefaultIn(x, file, s) = sym_get_default(x, f, s)
  <2> DEFINE good == GoodIn(x, file, s)
             d == x[s].defaults[Min(good)].val
  <2>1. good \subseteq DOMAIN x[s].defaults /\ good \subseteq Nat
    BY DEF GoodIn, Proper, Symbols
  <2>2. good # {} => Min(good) \in DOMAIN x[s].defaults
    BY <2>1, MinIn
  <2>3. good # {} /\ x[s].type = "bool" => HoldsIn(x, file, d) = Sat(f, d)
    BY <1>1, <1>2, <2>2
  <2>4. x[s].type \in {"bool", "string"}
    BY <1>6 DEF Plain, NamedIn
  <2>5. sym_get_default(x, f, s) = IF good = {} THEN Blank(x, s)
                                   ELSE IF x[s].type = "string" THEN d
                                   ELSE IF Sat(f, d) THEN "y" ELSE "n"
    BY <1>5 DEF sym_get_default
  <2>6. DefaultIn(x, file, s) = CASE good = {} -> Blank(x, s)
                                  [] good # {} /\ x[s].type = "string" -> d
                                  [] OTHER -> IF HoldsIn(x, file, d) THEN "y" ELSE "n"
    BY DEF DefaultIn
  <2> HIDE DEF good, d
  <2>7. QED
    BY <2>3, <2>4, <2>5, <2>6
<1>7. QED
  BY <1>1, <1>3, <1>4, <1>5, <1>6

SolvedPlain(x, file, said, lost, walked, s) ==
  /\ (x[s].name \in DOMAIN file) =
       (VisIn(x, file, s) \/ SelectedIn(x, file, s) \/ GoodIn(x, file, s) # {})
  /\ CASE SelectedIn(x, file, s) -> ValIn(x, file, s) = "y"
       [] ~SelectedIn(x, file, s) /\ s \in lost -> TRUE
       [] ~SelectedIn(x, file, s) /\ s \notin lost /\ VisIn(x, file, s) /\ x[s].name \in DOMAIN said ->
            \/ ValIn(x, file, s) = said[x[s].name]
            \/ walked /\ ~Reaches(x, file, s) /\ ValIn(x, file, s) = DefaultIn(x, file, s)
       [] OTHER -> ValIn(x, file, s) = DefaultIn(x, file, s)
  /\ walked /\ Reaches(x, file, s) /\ VisIn(x, file, s) /\ ~SelectedIn(x, file, s) =>
       x[s].name \in DOMAIN said \/ s \in lost
SolvedChoice(x, file, pick, c) ==
  LET shown == {v \in x[c].values : VisIn(x, file, v)}
      picked == {v \in x[c].values : ValIn(x, file, v) = "y"}
  IN  /\ picked \subseteq shown
      /\ Cardinality(picked) = IF shown = {} THEN 0 ELSE 1
      /\ pick[c] \in shown => picked = {pick[c]}
SolvedFor(x, file, pick, said, lost, walked) ==
  /\ DOMAIN file \subseteq {x[s].name : s \in NamedIn(x)}
  /\ \A s \in NamedIn(x) \ ValuesIn(x) : SolvedPlain(x, file, said, lost, walked, s)
  /\ \A c \in ChoicesIn(x) : SolvedChoice(x, file, pick, c)

(* What is said of a symbol that is no value of a choice.                  *)
LEMMA PlainSolved ==
  ASSUME NEW x, Proper(x), Framed(x), NEW m, Full(x, m), NEW file, Tells(x, file, m.sol),
         NEW said, NEW lost, NEW walked \in BOOLEAN, NEW s \in NamedIn(x) \ ValuesIn(x),
         Obeys(x, m, lost),
         s \in m.has /\ s \notin lost => x[s].name \in DOMAIN said /\ m.def[s] = said[x[s].name],
         ~walked /\ m.sol[s].vis /\ x[s].name \in DOMAIN said => s \in m.has,
         walked /\ m.sol[s].vis /\ ~m.sol[s].rev /\ ReachedIn(x, m.sol, s) => s \in m.has
  PROVE  SolvedPlain(x, file, said, lost, walked, s)
<1> DEFINE f == m.sol
           val == ValIn(x, file, s)
           vis == VisIn(x, file, s)
           rev == SelectedIn(x, file, s)
           good == GoodIn(x, file, s)
           def == DefaultIn(x, file, s)
           reached == Reaches(x, file, s)
           n == x[s].name
<1>1. Solves(x, f) /\ s \in Ent(x) /\ s \in NamedIn(x) /\ x[s].choice = 0 /\ Plain(x, s)
  BY DEF Full, NamedIn, ValuesIn, Plain
<1>2. PICK o : Given(x, o) /\ f = Sols(x, o)
  BY <1>1 DEF Solves
<1>3. /\ val = f[s].val /\ vis = f[s].vis /\ rev = rev_dep(x, f, s)
      /\ good = Defaults(x, f, s) /\ def = sym_get_default(x, f, s)
  BY <1>1, ReadBack, ReadSame
<1>4. /\ f[s].vis = sym_calc_visibility(x, f, s)
      /\ f[s].rev = rev_dep(x, f, s)
      /\ f[s].val = IF f[s].rev THEN "y"
                    ELSE IF f[s].vis /\ s \in o.has THEN o.def[s]
                    ELSE sym_get_default(x, f, s)
  BY <1>1, <1>2, PlainIs
<1>5. f[s].write = (vis \/ rev \/ good # {})
  <2>1. f[s] = SymValue(x, o, f, s)
    BY <1>1, <1>2, SolsFacts DEF IsSol
  <2> DEFINE a == sym_calc_visibility(x, f, s)
             b == rev_dep(x, f, s)
             d == sym_get_default(x, f, s)
             g == Defaults(x, f, s)
  <2>2. f[s] = [vis |-> a, rev |-> b, write |-> a \/ b \/ g # {},
                default |-> IF b THEN "y" ELSE d, preset |-> 0, chosen |-> 0,
                val |-> IF b THEN "y" ELSE IF a /\ s \in o.has THEN o.def[s] ELSE d]
    BY <1>1, <2>1, SymValueIs DEF Plain, NamedIn
  <2> HIDE DEF a, b, d, g
  <2>3. f[s].write = (a \/ b \/ g # {})
    BY <2>2
  <2>4. QED
    BY <1>3, <1>4, <2>3 DEF a, b, g
<1>6. reached = ReachedIn(x, f, s)
  <2>1. \A i \in 1 .. s - 1 : i \in Ent(x)
    BY <1>1 DEF Ent, Proper
  <2>2. \A i \in 1 .. s - 1 : VisIn(x, file, i) = f[i].vis
    BY <2>1, ReadSame
  <2>3. \A i \in 1 .. s - 1 : x[i].type = "bool" => ValIn(x, file, i) = f[i].val
    BY <2>1, ReadBack DEF NamedIn
  <2>4. QED
    BY <2>2, <2>3 DEF Reaches, ReachedIn
<1>7. (n \in DOMAIN file) = f[s].write
  <2>1. n \in DOMAIN file => s \in NamedBy(x, file)
    BY <1>1 DEF NamedBy
  <2>2. f[s].write => n \in DOMAIN file
    BY <1>1 DEF Tells, NamedBy
  <2>3. n \in DOMAIN file => f[s].write
    BY <1>1, <2>1 DEF Tells
  <2>4. f[s].write \in BOOLEAN
    BY <1>5
  <2>5. QED
    BY <2>2, <2>3, <2>4
<1>8. /\ f[s].vis \in BOOLEAN /\ f[s].rev \in BOOLEAN
      /\ s \notin lost /\ f[s].vis /\ ~f[s].rev => f[s].val = IF s \in m.has THEN m.def[s] ELSE def
  BY <1>1, <1>3, SolvesFacts DEF Obeys
<1>9. vis = f[s].vis /\ rev = f[s].rev /\ val = f[s].val
  BY <1>3, <1>4
<1>10. /\ f[s].rev => f[s].val = "y"
       /\ ~f[s].rev /\ ~f[s].vis => f[s].val = def
  BY <1>3, <1>4
<1> DEFINE heard == x[s].name \in DOMAIN said
<1>11. /\ s \in m.has /\ s \notin lost => heard /\ m.def[s] = said[n]
       /\ ~walked /\ f[s].vis /\ heard => s \in m.has
       /\ walked /\ f[s].vis /\ ~f[s].rev /\ reached => s \in m.has
  BY <1>6
<1>12. SolvedPlain(x, file, said, lost, walked, s) <=>
         /\ (n \in DOMAIN file) = (vis \/ rev \/ good # {})
         /\ CASE rev -> val = "y"
              [] ~rev /\ s \in lost -> TRUE
              [] ~rev /\ s \notin lost /\ vis /\ heard -> val = said[n] \/ (walked /\ ~reached /\ val = def)
              [] OTHER -> val = def
         /\ walked /\ reached /\ vis /\ ~rev => heard \/ s \in lost
  BY DEF SolvedPlain
<1>13. reached \in BOOLEAN
  BY DEF Reaches
<1> HIDE DEF f, val, vis, rev, good, def, reached, n, heard
<1>14. CASE f[s].rev
  BY <1>5, <1>7, <1>8, <1>9, <1>10, <1>12, <1>14
<1>15. CASE ~f[s].rev /\ s \in lost
  BY <1>5, <1>7, <1>8, <1>9, <1>12, <1>15
<1>16. CASE ~f[s].rev /\ s \notin lost /\ ~f[s].vis
  BY <1>5, <1>7, <1>8, <1>9, <1>10, <1>12, <1>16
<1>17. CASE ~f[s].rev /\ s \notin lost /\ f[s].vis /\ s \in m.has
  BY <1>5, <1>7, <1>8, <1>9, <1>11, <1>12, <1>17
<1>18. CASE ~f[s].rev /\ s \notin lost /\ f[s].vis /\ s \notin m.has
  BY <1>5, <1>7, <1>8, <1>9, <1>11, <1>12, <1>13, <1>18
<1>19. QED
  BY <1>8, <1>14, <1>15, <1>16, <1>17, <1>18

(* What is said of a choice.                                               *)
LEMMA ChoiceSolved ==
  ASSUME NEW x, Proper(x), Framed(x), NEW m, Full(x, m), NEW file, Tells(x, file, m.sol),
         NEW lost, Obeys(x, m, lost), NEW c \in ChoicesIn(x)
  PROVE  SolvedChoice(x, file, m.pick, c)
<1> DEFINE f == m.sol
           shown == {v \in x[c].values : VisIn(x, file, v)}
           picked == {v \in x[c].values : ValIn(x, file, v) = "y"}
<1>1. Solves(x, f) /\ c \in Ent(x) /\ x[c].type = "choice" /\ x[c].prompt
  BY DEF Full, ChoicesIn, Framed
<1>2. ASSUME NEW v \in x[c].values
      PROVE  /\ v \in Ent(x) /\ v \in NamedIn(x) /\ v # 0 /\ x[v].choice = c
             /\ ValIn(x, file, v) = f[v].val /\ VisIn(x, file, v) = f[v].vis
             /\ f[v].vis = sym_calc_visibility(x, f, v)
             /\ f[v].val = "y" <=> f[v].vis /\ f[c].chosen = v
             /\ f[v].vis => f[c].vis
  <2>1. v \in Ent(x) /\ x[v].choice = c /\ v # 0 /\ c # 0
    BY <1>1 DEF Proper, Symbols, Ent
  <2>2. v \in NamedIn(x) /\ v \in ValuesIn(x)
    BY <2>1 DEF Proper, Symbols, NamedIn, ValuesIn
  <2>3. f[v].vis = sym_calc_visibility(x, f, v) /\ f[c].vis = sym_calc_visibility(x, f, c)
    BY <1>1, <2>1, SolvesFacts
  <2>4. f[v].val = "y" <=> f[v].vis /\ f[c].chosen = v
    BY <1>1, <2>1, SolvesFacts
  <2>5. x[c].visible \subseteq x[v].visible
    BY <2>1, <2>2 DEF Framed
  <2>6. f[v].vis => f[c].vis
    BY <1>1, <2>3, <2>5 DEF sym_calc_visibility, Sat
  <2>7. ValIn(x, file, v) = f[v].val /\ VisIn(x, file, v) = f[v].vis
    BY <2>1, <2>2, ReadBack, ReadSame
  <2>8. QED
    BY <2>1, <2>2, <2>3, <2>4, <2>6, <2>7
<1>3. /\ f[c].chosen \in {0} \cup Choosable(x, f, c)
      /\ f[c].vis /\ Choosable(x, f, c) # {} => f[c].chosen # 0
  BY <1>1, SolvesMore
<1>4. f[c].vis => sym_calc_choice(x, m, f, c) = f[c].chosen
  BY DEF Obeys
<1>5. shown = Choosable(x, f, c)
  BY <1>2 DEF Choosable
<1>6. picked = {v \in shown : v = f[c].chosen}
  BY <1>2
<1>7. \A v \in shown : v # 0 /\ f[c].vis
  BY <1>2
<1>8. f[c].vis /\ m.pick[c] \in shown => f[c].chosen = m.pick[c]
  BY <1>4, <1>5 DEF sym_calc_choice
<1>9. SolvedChoice(x, file, m.pick, c) <=>
        /\ picked \subseteq shown
        /\ Cardinality(picked) = IF shown = {} THEN 0 ELSE 1
        /\ m.pick[c] \in shown => picked = {m.pick[c]}
  BY DEF SolvedChoice
<1> HIDE DEF shown, picked, f
<1>10. CASE shown = {}
  <2>1. picked = {}
    BY <1>6, <1>10
  <2>2. Cardinality(picked) = 0
    BY <2>1, FS_EmptySet
  <2>3. QED
    BY <1>9, <1>10, <2>1, <2>2
<1>11. CASE shown # {}
  <2>1. f[c].vis /\ f[c].chosen \in shown
    BY <1>3, <1>5, <1>7, <1>11
  <2>2. picked = {f[c].chosen}
    BY <1>6, <2>1
  <2>3. Cardinality(picked) = 1
    BY <2>2, FS_Singleton
  <2>4. QED
    BY <1>8, <1>9, <1>11, <2>1, <2>2, <2>3
<1>12. QED
  BY <1>10, <1>11

(* A memory of which what was given was said, and that the walk has been   *)
(* over, is written as Solved wants it.                                    *)
LEMMA SolvedWritten ==
  ASSUME NEW x, Proper(x), Framed(x), NEW m, Full(x, m), NEW file, Tells(x, file, m.sol),
         NEW said, NEW lost, NEW walked \in BOOLEAN, Obeys(x, m, lost),
         \A s : Plain(x, s) /\ s \in m.has /\ s \notin lost =>
            x[s].name \in DOMAIN said /\ m.def[s] = said[x[s].name],
         ~walked => \A s : Plain(x, s) /\ m.sol[s].vis /\ x[s].name \in DOMAIN said => s \in m.has,
         walked => \A s : Plain(x, s) /\ m.sol[s].vis /\ ~m.sol[s].rev /\ ReachedIn(x, m.sol, s) => s \in m.has
  PROVE  SolvedFor(x, file, m.pick, said, lost, walked)
<1>1. DOMAIN file \subseteq {x[s].name : s \in NamedIn(x)}
  BY DEF Tells, Quotes
<1>2. ASSUME NEW s \in NamedIn(x) \ ValuesIn(x) PROVE SolvedPlain(x, file, said, lost, walked, s)
  <2>1. Plain(x, s)
    BY <1>2 DEF Plain, NamedIn, ValuesIn
  <2>2. QED
    BY <2>1, PlainSolved
<1>3. QED
  BY <1>1, <1>2, ChoiceSolved DEF SolvedFor

-----------------------------------------------------------------------------
(* What is written is the solution for what was said.                      *)
Walkers == {"config", "oldconfig", "silentoldconfig"}
Lately == phase \in {"walk", "ask", "write"}
Final == tmp # NoFile => SolvedFor(e, tmp, mem.pick, wish, excused, mode \in Walkers)

(* The two say the same.                                                   *)
LEMMA FinalSolved == Final => Solved
<1> SUFFICES ASSUME Final, tmp # NoFile PROVE Solved
  BY DEF Solved
<1>1. SolvedFor(e, tmp, mem.pick, wish, excused, mode \in Walkers)
  BY DEF Final
<1>2. DOMAIN tmp \subseteq {e[s].name : s \in Named}
  BY <1>1, Current DEF SolvedFor
<1>3. \A s \in Named \ Values : SolvedPlain(e, tmp, wish, excused, mode \in Walkers, s)
  BY <1>1, Current DEF SolvedFor
<1>4. \A c \in ChoiceSyms : SolvedChoice(e, tmp, mem.pick, c)
  BY <1>1, Current DEF SolvedFor
<1>5. QED
  BY <1>2, <1>3, <1>4 DEF Solved, SolvedPlain, SolvedChoice, Walkers, ValIn, HoldsIn, VisIn,
     SelectedIn, GoodIn, DefaultIn, Reaches

(* What counts is what was said, but for what is lost; and as long as      *)
(* nothing has changed, the values are those of what counts.               *)
Honest(x, m, said, lost) ==
  /\ \A s : Plain(x, s) /\ s \in m.has /\ s \notin lost =>
        x[s].name \in DOMAIN said /\ m.def[s] = said[x[s].name]
  /\ Obeys(x, m, lost)
  /\ ~m.changed => Fit(x, m) /\ Strings(x, m)

(* More may be taken for lost.                                             *)
LEMMA MoreLost ==
  ASSUME NEW x, NEW m, NEW said, NEW E, NEW G, E \subseteq G, Honest(x, m, said, E)
  PROVE  Honest(x, m, said, G)
BY DEF Honest, Obeys

(* What menu_is_visible marks was not said.                                *)
LEMMA MarkedHonest ==
  ASSUME Proper(e), NEW m, Full(e, m), NEW said, NEW E, Honest(e, m, said, E), NEW i \in Entries
  PROVE  Honest(e, Marked(m, i), said, E \cup (Marks(m, i) \ m.has))
<1> DEFINE o == Marked(m, i)
           G == E \cup (Marks(m, i) \ m.has)
<1>1. /\ o.has = m.has \cup Marks(m, i)
      /\ o.def = m.def /\ o.sol = m.sol /\ o.changed = m.changed
      /\ Fit(e, m) => Fit(e, o)
      /\ \A F : Obeys(e, m, F) => Obeys(e, o, F)
  BY MarkedFacts
<1> HIDE DEF o
<1>2. Honest(e, m, said, G)
  BY MoreLost
<1>3. Obeys(e, o, G)
  BY <1>1, <1>2 DEF Honest
<1>4. ASSUME ~o.changed PROVE Fit(e, o) /\ Strings(e, o)
  BY <1>1, <1>2, <1>4 DEF Honest, Strings
<1>5. ASSUME NEW s, Plain(e, s), s \in o.has, s \notin G
      PROVE  e[s].name \in DOMAIN said /\ o.def[s] = said[e[s].name]
  <2>1. s \in m.has
    BY <1>1, <1>5
  <2>2. QED
    BY <1>1, <1>2, <1>5, <2>1 DEF Honest
<1> HIDE DEF G
<1>6. QED
  BY <1>3, <1>4, <1>5 DEF Honest, o, G

(* A boolean is said.                                                      *)
LEMMA TristateHonest ==
  ASSUME Proper(e), NEW m, Full(e, m), NEW said, NEW E, Honest(e, m, said, E),
         NEW s \in Entries, e[s].type = "bool", NEW v, v \in {"n", "y"}, NEW told,
         \A r : Plain(e, r) /\ r # s /\ e[r].name \in DOMAIN said =>
            e[r].name \in DOMAIN told /\ told[e[r].name] = said[e[r].name],
         Plain(e, s) => e[s].name \in DOMAIN told /\ told[e[s].name] = v
  PROVE  Honest(e, sym_set_tristate_value(m, s, v), told, E \ {s})
<1> DEFINE o == sym_set_tristate_value(m, s, v)
<1>1. /\ m.has \subseteq o.has
      /\ o.def = [m.def EXCEPT ![s] = v]
      /\ \A r \in NamedIn(e) : e[r].choice = 0 /\ r # s => (r \in o.has <=> r \in m.has)
  BY TristateFacts
<1>2. Obeys(e, o, E \ {s})
  BY TristateFacts DEF Honest
<1>3. /\ Fit(e, m) => Fit(e, o)
      /\ o.changed \/ (o.sol = m.sol /\ o.changed = m.changed)
  BY TristateKeeps
<1> HIDE DEF o
<1>4. \A r \in Entries : o.def[r] = IF r = s THEN v ELSE m.def[r]
  BY <1>1, Current DEF Full, Held, Given
<1>5. ASSUME ~o.changed PROVE Fit(e, o) /\ Strings(e, o)
  <2>1. o.sol = m.sol /\ ~m.changed
    BY <1>3, <1>5
  <2>2. Fit(e, m) /\ Strings(e, m)
    BY <2>1 DEF Honest
  <2>3. \A r \in NamedIn(e) : e[r].type = "string" => o.def[r] = m.def[r]
    BY <1>4, Current DEF NamedIn
  <2>4. QED
    BY <1>1, <1>3, <2>1, <2>2, <2>3 DEF Strings
<1>6. ASSUME NEW r, Plain(e, r), r \in o.has, r \notin E \ {s}
      PROVE  e[r].name \in DOMAIN told /\ o.def[r] = told[e[r].name]
  <2>1. r \in Entries /\ r \in NamedIn(e) /\ e[r].choice = 0
    BY <1>6, Current DEF Plain, NamedIn
  <2>2. CASE r = s
    BY <1>4, <1>6, <2>1, <2>2
  <2>3. CASE r # s
    <3>1. r \in m.has /\ r \notin E /\ o.def[r] = m.def[r]
      BY <1>1, <1>4, <1>6, <2>1, <2>3
    <3>2. e[r].name \in DOMAIN said /\ m.def[r] = said[e[r].name]
      BY <1>6, <3>1 DEF Honest
    <3>3. QED
      BY <1>6, <2>3, <3>1, <3>2
  <2>4. QED
    BY <2>2, <2>3
<1>7. QED
  BY <1>2, <1>5, <1>6 DEF Honest, o

(* A text is said: lost, if it is the text that was given before.          *)
LEMMA StringHonest ==
  ASSUME Proper(e), NEW m, Full(e, m), NEW said, NEW E, Honest(e, m, said, E),
         NEW s \in Entries, e[s].type = "string", NEW v \in Texts, NEW told,
         \A r : Plain(e, r) /\ r # s /\ e[r].name \in DOMAIN said =>
            e[r].name \in DOMAIN told /\ told[e[r].name] = said[e[r].name],
         Plain(e, s) => e[s].name \in DOMAIN told /\ told[e[s].name] = v,
         NEW G, E \subseteq G, v = m.def[s] /\ v # m.sol[s].val => s \in G
  PROVE  Honest(e, sym_set_string_value(m, s, v), told, G)
<1> DEFINE o == sym_set_string_value(m, s, v)
<1>1. o.has = m.has \cup {s} /\ o.def = [m.def EXCEPT ![s] = v]
  BY StringFacts
<1>2. Obeys(e, o, G)
  BY StringFacts DEF Honest
<1>3. /\ Fit(e, m) /\ (m.def[s] = v /\ m.sol[s].vis => s \in m.has) => Fit(e, o)
      /\ m.def[s] # v => o.changed
      /\ o.changed \/ (o.sol = m.sol /\ o.changed = m.changed)
  BY StringFacts
<1> HIDE DEF o
<1>4. \A r \in Entries : o.def[r] = IF r = s THEN v ELSE m.def[r]
  BY <1>1, Current DEF Full, Held, Given
<1>5. ASSUME ~o.changed PROVE Fit(e, o) /\ Strings(e, o)
  <2>1. o.sol = m.sol /\ ~m.changed /\ m.def[s] = v
    BY <1>3, <1>5
  <2>2. Fit(e, m) /\ Strings(e, m)
    BY <2>1 DEF Honest
  <2>3. v # NoFile
    BY NoFileAssumption DEF Contents
  <2>4. m.sol[s].vis => s \in m.has
    BY <2>1, <2>2, <2>3, Current DEF Strings, NamedIn
  <2>5. Strings(e, o)
    BY <1>1, <1>4, <2>1, <2>2, Current DEF Strings, NamedIn
  <2>6. QED
    BY <1>3, <2>2, <2>4, <2>5
<1>6. ASSUME NEW r, Plain(e, r), r \in o.has, r \notin G
      PROVE  e[r].name \in DOMAIN told /\ o.def[r] = told[e[r].name]
  <2>1. r \in Entries
    BY <1>6, Current DEF Plain, NamedIn
  <2>2. CASE r = s
    BY <1>4, <1>6, <2>1, <2>2
  <2>3. CASE r # s
    <3>1. r \in m.has /\ r \notin E /\ o.def[r] = m.def[r]
      BY <1>1, <1>4, <1>6, <2>1, <2>3
    <3>2. e[r].name \in DOMAIN said /\ m.def[r] = said[e[r].name]
      BY <1>6, <3>1 DEF Honest
    <3>3. QED
      BY <1>6, <2>3, <3>1, <3>2
  <2>4. QED
    BY <2>2, <2>3
<1>7. QED
  BY <1>2, <1>5, <1>6 DEF Honest, o

(* Where the walk has been, what it gets to has a value; and in the end    *)
(* everything it gets to.                                                  *)
Asked(x, m, n) ==
  \A s : Plain(x, s) /\ s < n /\ m.sol[s].vis /\ ~m.sol[s].rev /\ ReachedIn(x, m.sol, s) => s \in m.has
Hearing == Lately => Honest(e, mem, wish, excused)
Calling == phase \in {"walk", "ask"} =>
             /\ mode \in Walkers
             /\ stack[1].to = Len(e)
             /\ mode # "config" => stack[1].op = "check"
             /\ Len(stack) > 1 => again
             /\ phase = "ask" => Top.op = "conf"
Passing == phase = "walk" /\ stack[1].op = "check" /\ ~again => Asked(e, mem, stack[1].at)
Passed == phase = "write" =>
            IF mode \in Walkers THEN Asked(e, mem, Len(e) + 1)
            ELSE \A s : Plain(e, s) /\ mem.sol[s].vis /\ e[s].name \in DOMAIN wish => s \in mem.has
ISolved == Hearing /\ Calling /\ Passing /\ Passed /\ Final

(* The walk goes on.                                                       *)
LEMMA WalkSolved ==
  ASSUME phase' = "walk", tmp' = NoFile, Honest(e', mem', wish', excused'), Calling', Passing'
  PROVE  ISolved'
BY DEF ISolved, Hearing, Passed, Final, Lately

(* A run that is over has written nothing.                                 *)
LEMMA IdleSolved ==
  ASSUME Idle
  PROVE  ISolved'
BY DEF Idle, ISolved, Hearing, Calling, Passing, Passed, Final, Lately

(* The call at the bottom of the stack, when the one on top moves on.      *)
LEMMA Bottom ==
  ASSUME ITypes, phase \in {"walk", "ask"}, NEW n \in 1 .. Len(e) + 1
  PROVE  /\ Len(stack) \in Nat \ {0} /\ Len(Goto(n)) = Len(stack)
         /\ Goto(n)[1].op = stack[1].op /\ Goto(n)[1].to = stack[1].to
         /\ Goto(n)[1].at = IF Len(stack) = 1 THEN n ELSE stack[1].at
         /\ Goto(n)[Len(stack)].op = Top.op
         /\ Len(stack) = 1 => stack[1] = Top
<1>1. stack \in Seq(Calls(Len(e))) /\ stack # <<>>
  BY DEF ITypes, Walks
<1>2. Len(stack) \in Nat \ {0} /\ stack[Len(stack)] \in Calls(Len(e))
  BY <1>1, Stacks
<1>3. /\ Goto(n) = [stack EXCEPT ![Len(stack)] = [Top EXCEPT !.at = n]]
      /\ Len(Goto(n)) = Len(stack)
  BY WalkFacts
<1>4. DOMAIN stack = 1 .. Len(stack)
  BY <1>1
<1>5. [Top EXCEPT !.at = n].at = n /\ [Top EXCEPT !.at = n].op = Top.op
      /\ [Top EXCEPT !.at = n].to = Top.to
  BY <1>2 DEF Calls, Top
<1> DEFINE t == [Top EXCEPT !.at = n]
           g == Goto(n)
<1> HIDE DEF t, g
<1>6. g[1] = IF Len(stack) = 1 THEN t ELSE stack[1]
  BY <1>2, <1>3, <1>4 DEF t, g
<1>7. g[Len(stack)] = t
  BY <1>2, <1>3, <1>4 DEF t, g
<1>8. Len(stack) = 1 => stack[1] = Top
  BY DEF Top
<1>9. QED
  BY <1>2, <1>3, <1>5, <1>6, <1>7, <1>8 DEF t, g

(* The entry is left.                                                      *)
LEMMA LeaveSolved ==
  ASSUME ITypes, ISolved, phase = "walk", tmp = NoFile, NEW m, NEW n \in 1 .. Len(e) + 1, Leave(m, n),
         Honest(e, m, wish, excused \cup (Marks(mem, Here) \ mem.has)),
         Top.op = "check" /\ ~again => Asked(e, m, n)
  PROVE  ISolved'
<1>1. /\ mem' = m /\ stack' = Goto(n) /\ excused' = excused \cup (Marks(mem, Here) \ mem.has)
      /\ UNCHANGED <<e, mode, phase, again, tmp, wish>>
  BY DEF Leave, disk, source
<1>2. Calling /\ Passing
  BY DEF ISolved
<1>3. /\ Len(stack) \in Nat \ {0} /\ Len(Goto(n)) = Len(stack)
      /\ Goto(n)[1].op = stack[1].op /\ Goto(n)[1].to = stack[1].to
      /\ Goto(n)[1].at = IF Len(stack) = 1 THEN n ELSE stack[1].at
      /\ Len(stack) = 1 => stack[1] = Top
  BY Bottom
<1>4. Calling'
  BY <1>1, <1>2, <1>3 DEF Calling
<1>5. Passing'
  <2>1. ASSUME stack'[1].op = "check", ~again PROVE Asked(e, m, stack'[1].at)
    <3>1. Len(stack) = 1
      BY <1>2, <1>3, <2>1 DEF Calling
    <3>2. QED
      BY <1>1, <1>3, <2>1, <3>1
  <2>2. QED
    BY <1>1, <2>1 DEF Passing
<1>6. QED
  BY <1>1, <1>4, <1>5, WalkSolved

(* check_conf and conf.                                                    *)
LEMMA SolvedOfWalk ==
  ASSUME ITypes, IRepro, ISolved, Walk
  PROVE  ISolved'
<1>1. phase = "walk"
  BY DEF Walk, SkipHidden, CheckOld, CheckNew, ConfText, ConfMenu, ConfOld, ConfOldChoice, Ask, Return, Walking
<1>2. /\ Proper(e) /\ Len(e) \in Nat /\ Full(e, mem)
      /\ Here \in 1 .. Len(e) + 1
      /\ Here <= Top.to => Here \in Entries
      /\ \A i \in Entries : e[i].last + 1 \in 1 .. Len(e) + 1 /\ i + 1 \in 1 .. Len(e) + 1
  BY <1>1, WalkFacts
<1>3. Framed(e)
  BY SourceProper DEF ITypes, Sources
<1>4. tmp = NoFile /\ Honest(e, mem, wish, excused) /\ Calling /\ Passing
  BY <1>1 DEF IRepro, Unwritten, ISolved, Hearing, Lately
<1>5. /\ Len(stack) \in Nat \ {0}
      /\ Len(stack) = 1 => stack[1] = Top
  BY <1>1, <1>2, Bottom
<1>0. Len(stack) > 1 \/ Len(stack) = 1
  BY <1>5
<1>6. Top.op = "check" /\ ~again => Asked(e, mem, Here)
  <2>1. ~again => Len(stack) = 1
    BY <1>0, <1>1, <1>4 DEF Calling
  <2>2. ~again => stack[1] = Top
    BY <1>5, <2>1
  <2>3. QED
    BY <1>1, <1>4, <2>2 DEF Passing, Here
<1>7. ASSUME NEW n \in 1 .. Len(e) + 1, Leave(mem, n), Top.op = "check" /\ ~again => Asked(e, mem, n)
      PROVE  ISolved'
  <2>1. Honest(e, mem, wish, excused \cup (Marks(mem, Here) \ mem.has))
    BY <1>4, MoreLost
  <2>2. QED
    BY <1>1, <1>4, <1>7, <2>1, LeaveSolved
<1>8. ASSUME Here \in Entries, Leave(Marked(mem, Here), Here + 1),
             Top.op = "check" => ~IsNew(Marked(mem, Here), Here)
      PROVE  ISolved'
  <2> DEFINE m == Marked(mem, Here)
  <2>1. Honest(e, m, wish, excused \cup (Marks(mem, Here) \ mem.has))
    BY <1>2, <1>4, <1>8, MarkedHonest
  <2>2. m.has = mem.has \cup Marks(mem, Here) /\ m.sol = mem.sol
    BY <1>2, <1>8, MarkedFacts
  <2>3. Leave(m, Here + 1) /\ (Top.op = "check" => ~IsNew(m, Here))
    BY <1>8
  <2> HIDE DEF m
  <2>4. ASSUME Top.op = "check", ~again PROVE Asked(e, m, Here + 1)
    <3>1. ASSUME NEW s, Plain(e, s), s < Here + 1, m.sol[s].vis, ~m.sol[s].rev, ReachedIn(e, m.sol, s)
          PROVE  s \in m.has
      <4>1. s \in Nat /\ Here \in Nat /\ s \in Named
        BY <1>2, <3>1, Current DEF Plain, NamedIn, Ent
      <4>2. CASE s = Here
        <5>1. sym_is_changable(m, Here)
          BY <3>1, <4>2 DEF sym_is_changable
        <5>2. QED
          BY <2>3, <2>4, <4>1, <4>2, <5>1 DEF IsNew
      <4>3. CASE s # Here
        <5>1. s < Here
          BY <3>1, <4>1, <4>3
        <5>2. s \in mem.has
          BY <1>6, <2>2, <2>4, <3>1, <5>1 DEF Asked
        <5>3. QED
          BY <2>2, <5>2
      <4>4. QED
        BY <4>2, <4>3
    <3>2. QED
      BY <3>1 DEF Asked
  <2>5. Here + 1 \in 1 .. Len(e) + 1
    BY <1>2, <1>8
  <2>6. QED
    BY <1>1, <1>4, <2>1, <2>3, <2>4, <2>5, LeaveSolved
<1>9. ASSUME SkipHidden PROVE ISolved'
  <2>1. Here \in Entries /\ ~Seen(mem)[Here] /\ Leave(mem, e[Here].last + 1)
    BY <1>2, <1>9 DEF SkipHidden
  <2>2. ASSUME Top.op = "check", ~again PROVE Asked(e, mem, e[Here].last + 1)
    <3>1. ASSUME NEW s, Plain(e, s), s < e[Here].last + 1, mem.sol[s].vis, ~mem.sol[s].rev,
                 ReachedIn(e, mem.sol, s)
          PROVE  s \in mem.has
      <4>1. s \in Nat /\ Here \in Nat /\ s \in Entries /\ e[Here].last \in Nat
        BY <1>2, <2>1, <3>1, Current DEF Plain, NamedIn, Ent, Entries, Proper, Symbols
      <4>2. CASE s < Here
        BY <1>6, <2>2, <3>1, <4>2 DEF Asked
      <4>3. CASE ~(s < Here)
        <5>1. Here \in 1 .. s /\ s <= e[Here].last
          BY <1>2, <3>1, <4>1, <4>3
        <5>2. Seen(mem)[Here]
          BY <1>2, <1>3, <3>1, <4>1, <5>1, SeenReached
        <5>3. QED
          BY <2>1, <5>2
      <4>4. QED
        BY <4>2, <4>3
    <3>2. QED
      BY <3>1 DEF Asked
  <2>3. QED
    BY <1>2, <1>7, <2>1, <2>2
<1>10. ASSUME CheckOld PROVE ISolved'
  BY <1>2, <1>8, <1>10 DEF CheckOld, Walking
<1>11. ASSUME ConfText PROVE ISolved'
  <2>1. Here \in Entries /\ Leave(mem, Here + 1) /\ Top.op # "check"
    BY <1>2, <1>11 DEF ConfText, Walking
  <2>2. QED
    BY <1>2, <1>7, <2>1
<1>12. ASSUME ConfOld PROVE ISolved'
  <2>1. Here \in Entries /\ Leave(Marked(mem, Here), Here + 1) /\ Top.op # "check"
    BY <1>2, <1>12 DEF ConfOld, Walking
  <2>2. QED
    BY <1>8, <2>1
<1>13. ASSUME ConfOldChoice PROVE ISolved'
  <2>1. Here \in ChoiceSyms /\ Here \in Entries /\ Top.op # "check"
        /\ Leave(IF mem.sol[Here].val = "n" THEN mem
                 ELSE sym_set_tristate_value(mem, mem.sol[Here].chosen, "y"), e[Here].last + 1)
    BY <1>2, <1>13 DEF ConfOldChoice, Walking
  <2>2. CASE mem.sol[Here].val = "n"
    BY <1>2, <1>7, <2>1, <2>2
  <2>3. CASE mem.sol[Here].val # "n"
    <3> DEFINE v == mem.sol[Here].chosen
               m == sym_set_tristate_value(mem, v, "y")
               E == excused \cup (Marks(mem, Here) \ mem.has)
    <3>1. v \in Entries /\ e[v].type = "bool" /\ e[v].choice = Here
      BY <1>2, <2>1, <2>3, ChosenAgain
    <3>2. Leave(m, e[Here].last + 1)
      BY <2>1, <2>3
    <3>3. ~Plain(e, v)
      BY <1>2, <2>1, <3>1 DEF Plain, Entries
    <3> HIDE DEF v
    <3>4. Honest(e, m, wish, excused \ {v})
      BY <1>2, <1>4, <3>1, <3>3, TristateHonest
    <3> HIDE DEF m
    <3>5. Honest(e, m, wish, E)
      <4>1. excused \ {v} \subseteq E
        OBVIOUS
      <4> HIDE DEF E
      <4>2. QED
        BY <3>4, <4>1, MoreLost
    <3>6. QED
      BY <1>1, <1>2, <1>4, <2>1, <3>2, <3>5, LeaveSolved
  <2>4. QED
    BY <2>2, <2>3
<1>14. ASSUME CheckNew PROVE ISolved'
  <2>1. /\ Here \in Entries
        /\ mem' = mem /\ again' = TRUE /\ phase' = "walk"
        /\ UNCHANGED <<e, mode, tmp, wish, excused>>
        /\ \E c : stack' = Append(Goto(Here + 1), c)
    BY <1>1, <1>2, <1>14 DEF CheckNew, Walking, disk, source
  <2>2. Here + 1 \in 1 .. Len(e) + 1
    BY <1>2, <2>1
  <2>3. /\ Goto(Here + 1)[1].to = stack[1].to /\ Goto(Here + 1)[1].op = stack[1].op
        /\ Len(Goto(Here + 1)) = Len(stack)
        /\ Goto(Here + 1) \in Seq(Calls(Len(e)))
    BY <1>1, <2>2, Bottom, WalkFacts
  <2>4. stack'[1] = Goto(Here + 1)[1]
    BY <1>5, <2>1, <2>3
  <2>5. Calling'
    BY <1>1, <1>4, <2>1, <2>3, <2>4 DEF Calling
  <2>6. Passing'
    BY <2>1 DEF Passing
  <2>7. QED
    BY <1>4, <2>1, <2>5, <2>6, WalkSolved
<1>15. ASSUME ConfMenu PROVE ISolved'
  <2>1. /\ Here \in Entries /\ Top.op = "conf"
        /\ mem' = Marked(mem, Here) /\ excused' = excused \cup (Marks(mem, Here) \ mem.has)
        /\ phase' = "walk"
        /\ UNCHANGED <<e, mode, again, tmp, wish>>
        /\ \E c : stack' = Append(Goto(e[Here].last + 1), c)
        /\ Silent
    BY <1>1, <1>2, <1>15 DEF ConfMenu, Folded, Walking, disk, source
  <2>2. again
    <3>1. stack[1].op = "check"
      BY <1>1, <1>4, <2>1 DEF Silent, Calling
    <3>2. Len(stack) # 1
      BY <1>5, <2>1, <3>1
    <3>3. Len(stack) > 1
      BY <1>0, <3>2
    <3>4. QED
      BY <1>1, <1>4, <3>3 DEF Calling
  <2> DEFINE n == e[Here].last + 1
  <2>3. n \in 1 .. Len(e) + 1
    BY <1>2, <2>1
  <2> HIDE DEF n
  <2>4. /\ Goto(n)[1].to = stack[1].to /\ Goto(n)[1].op = stack[1].op /\ Len(Goto(n)) = Len(stack)
        /\ Goto(n) \in Seq(Calls(Len(e)))
    BY <1>1, <2>3, Bottom, WalkFacts
  <2>5. stack'[1] = Goto(n)[1]
    BY <1>5, <2>1, <2>4 DEF n
  <2>6. Calling'
    BY <1>1, <1>4, <2>1, <2>2, <2>4, <2>5 DEF Calling
  <2>7. Passing'
    BY <2>1, <2>2 DEF Passing
  <2>8. Honest(e', mem', wish', excused')
    BY <1>2, <1>4, <2>1, MarkedHonest
  <2>9. QED
    BY <1>4, <2>1, <2>6, <2>7, <2>8, WalkSolved
<1>16. ASSUME Ask PROVE ISolved'
  <2>1. /\ phase' = "ask" /\ Top.op = "conf"
        /\ UNCHANGED <<e, mode, mem, stack, again, tmp, wish, excused>>
    BY <1>16 DEF Ask, Walking, disk, source, walk
  <2>2. Calling'
    BY <1>1, <1>4, <2>1 DEF Calling, Top
  <2>3. Hearing' /\ Passing' /\ Passed' /\ Final'
    BY <1>4, <2>1 DEF Hearing, Passing, Passed, Final, Lately
  <2>4. QED
    BY <2>2, <2>3 DEF ISolved
<1>17. ASSUME Return PROVE ISolved'
  <2>1. /\ Here > Top.to
        /\ UNCHANGED <<e, mode, mem, tmp, wish, excused>>
    BY <1>17 DEF Return, disk, source
  <2>2. CASE Len(stack) > 1
    <3>1. stack' = SubSeq(stack, 1, Len(stack) - 1) /\ phase' = "walk" /\ again' = again
      BY <1>1, <1>17, <2>2 DEF Return
    <3>2. stack \in Seq(Calls(Len(e)))
      BY DEF ITypes, Walks
    <3>3. stack'[1] = stack[1]
      BY <1>5, <2>2, <3>1, <3>2
    <3>4. again
      BY <1>1, <1>4, <2>2 DEF Calling
    <3>5. Calling'
      BY <1>1, <1>4, <2>1, <3>1, <3>3, <3>4 DEF Calling
    <3>6. Passing'
      BY <3>1, <3>4 DEF Passing
    <3>7. QED
      BY <1>4, <2>1, <3>1, <3>5, <3>6, WalkSolved
  <2>3. CASE Len(stack) = 1 /\ (Top.op = "conf" \/ again)
    <3>1. stack' = <<Whole("check")>> /\ phase' = "walk" /\ again' = FALSE
      BY <1>1, <1>17, <2>3 DEF Return
    <3>2. Len(stack') = 1 /\ stack'[1].to = Len(e) /\ stack'[1].at = 1 /\ stack'[1].op = "check"
      BY <3>1 DEF Whole
    <3>3. Calling'
      BY <1>1, <1>4, <2>1, <3>1, <3>2 DEF Calling
    <3>4. Passing'
      <4>1. \A s : Plain(e, s) => ~(s < 1)
        BY <1>2 DEF Plain, NamedIn, Ent
      <4>2. Asked(e, mem, 1)
        BY <4>1 DEF Asked
      <4>3. QED
        BY <2>1, <3>2, <4>2 DEF Passing
    <3>5. QED
      BY <1>4, <2>1, <3>1, <3>3, <3>4, WalkSolved
  <2>4. CASE Len(stack) = 1 /\ ~(Top.op = "conf" \/ again)
    <3>1. phase' = IF mode = "silentoldconfig" /\ ~mem.changed THEN "split" ELSE "write"
      BY <1>17, <2>4 DEF Return
    <3>2. Top.op = "check" /\ ~again /\ Top.to = Len(e)
      <4>1. Top \in Calls(Len(e))
        BY <1>1, WalkFacts
      <4>2. QED
        BY <1>1, <1>4, <1>5, <2>4, <4>1 DEF Calls, Calling
    <3>3. Asked(e, mem, Here)
      BY <1>6, <3>2
    <3>4. Asked(e, mem, Len(e) + 1)
      <4>1. \A s : Plain(e, s) => s < Here
        BY <1>2, <2>1, <3>2 DEF Plain, NamedIn, Ent
      <4>2. QED
        BY <3>3, <4>1 DEF Asked
    <3>5. mode \in Walkers
      BY <1>1, <1>4 DEF Calling
    <3>6. Hearing' /\ Calling' /\ Passing' /\ Passed' /\ Final'
      BY <1>4, <2>1, <3>1, <3>4, <3>5 DEF Hearing, Calling, Passing, Passed, Final, Lately
    <3>7. QED
      BY <3>6 DEF ISolved
  <2>5. QED
    BY <1>0, <2>2, <2>3, <2>4
<1>18. QED
  BY <1>9, <1>10, <1>11, <1>12, <1>13, <1>14, <1>15, <1>16, <1>17 DEF Walk

(* The answers.                                                            *)
LEMMA SolvedOfAnswer ==
  ASSUME ITypes, IRepro, ISolved, Answer
  PROVE  ISolved'
<1>1. phase = "ask"
  BY DEF Answer, AnswerBool, AnswerString, AnswerChoice, Abort
<1>2. /\ Proper(e) /\ Full(e, mem)
      /\ \A i \in Entries : e[i].last + 1 \in 1 .. Len(e) + 1 /\ i + 1 \in 1 .. Len(e) + 1
  BY <1>1, WalkFacts
<1>3. Here \in Entries
  BY <1>1 DEF ITypes, Walks, Named, ChoiceSyms
<1>4. tmp = NoFile /\ Honest(e, mem, wish, excused) /\ Calling
  BY <1>1 DEF IRepro, Unwritten, ISolved, Hearing, Lately
<1>5. ASSUME NEW m, NEW i, NEW n \in 1 .. Len(e) + 1, NEW v, Answered(m, i, n, v), Honest(e, m, wish', excused')
      PROVE  ISolved'
  <2>1. /\ mem' = m /\ phase' = "walk" /\ stack' = Goto(n)
        /\ UNCHANGED <<e, mode, again, tmp>>
    BY <1>5 DEF Answered, disk, source
  <2>2. /\ Len(stack) \in Nat \ {0} /\ Len(Goto(n)) = Len(stack)
        /\ Goto(n)[1].op = stack[1].op /\ Goto(n)[1].to = stack[1].to
        /\ Len(stack) = 1 => stack[1] = Top
    BY <1>1, Bottom
  <2>3. Len(stack) > 1 \/ Len(stack) = 1
    BY <2>2
  <2>4. Calling'
    BY <1>1, <1>4, <2>1, <2>2 DEF Calling
  <2>5. Passing'
    <3>1. CASE Len(stack) > 1
      <4>1. again
        BY <1>1, <1>4, <3>1 DEF Calling
      <4>2. QED
        BY <2>1, <4>1 DEF Passing
    <3>2. CASE Len(stack) = 1
      <4>1. stack'[1].op = "conf"
        BY <1>1, <1>4, <2>1, <2>2, <3>2 DEF Calling
      <4>2. QED
        BY <4>1 DEF Passing
    <3>3. QED
      BY <2>3, <3>1, <3>2
  <2>6. QED
    BY <1>4, <1>5, <2>1, <2>4, <2>5, WalkSolved
<1>6. ASSUME NEW v, Here \in Named,
             NEW r, Plain(e, r), r # Here, e[r].name \in DOMAIN wish
      PROVE  /\ e[r].name \in DOMAIN Line(e[Here].name, v, wish)
             /\ Line(e[Here].name, v, wish)[e[r].name] = wish[e[r].name]
  <2>1. e[r].name # e[Here].name
    BY <1>2, <1>3, <1>6, Current DEF Proper, Plain, NamedIn
  <2>2. QED
    BY <1>6, <2>1 DEF Line
<1>7. ASSUME NEW v PROVE e[Here].name \in DOMAIN Line(e[Here].name, v, wish)
                         /\ Line(e[Here].name, v, wish)[e[Here].name] = v
  BY DEF Line
<1>8. ASSUME AnswerBool PROVE ISolved'
  <2>1. PICK v \in {"n", "y"} : Answered(sym_set_tristate_value(mem, Here, v), Here, Here + 1, v)
    BY <1>8 DEF AnswerBool
  <2>2. e[Here].type = "bool" /\ Here \in Named /\ excused' = excused \ {Here}
    BY <1>3, <1>8 DEF AnswerBool, Named
  <2> DEFINE m == sym_set_tristate_value(mem, Here, v)
             told == Line(e[Here].name, v, wish)
  <2>3. wish' = told /\ UNCHANGED e
    BY <2>1, <2>2 DEF Answered, disk, source
  <2>4. /\ \A r : Plain(e, r) /\ r # Here /\ e[r].name \in DOMAIN wish =>
             e[r].name \in DOMAIN told /\ told[e[r].name] = wish[e[r].name]
        /\ e[Here].name \in DOMAIN told /\ told[e[Here].name] = v
    BY <1>6, <1>7, <2>2
  <2> HIDE DEF told
  <2>5. Honest(e, m, told, excused \ {Here})
    BY <1>2, <1>3, <1>4, <2>2, <2>4, TristateHonest
  <2>6. Answered(m, Here, Here + 1, v) /\ Here + 1 \in 1 .. Len(e) + 1
    BY <1>2, <1>3, <2>1
  <2> HIDE DEF m
  <2>7. QED
    BY <1>5, <2>2, <2>3, <2>5, <2>6
<1>9. ASSUME AnswerString PROVE ISolved'
  <2>1. PICK v \in Texts :
          /\ Answered(sym_set_string_value(mem, Here, v), Here, Here + 1, v)
          /\ excused' = IF v = mem.def[Here] /\ v # mem.sol[Here].val THEN excused \cup {Here}
                        ELSE excused
    BY <1>9 DEF AnswerString
  <2>2. e[Here].type = "string" /\ Here \in Named
    BY <1>3, <1>9 DEF AnswerString, Named
  <2> DEFINE m == sym_set_string_value(mem, Here, v)
             told == Line(e[Here].name, v, wish)
  <2>3. wish' = told /\ UNCHANGED e
    BY <2>1, <2>2 DEF Answered, disk, source
  <2>4. /\ \A r : Plain(e, r) /\ r # Here /\ e[r].name \in DOMAIN wish =>
             e[r].name \in DOMAIN told /\ told[e[r].name] = wish[e[r].name]
        /\ e[Here].name \in DOMAIN told /\ told[e[Here].name] = v
    BY <1>6, <1>7, <2>2
  <2> HIDE DEF told
  <2>5. excused \subseteq excused' /\ (v = mem.def[Here] /\ v # mem.sol[Here].val => Here \in excused')
    BY <2>1
  <2>6. Honest(e, m, told, excused')
    BY <1>2, <1>3, <1>4, <2>2, <2>4, <2>5, StringHonest
  <2>7. Answered(m, Here, Here + 1, v) /\ Here + 1 \in 1 .. Len(e) + 1
    BY <1>2, <1>3, <2>1
  <2> HIDE DEF m
  <2>8. QED
    BY <1>5, <2>3, <2>6, <2>7
<1>10. ASSUME AnswerChoice PROVE ISolved'
  <2>1. PICK v \in Shown(Here) : Answered(sym_set_tristate_value(mem, v, "y"), Here, e[Here].last + 1, v)
    BY <1>10 DEF AnswerChoice
  <2>2. v \in Entries /\ e[v].choice = Here /\ Here # 0
    BY <1>2, <1>3 DEF Shown, Proper, Symbols, Entries, Ent
  <2>3. e[v].type = "bool" /\ ~Plain(e, v)
    BY <1>2, <2>2 DEF Proper, Symbols, Entries, Ent, Plain
  <2>4. Here \notin Named /\ excused' = excused
    BY <1>10 DEF AnswerChoice, Named, ChoiceSyms
  <2> DEFINE m == sym_set_tristate_value(mem, v, "y")
  <2>5. wish' = wish /\ UNCHANGED e
    BY <2>1, <2>4 DEF Answered, disk, source
  <2>6. Honest(e, m, wish, excused \ {v})
    BY <1>2, <1>4, <2>2, <2>3, TristateHonest
  <2>7. Answered(m, Here, e[Here].last + 1, v) /\ e[Here].last + 1 \in 1 .. Len(e) + 1
    BY <1>2, <1>3, <2>1
  <2> HIDE DEF m
  <2>8. Honest(e, m, wish, excused)
    BY <2>6, MoreLost
  <2>9. QED
    BY <1>5, <2>4, <2>5, <2>7, <2>8
<1>11. ASSUME Abort PROVE ISolved'
  BY <1>11, IdleSolved DEF Abort
<1>12. QED
  BY <1>8, <1>9, <1>10, <1>11 DEF Answer

(* Nothing of what counts changes.                                         *)
LEMMA FinalKept ==
  ASSUME Final, UNCHANGED <<e, mode, tmp, wish, excused>>, tmp # NoFile => mem'.pick = mem.pick
  PROVE  Final'
BY DEF Final

(* The writing of .config, where it counts.                                *)
LEMMA SolvedOfWrite ==
  ASSUME ITypes, IRepro, ISolved, Write
  PROVE  ISolved'
<1>1. phase \notin {"idle", "walk", "ask"}
  BY DEF Write, WriteTmp, RenameOld, RenameNew, conf_split_config, RenameHeader, RenameAuto,
         conf_write_defconfig
<1>2. Proper(e) /\ Framed(e) /\ Full(e, mem) /\ Sources
  BY <1>1, SourceProper DEF ITypes, Sources, Memory
<1>3. ASSUME phase' \in {"old", "new", "split", "header", "auto"}, Final' PROVE ISolved'
  BY <1>3 DEF ISolved, Hearing, Calling, Passing, Passed, Lately
<1>4. ASSUME WriteTmp PROVE ISolved'
  <2> DEFINE m == IF mem.changed THEN mem ELSE sym_clear_all_valid(mem)
             walked == mode \in Walkers
  <2>1. /\ phase = "write" /\ phase' = "old"
        /\ UNCHANGED <<e, mode, wish, excused>>
        /\ \E w \in SUBSET {v \in Values \cap m.write : ~m.sol[v].vis} :
             tmp' = FileOf(m, (Named \cap m.write) \ w)
    BY <1>4 DEF WriteTmp, disk, source
  <2>2. Full(e, m) /\ mem'.sol = m.sol /\ mem'.pick = m.pick
    BY <1>4, WriteTmpFacts
  <2>3. WriteGood(e, mem)
    BY <2>1 DEF IRepro, Marking
  <2>4. WriteGood(e, m)
    BY <1>2, <2>3, ClearFit DEF Full, Fit
  <2>5. Honest(e, mem, wish, excused) /\ Passed
    BY <2>1 DEF ISolved, Hearing, Lately
  <2>6. m.has = mem.has /\ m.def = mem.def /\ m.pick = mem.pick /\ m.sol = mem.sol
    <3>1. CASE mem.changed
      BY <3>1
    <3>2. CASE ~mem.changed
      <4>1. mem.sol = Sols(e, mem)
        BY <2>5, <3>2 DEF Honest, Fit
      <4>2. QED
        BY <1>2, <3>2, <4>1, ClearFacts DEF Full
    <3>3. QED
      BY <3>1, <3>2
  <2> HIDE DEF m
  <2>7. Tells(e, tmp', m.sol)
    BY <1>2, <2>1, <2>2, <2>4, WrittenTells
  <2>8. Obeys(e, m, excused)
    BY <2>5, <2>6 DEF Honest, Obeys, sym_calc_choice
  <2>9. \A s : Plain(e, s) /\ s \in m.has /\ s \notin excused =>
            e[s].name \in DOMAIN wish /\ m.def[s] = wish[e[s].name]
    BY <2>5, <2>6 DEF Honest
  <2>10. ~walked => \A s : Plain(e, s) /\ m.sol[s].vis /\ e[s].name \in DOMAIN wish => s \in m.has
    BY <2>1, <2>5, <2>6 DEF Passed
  <2>11. walked => \A s : Plain(e, s) /\ m.sol[s].vis /\ ~m.sol[s].rev /\ ReachedIn(e, m.sol, s) => s \in m.has
    <3>1. ASSUME walked PROVE Asked(e, mem, Len(e) + 1)
      BY <2>1, <2>5, <3>1 DEF Passed
    <3>2. \A s : Plain(e, s) => s < Len(e) + 1
      BY <1>2 DEF Plain, NamedIn, Ent, Proper
    <3>3. QED
      BY <2>6, <3>1, <3>2 DEF Asked
  <2>12. walked \in BOOLEAN
    OBVIOUS
  <2> HIDE DEF walked
  <2>13. SolvedFor(e, tmp', m.pick, wish, excused, walked)
    BY <1>2, <2>2, <2>7, <2>8, <2>9, <2>10, <2>11, <2>12, SolvedWritten
  <2>14. Final'
    BY <2>1, <2>2, <2>13 DEF Final, walked
  <2>15. QED
    BY <1>3, <2>1, <2>14
<1>5. ASSUME RenameOld PROVE ISolved'
  <2>1. phase' = "new" /\ UNCHANGED <<e, mode, mem, tmp, wish, excused>>
    BY <1>5 DEF RenameOld, source
  <2>2. QED
    BY <1>3, <2>1, FinalKept DEF ISolved
<1>6. ASSUME RenameNew PROVE ISolved'
  <2>1. UNCHANGED e
    BY <1>6 DEF RenameNew, source
  <2>2. Idle \/ (phase' = "split" /\ mem' = [mem EXCEPT !.changed = FALSE]
                 /\ UNCHANGED <<mode, tmp, wish, excused>>)
    BY <1>6 DEF RenameNew
  <2>3. [mem EXCEPT !.changed = FALSE].pick = mem.pick
    BY <1>2, UnchangedFull
  <2>4. QED
    BY <1>3, <2>1, <2>2, <2>3, FinalKept, IdleSolved DEF ISolved
<1>7. ASSUME conf_split_config PROVE ISolved'
  <2>1. phase' = "header" /\ mem' = sym_clear_all_valid(mem) /\ UNCHANGED <<e, mode, tmp, wish, excused>>
    BY <1>7 DEF conf_split_config, source
  <2>2. sym_clear_all_valid(mem).pick = mem.pick
    BY <1>2, ClearFacts DEF Full
  <2>3. QED
    BY <1>3, <2>1, <2>2, FinalKept DEF ISolved
<1>8. ASSUME RenameHeader PROVE ISolved'
  <2>1. phase' = "auto" /\ UNCHANGED <<e, mode, mem, tmp, wish, excused>>
    BY <1>8 DEF RenameHeader, source
  <2>2. QED
    BY <1>3, <2>1, FinalKept DEF ISolved
<1>9. ASSUME RenameAuto \/ conf_write_defconfig PROVE ISolved'
  BY <1>9, IdleSolved DEF RenameAuto, conf_write_defconfig
<1>10. QED
  BY <1>4, <1>5, <1>6, <1>7, <1>8, <1>9 DEF Write

(* A run begins, ...                                                       *)
LEMMA StartSolved ==
  ASSUME ITypes, IRepro, NEW md, NEW told, NEW m, NEW first \in {"walk", "write", "minimal"},
         NEW calls, NEW aim, Start(md, told, m, first, calls, aim),
         first # "minimal" => Honest(e, m, told, {}),
         first = "walk" => /\ md \in Walkers
                           /\ calls = <<Whole(IF md = "config" THEN "conf" ELSE "check")>>,
         first = "write" => /\ md \notin Walkers
                            /\ \A s : Plain(e, s) /\ m.sol[s].vis /\ e[s].name \in DOMAIN told => s \in m.has
  PROVE  ISolved'
<1>1. /\ phase = "idle" /\ mode' = md /\ mem' = m /\ phase' = first /\ stack' = calls /\ wish' = told
      /\ UNCHANGED <<e, tmp, excused>>
  BY DEF Start, disk, source
<1>2. tmp = NoFile /\ excused = {}
  BY <1>1 DEF IRepro, Unwritten, ITypes, Memory
<1>3. Hearing' /\ Final'
  BY <1>1, <1>2 DEF Hearing, Final, Lately
<1>4. Passed'
  BY <1>1 DEF Passed
<1>5. ASSUME first = "walk" PROVE /\ stack'[1].at = 1 /\ stack'[1].to = Len(e) /\ Len(stack') = 1
                                  /\ stack'[1].op = IF md = "config" THEN "conf" ELSE "check"
  BY <1>1, <1>5 DEF Whole
<1>6. Calling'
  <2>1. CASE first = "walk"
    <3>1. /\ stack'[1].to = Len(e) /\ Len(stack') = 1 /\ md \in Walkers
          /\ md # "config" => stack'[1].op = "check"
      BY <1>5, <2>1
    <3>2. ~(Len(stack') > 1)
      BY <3>1
    <3>3. QED
      BY <1>1, <2>1, <3>1, <3>2 DEF Calling
  <2>2. CASE first # "walk"
    BY <1>1, <2>2 DEF Calling
  <2>3. QED
    BY <2>1, <2>2
<1>7. Passing'
  <2>1. Proper(e)
    BY SourceProper DEF ITypes, Sources
  <2>2. \A s : Plain(e, s) => ~(s < 1)
    BY <2>1 DEF Plain, NamedIn, Ent, Proper
  <2>3. Asked(e, m, 1)
    BY <2>2 DEF Asked
  <2>4. QED
    BY <1>1, <1>5, <2>3 DEF Passing
<1>8. QED
  BY <1>3, <1>4, <1>6, <1>7 DEF ISolved

(* ... with what a file says or a rule.                                    *)
LEMMA SolvedOfStart ==
  ASSUME ITypes, IRepro, ISolved, StartSome
  PROVE  ISolved'
<1>1. Proper(e)
  BY SourceProper DEF ITypes, Sources
<1>2. /\ FileOK(config) /\ FileOK(minimal)
      /\ config # NoFile => Lines(config)
  BY DEF ITypes, Files, FileOK, Lines
<1>3. ASSUME NEW f, FileOK(f)
      PROVE  /\ Full(e, conf_read(f)) /\ Fit(e, conf_read(f))
             /\ Honest(e, conf_read(f), Told(f), {})
             /\ \A s : Plain(e, s) /\ e[s].name \in DOMAIN Told(f) /\ conf_read(f).sol[s].vis =>
                  s \in conf_read(f).has
  <2> DEFINE o == conf_read(f)
  <2>1. Full(e, o) /\ Fit(e, o)
    BY <1>1, <1>3, ConfReadFacts
  <2>2. /\ \A s : Plain(e, s) /\ s \in o.has =>
             f # NoFile /\ e[s].name \in DOMAIN f /\ o.def[s] = f[e[s].name]
        /\ \A s : Plain(e, s) /\ f # NoFile /\ e[s].name \in DOMAIN f /\ o.sol[s].vis => s \in o.has
        /\ ~o.changed => Strings(e, o)
    BY <1>1, <1>3, ReadPlain
  <2> HIDE DEF o
  <2>3. Obeys(e, o, {})
    BY <1>1, <2>1, FitObeys DEF Full, Held, Fit
  <2>4. Honest(e, o, Told(f), {})
    BY <2>1, <2>2, <2>3 DEF Honest, Told
  <2>5. \A s : Plain(e, s) /\ e[s].name \in DOMAIN Told(f) /\ o.sol[s].vis => s \in o.has
    BY <2>2 DEF Told, EmptyFile
  <2>6. QED
    BY <2>1, <2>4, <2>5 DEF o
<1>4. ASSUME NEW md, NEW told, NEW r, Held(e, r), NEW v \in {"n", "y", "default"}, NEW aim,
             NEW new, new = conf_set_all_new_symbols(r, v),
             Start(md, told, new, "write", <<>>, aim), md \notin Walkers,
             \A s : Plain(e, s) /\ (s \in r.has \/ (e[s].type = "bool" /\ v # "default")) =>
                /\ e[s].name \in DOMAIN told
                /\ told[e[s].name] = IF s \in r.has THEN r.def[s] ELSE v,
             \A s : Plain(e, s) /\ new.sol[s].vis /\ e[s].name \in DOMAIN told =>
                s \in r.has \/ (e[s].type = "bool" /\ v # "default")
      PROVE  ISolved'
  <2>1. /\ Full(e, new) /\ Fit(e, new) /\ new.changed
        /\ \A s \in NamedIn(e) :
             /\ s \in new.has <=> s \in r.has \/ (e[s].type = "bool" /\ v # "default")
             /\ s \in new.has => new.def[s] = IF s \in r.has THEN r.def[s] ELSE v
    BY <1>1, <1>4, AllNewFacts
  <2>2. Obeys(e, new, {})
    BY <1>1, <2>1, FitObeys DEF Full, Held, Fit
  <2>3. Honest(e, new, told, {})
    BY <1>4, <2>1, <2>2 DEF Honest, Plain
  <2>4. \A s : Plain(e, s) /\ new.sol[s].vis /\ e[s].name \in DOMAIN told => s \in new.has
    BY <1>4, <2>1 DEF Plain
  <2>5. QED
    BY <1>4, <2>3, <2>4, StartSolved
<1>5. ASSUME Config PROVE ISolved'
  BY <1>2, <1>3, <1>5, StartSolved DEF Config, Walkers
<1>6. ASSUME OldConfig PROVE ISolved'
  BY <1>2, <1>3, <1>6, StartSolved DEF OldConfig, Walkers
<1>7. ASSUME SilentOldConfig PROVE ISolved'
  BY <1>2, <1>3, <1>7, StartSolved DEF SilentOldConfig, Walkers
<1>8. ASSUME SaveDefConfig PROVE ISolved'
  BY <1>8, StartSolved DEF SaveDefConfig
<1>9. ASSUME DefConfig PROVE ISolved'
  <2> DEFINE r == conf_read(minimal)
             new == conf_set_all_new_symbols(r, "default")
             aim == IF saved = NoFile THEN NoFile ELSE Positive(saved)
             told == Told(minimal)
  <2>1. Start("defconfig", told, new, "write", <<>>, aim)
    BY <1>9 DEF DefConfig
  <2>2. Held(e, r) /\ Fit(e, r) /\ Honest(e, r, told, {})
    BY <1>2, <1>3 DEF Full
  <2>3. \A s : Plain(e, s) /\ e[s].name \in DOMAIN told /\ r.sol[s].vis => s \in r.has
    BY <1>2, <1>3
  <2>4. new.sol = r.sol
    BY <1>1, <2>2, AllNewFacts
  <2>5. "defconfig" \notin Walkers
    BY DEF Walkers
  <2>6. new = conf_set_all_new_symbols(r, "default")
    OBVIOUS
  <2> HIDE DEF r, new, aim, told
  <2>7. \A s : Plain(e, s) /\ s \in r.has => e[s].name \in DOMAIN told /\ told[e[s].name] = r.def[s]
    BY <2>2 DEF Honest
  <2>8. \A s : Plain(e, s) /\ new.sol[s].vis /\ e[s].name \in DOMAIN told => s \in r.has
    BY <2>3, <2>4
  <2>9. QED
    BY <1>4, <2>1, <2>2, <2>5, <2>6, <2>7, <2>8
<1>10. ASSUME NEW md \in AllModes, AllConfig(md) PROVE ISolved'
  <2> DEFINE v == IF md \in {"allyesconfig", "allyespackageconfig"} THEN "y" ELSE "n"
             file == IF md \in PackageModes THEN WithoutPackages(config) ELSE EmptyFile
             r == IF md \in PackageModes THEN conf_read_simple(file) ELSE Parsed
             rule == [n \in {e[s].name : s \in {x \in Named : e[x].type = "bool"}} |-> v]
             told == Over(file, rule)
             new == conf_set_all_new_symbols(r, v)
  <2>1. md \in PackageModes => config # NoFile
    BY <1>10 DEF AllConfig
  <2>2. Start(md, told, new, "write", <<>>, NoFile)
    BY <1>10 DEF AllConfig
  <2>3. v \in {"n", "y"}
    OBVIOUS
  <2>4. Lines(file) /\ (md \notin PackageModes => file = EmptyFile)
    BY <1>2, <2>1, EmptyLines DEF Lines, WithoutPackages
  <2>5. /\ Held(e, r)
        /\ \A s \in NamedIn(e) : s \in r.has <=> e[s].name \in DOMAIN file
        /\ \A s \in NamedIn(e) : s \in r.has => r.def[s] = file[e[s].name]
    <3>1. CASE md \in PackageModes
      <4>1. r = conf_read_simple(file)
        BY <3>1
      <4>2. \A s \in NamedIn(e) : s \notin ChoiceSyms
        BY DEF NamedIn, ChoiceSyms
      <4> HIDE DEF file, r
      <4>3. QED
        BY <1>1, <2>4, <4>1, <4>2, ReadFacts DEF NamedBy
    <3>2. CASE md \notin PackageModes
      <4>1. r = Parsed /\ DOMAIN file = {}
        BY <2>4, <3>2 DEF EmptyFile
      <4> HIDE DEF file, r
      <4>2. QED
        BY <1>1, <4>1, ParsedHeld
    <3>3. QED
      BY <3>1, <3>2
  <2>6. DOMAIN rule = {e[s].name : s \in {x \in Named : e[x].type = "bool"}}
        /\ \A n \in DOMAIN rule : rule[n] = v
    OBVIOUS
  <2>7. DOMAIN told = DOMAIN file \cup DOMAIN rule
        /\ \A n \in DOMAIN told : told[n] = IF n \in DOMAIN file THEN file[n] ELSE rule[n]
    BY DEF Over
  <2>8. md \notin Walkers
    BY DEF AllModes, Walkers
  <2>9. new = conf_set_all_new_symbols(r, v)
    OBVIOUS
  <2> HIDE DEF v, file, r, rule, told, new
  <2>10. \A s \in NamedIn(e) : e[s].name \in DOMAIN rule <=> e[s].type = "bool"
    BY <1>1, <2>6, Current DEF Proper, NamedIn
  <2>11. ASSUME NEW s, Plain(e, s), s \in r.has \/ e[s].type = "bool"
         PROVE  /\ e[s].name \in DOMAIN told
                /\ told[e[s].name] = IF s \in r.has THEN r.def[s] ELSE v
    BY <2>5, <2>6, <2>7, <2>10, <2>11 DEF Plain
  <2>12. ASSUME NEW s, Plain(e, s), e[s].name \in DOMAIN told PROVE s \in r.has \/ e[s].type = "bool"
    BY <2>5, <2>7, <2>10, <2>12 DEF Plain
  <2>13. v \in {"n", "y", "default"} /\ v # "default"
    BY <2>3
  <2>14. QED
    BY <1>4, <2>2, <2>5, <2>8, <2>9, <2>11, <2>12, <2>13
<1>11. QED
  BY <1>5, <1>6, <1>7, <1>8, <1>9, <1>10 DEF StartSome

(* What happens between two runs.                                          *)
LEMMA SolvedOfRest ==
  ASSUME ITypes, IRepro, ISolved, Upgrade \/ Kill \/ UNCHANGED vars
  PROVE  ISolved'
<1>1. ASSUME Upgrade PROVE ISolved'
  <2>1. phase = "idle" /\ UNCHANGED <<phase, tmp>>
    BY <1>1 DEF Upgrade, process
  <2>2. tmp = NoFile
    BY <2>1 DEF IRepro, Unwritten
  <2>3. QED
    BY <2>1, <2>2 DEF ISolved, Hearing, Calling, Passing, Passed, Final, Lately
<1>2. ASSUME Kill PROVE ISolved'
  BY <1>2, IdleSolved DEF Kill
<1>3. ASSUME UNCHANGED vars PROVE ISolved'
  <2>1. UNCHANGED <<e, mode, phase, mem, stack, again, tmp, wish, excused>>
    BY <1>3 DEF vars, disk, source, process, walk
  <2>2. Hearing' /\ Passed' /\ Final'
    BY <2>1 DEF ISolved, Hearing, Passed, Final, Lately
  <2>3. Calling' /\ Passing'
    BY <2>1 DEF ISolved, Calling, Passing, Top
  <2>4. QED
    BY <2>2, <2>3 DEF ISolved
<1>4. QED
  BY <1>1, <1>2, <1>3

(* The invariant is kept.                                                  *)
LEMMA SolvedStep == ITypes /\ IRepro /\ ISolved /\ [Next]_vars => ISolved'
<1> SUFFICES ASSUME ITypes, IRepro, ISolved, Next \/ UNCHANGED vars PROVE ISolved'
  OBVIOUS
<1>1. CASE Walk
  BY <1>1, SolvedOfWalk
<1>2. CASE Answer
  BY <1>2, SolvedOfAnswer
<1>3. CASE Write
  BY <1>3, SolvedOfWrite
<1>4. CASE StartSome
  BY <1>4, SolvedOfStart
<1>5. CASE Upgrade \/ Kill \/ UNCHANGED vars
  BY <1>5, SolvedOfRest
<1>6. QED
  BY <1>1, <1>2, <1>3, <1>4, <1>5 DEF Next, Run, Rest

(* What is written is the solution of the Config.in files for what was     *)
(* said: each value is selected, said, or its first default that applies;  *)
(* each choice has the one value picked; and nothing that the walk gets to *)
(* is left without an answer, whatever the files, the answers, the releases*)
(* and the kills (Solved).                                                 *)
THEOREM KconfigSolved == Spec => []Solved
<1>1. Init => ISolved
  BY DEF Init, ISolved, Hearing, Calling, Passing, Passed, Final, Lately
<1>2. ISolved => Solved
  BY FinalSolved DEF ISolved
<1>3. Spec => [][Next]_vars /\ []ITypes /\ []IRepro /\ Init
  BY Types, Found DEF Spec
<1>4. QED
  BY <1>1, <1>2, <1>3, SolvedStep, PTL
=============================================================================
