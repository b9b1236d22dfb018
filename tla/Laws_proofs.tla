------------------------------ MODULE Laws_proofs ------------------------------
(***************************************************************************)
(* Proofs about the laws of the algorithms and of the small machines, for  *)
(* every sample a topic may offer and every length of a machine's history. *)
(*                                                                         *)
(* What a fold or a recursive function computes is shown along the natural *)
(* numbers, by sets: LeastNumber and InductionBySet stand in for a rule of *)
(* induction.                                                              *)
(***************************************************************************)
EXTENDS Laws, TLAPS, FiniteSetTheorems, WellFoundedInduction

(* A set of naturals that is not empty has a least member, because the     *)
(* intervals below its members are finite sets.                            *)
LEMMA LeastNumber ==
  ASSUME NEW S \in SUBSET Nat, S # {}
  PROVE  \E n \in S : \A m \in S : n <= m
<1> DEFINE T == {0..n : n \in S}
           R == StrictSubsetOrdering(Nat)
<1>1. T \subseteq FiniteSubsetsOf(Nat) /\ T # {}
  <2>1. ASSUME NEW n \in S
        PROVE  IsFiniteSet(0..n) /\ 0..n \in SUBSET Nat
    <3>1. 0 \in Int /\ n \in Int
      OBVIOUS
    <3>2. IsFiniteSet(0..n)
      BY <3>1, FS_Interval
    <3>3. QED
      BY <3>2
  <2>2. QED
    BY <2>1 DEF FiniteSubsetsOf
<1>2. PICK x \in T : \A y \in T : <<y, x>> \notin R
  <2>1. IsWellFoundedOn(R, FiniteSubsetsOf(Nat))
    BY FS_StrictSubsetOrderingWellFounded
  <2> HIDE DEF T, R
  <2>2. QED
    BY <2>1, <1>1, WFMin
<1>3. PICK n \in S : x = 0..n
  BY <1>2
<1>4. ASSUME NEW m \in S, m < n
      PROVE  FALSE
  <2>1. n \in 0..n /\ n \notin 0..m /\ 0..m \subseteq 0..n
    BY <1>4
  <2>2. <<0..m, 0..n>> \in R
    BY <2>1 DEF StrictSubsetOrdering
  <2>3. QED
    BY <2>2, <1>2, <1>3
<1>5. QED
  BY <1>4

LEMMA InductionBySet ==
  ASSUME NEW S, 0 \in S, \A n \in Nat : n \in S => n + 1 \in S
  PROVE  Nat \subseteq S
<1> DEFINE U == Nat \ S
<1> SUFFICES ASSUME U # {} PROVE FALSE
  OBVIOUS
<1>1. PICK n \in U : \A m \in U : n <= m
  BY LeastNumber
<1>2. n # 0 /\ n - 1 \in Nat /\ n - 1 \notin U
  BY <1>1
<1>3. n \in S
  BY <1>2
<1>4. QED
  BY <1>3

Iterates(f, N, base, step) ==
  f[0] = base /\ \A k \in 1..N : f[k] = step[<<f[k - 1], k>>]

(* What is defined from the number below is defined along 0..N.            *)
LEMMA Recursion ==
  ASSUME NEW N \in Nat, NEW X, NEW base \in X, NEW step \in [X \X (1..N) -> X]
  PROVE  \E f \in [0..N -> X] : Iterates(f, N, base, step)
<1> DEFINE Solves(f, n) == Iterates(f, n, base, step)
           S == {n \in Nat : n <= N => \E f \in [0..n -> X] : Solves(f, n)}
<1>1. 0 \in S
  <2>1. [k \in 0..0 |-> base] \in [0..0 -> X]
        /\ Solves([k \in 0..0 |-> base], 0)
    BY DEF Iterates
  <2>2. QED
    BY <2>1
<1>2. ASSUME NEW n \in Nat, n \in S
      PROVE  n + 1 \in S
  <2> SUFFICES ASSUME n + 1 <= N
               PROVE  \E f \in [0..(n + 1) -> X] : Solves(f, n + 1)
    OBVIOUS
  <2>1. PICK f \in [0..n -> X] : Solves(f, n)
    BY <1>2
  <2> DEFINE last == step[<<f[n], n + 1>>]
             g == [k \in 0..(n + 1) |-> IF k = n + 1 THEN last ELSE f[k]]
  <2>2. f[n] \in X /\ <<f[n], n + 1>> \in X \X (1..N) /\ last \in X
    <3>1. f[n] \in X /\ n + 1 \in 1..N
      OBVIOUS
    <3>2. QED
      BY <3>1
  <2>3. \A k \in 0..n : g[k] = f[k]
    OBVIOUS
  <2>4. g[n + 1] = last /\ g[n] = f[n]
    BY <2>3
  <2>5. g \in [0..(n + 1) -> X]
    <3> HIDE DEF last
    <3>1. QED
      BY <2>2
  <2> HIDE DEF g
  <2>6. ASSUME NEW k \in 1..(n + 1)
        PROVE  g[k] = step[<<g[k - 1], k>>]
    <3>1. CASE k = n + 1
      BY <2>4, <3>1
    <3>2. CASE k # n + 1
      <4>1. k \in 1..n /\ k \in 0..n /\ k - 1 \in 0..n
        BY <3>2
      <4>2. g[k] = f[k] /\ g[k - 1] = f[k - 1]
        BY <2>3, <4>1, Zenon
      <4>3. f[k] = step[<<f[k - 1], k>>]
        BY <2>1, <4>1 DEF Iterates
      <4>4. QED
        BY <4>2, <4>3, Zenon
    <3>3. QED
      BY <3>1, <3>2
  <2>7. g[0] = base
    BY <2>1, <2>3 DEF Iterates
  <2>8. QED
    BY <2>5, <2>6, <2>7 DEF Iterates
<1>3. N \in S
  <2> HIDE DEF S
  <2>1. QED
    BY <1>1, <1>2, InductionBySet
<1>4. QED
  BY <1>3

(* The least of some numbers is one of them, and no greater than any.      *)
LEMMA MinFacts ==
  ASSUME NEW S \in SUBSET Nat, S # {}
  PROVE  Min(S) \in S /\ \A n \in S : Min(S) <= n
BY LeastNumber DEF Min

-----------------------------------------------------------------------------
(* Tokens: a token was made of one that was made before it.                *)
Token ==
  [cancelled : BOOLEAN, deadline : Nat \union {None}, parent : Nat \union {None}]

TokenKept ==
  /\ clock \in Nat
  /\ tokens \in Seq(Token)
  /\ \A t \in DOMAIN tokens :
       tokens[t].parent # None => tokens[t].parent \in 1..(t - 1)

Parents(S) == {tokens[u].parent : u \in S} \ {None}

Climbs(up, t) ==
  /\ DOMAIN up = 0..Len(tokens)
  /\ up[0] = {t}
  /\ \A n \in 1..Len(tokens) : up[n] = up[n - 1] \union Parents(up[n - 1])

(* The recursive function of Line is the one its equation describes.       *)
LEMMA LineClimbs ==
  ASSUME TokenKept, NEW t \in DOMAIN tokens
  PROVE  \E up : Climbs(up, t) /\ Line(t) = up[Len(tokens)]
<1> DEFINE N == Len(tokens)
           X == SUBSET DOMAIN tokens
           step == [x \in X \X (1..N) |-> x[1] \union Parents(x[1])]
           Equation(up) ==
             up = [n \in 0..N |-> IF n = 0 THEN {t}
                                  ELSE up[n - 1] \union Parents(up[n - 1])]
           chosen == CHOOSE up : Equation(up)
<1>1. N \in Nat /\ DOMAIN tokens = 1..N /\ {t} \in X
  BY DEF TokenKept
<1>2. step \in [X \X (1..N) -> X]
  <2>1. \A S \in X : Parents(S) \in X
    BY <1>1 DEF Parents, TokenKept
  <2> HIDE DEF X
  <2>2. \A S \in X : S \union Parents(S) \in X
    BY <2>1 DEF X
  <2>3. QED
    BY <2>2
<1> HIDE DEF X
<1>3. \E up : Equation(up)
  <2>1. PICK up \in [0..N -> X] : Iterates(up, N, {t}, step)
    <3> HIDE DEF step, N
    <3>1. QED
      BY <1>1, <1>2, Recursion, Zenon
  <2>2. ASSUME NEW k \in 1..N
        PROVE  up[k] = up[k - 1] \union Parents(up[k - 1])
    <3>1. up[k - 1] \in X /\ <<up[k - 1], k>> \in X \X (1..N)
      BY <1>1
    <3>2. QED
      BY <2>1, <3>1 DEF Iterates
  <2>3. QED
    BY <1>1, <2>1, <2>2 DEF Iterates
<1>4. Equation(chosen) /\ Line(t) = chosen[N]
  <2>1. Line(t) = chosen[N]
    BY DEF Line, Parents
  <2> HIDE DEF Equation
  <2>2. QED
    BY <1>3, <2>1
<1> HIDE DEF chosen
<1>5. Climbs(chosen, t)
  <2>1. DOMAIN chosen = 0..N
    BY <1>4
  <2>2. \A k \in 0..N :
          chosen[k] = IF k = 0 THEN {t} ELSE chosen[k - 1] \union Parents(chosen[k - 1])
    BY <1>4
  <2>3. QED
    BY <1>1, <2>1, <2>2 DEF Climbs
<1>6. QED
  BY <1>4, <1>5

(* A token is of its line, and so is the parent of each of the line.  One  *)
(* that is reached was reached in no more steps than there are tokens      *)
(* between, since a parent is older; there is always one step left.        *)
LEMMA LineClosed ==
  ASSUME TokenKept, NEW t \in DOMAIN tokens
  PROVE  /\ t \in Line(t)
         /\ Line(t) \subseteq 1..t
         /\ \A u \in Line(t) : tokens[u].parent # None => tokens[u].parent \in Line(t)
<1>1. Len(tokens) \in Nat /\ DOMAIN tokens = 1..Len(tokens) /\ t \in Nat
  BY DEF TokenKept
<1>2. PICK up : Climbs(up, t) /\ Line(t) = up[Len(tokens)]
  BY <1>1, LineClimbs
<1> DEFINE Reached(n) ==
             /\ t \in up[n]
             /\ up[n] \subseteq 1..t
             /\ \A u \in up[n] : t - u <= n => u \in up[t - u]
             /\ \A u \in up[n], m \in 0..n : t - u <= m => u \in up[m]
           S == {n \in Nat : n <= Len(tokens) => Reached(n)}
<1>3. 0 \in S
  <2>1. up[0] = {t}
    BY <1>2 DEF Climbs
  <2>2. QED
    BY <1>1, <2>1
<1>4. ASSUME NEW n \in Nat, n \in S PROVE n + 1 \in S
  <2> SUFFICES ASSUME n + 1 <= Len(tokens) PROVE Reached(n + 1)
    OBVIOUS
  <2>1. Reached(n) /\ n + 1 \in 1..Len(tokens)
    BY <1>1, <1>4
  <2>2. up[n + 1] = up[n] \union Parents(up[n])
    BY <1>2, <2>1 DEF Climbs
  <2>3. ASSUME NEW u \in up[n + 1], u \notin up[n]
        PROVE  \E c \in up[n] : u = tokens[c].parent /\ u \in 1..(c - 1) /\ c \in 1..t
    BY <1>1, <2>1, <2>2, <2>3 DEF Parents, TokenKept
  <2>4. up[n + 1] \subseteq 1..t
    BY <1>1, <2>1, <2>3
  <2>5. ASSUME NEW u \in up[n + 1], NEW m \in 0..(n + 1), t - u <= m
        PROVE  u \in up[m]
    <3>1. CASE m = n + 1
      BY <3>1
    <3>2. CASE m \in 0..n /\ u \in up[n]
      BY <2>1, <2>5, <3>2
    <3>3. CASE m \in 0..n /\ u \notin up[n]
      <4>1. PICK c \in up[n] : u = tokens[c].parent /\ u \in 1..(c - 1) /\ c \in 1..t
        BY <2>3, <3>3
      <4>2. m - 1 \in 0..n /\ t - c <= m - 1 /\ m \in 1..Len(tokens)
        <5>1. /\ t \in Nat /\ c \in Nat /\ u \in Nat /\ n \in Nat /\ m \in 0..n
              /\ Len(tokens) \in Nat /\ n + 1 <= Len(tokens)
              /\ u < c /\ c <= t /\ t - u <= m
          BY <1>1, <1>4, <2>1, <2>5, <3>3, <4>1
        <5>2. QED
          BY <5>1
      <4>3. c \in up[m - 1]
        BY <2>1, <4>1, <4>2
      <4>4. up[m] = up[m - 1] \union Parents(up[m - 1])
        BY <1>2, <4>2 DEF Climbs
      <4>5. u # None
        BY <4>1, GuardsAssumption
      <4>6. QED
        BY <4>1, <4>3, <4>4, <4>5 DEF Parents
    <3>4. QED
      BY <3>1, <3>2, <3>3
  <2>6. ASSUME NEW u \in up[n + 1], t - u <= n + 1
        PROVE  u \in up[t - u]
    <3>1. t - u \in 0..(n + 1)
      BY <1>1, <2>4, <2>6
    <3>2. QED
      BY <2>5, <3>1
  <2>7. QED
    BY <2>1, <2>2, <2>4, <2>5, <2>6
<1>5. Reached(Len(tokens))
  <2>1. Len(tokens) \in S
    <3> HIDE DEF S
    <3>1. QED
      BY <1>1, <1>3, <1>4, InductionBySet
  <2>2. QED
    BY <1>1, <2>1
<1>6. ASSUME NEW u \in Line(t), tokens[u].parent # None
      PROVE  tokens[u].parent \in Line(t)
  <2>1. u \in up[Len(tokens)] /\ u \in 1..t
    BY <1>2, <1>5
  <2>2. t - u \in 0..(Len(tokens) - 1)
    BY <1>1, <2>1
  <2>3. u \in up[t - u]
    BY <1>1, <1>5, <2>1, <2>2
  <2>4. u \in up[Len(tokens) - 1]
    BY <1>1, <1>5, <2>1, <2>2
  <2>5. up[Len(tokens)] = up[Len(tokens) - 1] \union Parents(up[Len(tokens) - 1])
    BY <1>1, <1>2 DEF Climbs
  <2>6. QED
    BY <1>2, <1>6, <2>4, <2>5 DEF Parents
<1>7. QED
  BY <1>2, <1>5, <1>6

(* What is above a token's parent is above the token.                      *)
LEMMA LineOfParent ==
  ASSUME TokenKept, NEW t \in DOMAIN tokens, tokens[t].parent # None
  PROVE  /\ tokens[t].parent \in DOMAIN tokens
         /\ Line(tokens[t].parent) \subseteq Line(t)
<1> DEFINE p == tokens[t].parent
<1>1. /\ Len(tokens) \in Nat /\ DOMAIN tokens = 1..Len(tokens)
      /\ t \in Nat /\ p \in 1..(t - 1) /\ p \in DOMAIN tokens
  BY DEF TokenKept
<1>2. PICK up : Climbs(up, p) /\ Line(p) = up[Len(tokens)]
  BY <1>1, LineClimbs
<1> DEFINE S == {n \in Nat : n <= Len(tokens) => up[n] \subseteq Line(t)}
<1>3. 0 \in S
  <2>1. p \in Line(t)
    BY LineClosed
  <2>2. QED
    BY <1>2, <2>1 DEF Climbs
<1>4. ASSUME NEW n \in Nat, n \in S PROVE n + 1 \in S
  <2> SUFFICES ASSUME n + 1 <= Len(tokens) PROVE up[n + 1] \subseteq Line(t)
    OBVIOUS
  <2>1. up[n] \subseteq Line(t) /\ n + 1 \in 1..Len(tokens)
    BY <1>1, <1>4
  <2>2. up[n + 1] = up[n] \union Parents(up[n])
    BY <1>2, <2>1 DEF Climbs
  <2>3. QED
    BY <2>1, <2>2, LineClosed DEF Parents
<1>5. Len(tokens) \in S
  <2> HIDE DEF S
  <2>1. QED
    BY <1>1, <1>3, <1>4, InductionBySet
<1>6. QED
  BY <1>1, <1>2, <1>5

Deadlines(t) == {tokens[u].deadline : u \in Line(t)} \ {None}

LEMMA DeadlinesFacts ==
  ASSUME TokenKept, NEW t \in DOMAIN tokens
  PROVE  /\ Deadlines(t) \in SUBSET Nat
         /\ HasDeadline(t) <=> Deadlines(t) # {}
         /\ HasDeadline(t) => EffectiveDeadline(t) = Min(Deadlines(t))
<1>1. Line(t) \subseteq DOMAIN tokens
  BY LineClosed DEF TokenKept
<1>2. Deadlines(t) \in SUBSET Nat
  <2>1. \A u \in DOMAIN tokens : tokens[u] \in Token
    BY DEF TokenKept
  <2>2. QED
    BY <1>1, <2>1 DEF Deadlines, Token
<1>3. EffectiveDeadline(t) = IF Deadlines(t) = {} THEN None ELSE Min(Deadlines(t))
  BY DEF EffectiveDeadline, Deadlines
<1>4. Deadlines(t) # {} => Min(Deadlines(t)) # None
  BY <1>2, MinFacts, GuardsAssumption
<1>5. QED
  BY <1>2, <1>3, <1>4 DEF HasDeadline

LEMMA CancelledBy ==
  ASSUME NEW t
  PROVE  IsCancelled(t) <=>
           InnerIsCancelled(t) \/ (HasDeadline(t) /\ clock >= EffectiveDeadline(t))
BY GuardsAssumption DEF IsCancelled, Reason, HasDeadline

(* The deadlines a parent has its child has too, and perhaps its own.      *)
LEMMA StopsWithParent == TokenKept => StopsWithItsParent
<1> SUFFICES ASSUME TokenKept, NEW t \in DOMAIN tokens, tokens[t].parent # None
             PROVE  LET p == tokens[t].parent IN
                    /\ IsCancelled(p) => IsCancelled(t)
                    /\ HasDeadline(p) => HasDeadline(t) /\ Remaining(t) <= Remaining(p)
  BY DEF StopsWithItsParent
<1> DEFINE p == tokens[t].parent
<1>1. p \in DOMAIN tokens /\ Line(p) \subseteq Line(t)
  BY LineOfParent
<1>2. /\ clock \in Nat
      /\ Deadlines(p) \in SUBSET Nat /\ Deadlines(t) \in SUBSET Nat
      /\ Deadlines(p) \subseteq Deadlines(t)
  BY <1>1, DeadlinesFacts DEF Deadlines, TokenKept
<1> HIDE DEF p
<1>3. ASSUME HasDeadline(p)
      PROVE  /\ HasDeadline(t)
             /\ EffectiveDeadline(t) \in Nat /\ EffectiveDeadline(p) \in Nat
             /\ EffectiveDeadline(t) <= EffectiveDeadline(p)
  <2>1. Deadlines(p) # {} /\ EffectiveDeadline(p) = Min(Deadlines(p))
    BY <1>1, <1>3, DeadlinesFacts
  <2>2. Deadlines(t) # {} /\ HasDeadline(t) /\ EffectiveDeadline(t) = Min(Deadlines(t))
    BY <1>2, <2>1, DeadlinesFacts
  <2>3. /\ Min(Deadlines(p)) \in Deadlines(p)
        /\ Min(Deadlines(t)) \in Deadlines(t)
        /\ \A n \in Deadlines(t) : Min(Deadlines(t)) <= n
    BY <1>2, <2>1, <2>2, MinFacts
  <2>4. QED
    BY <1>2, <2>1, <2>2, <2>3
<1>4. IsCancelled(p) => IsCancelled(t)
  <2>1. InnerIsCancelled(p) => InnerIsCancelled(t)
    BY <1>1 DEF InnerIsCancelled
  <2>2. HasDeadline(p) /\ clock >= EffectiveDeadline(p)
          => HasDeadline(t) /\ clock >= EffectiveDeadline(t)
    BY <1>2, <1>3
  <2>3. QED
    BY <2>1, <2>2, CancelledBy
<1>5. HasDeadline(p) => HasDeadline(t) /\ Remaining(t) <= Remaining(p)
  <2> SUFFICES ASSUME HasDeadline(p)
               PROVE  HasDeadline(t) /\ Remaining(t) <= Remaining(p)
    OBVIOUS
  <2>1. ASSUME NEW d \in Nat
        PROVE  Max({d - clock, 0}) = IF d > clock THEN d - clock ELSE 0
    <3> DEFINE more == IF d > clock THEN d - clock ELSE 0
               S == {d - clock, 0}
    <3>1. d - clock \in Int /\ more \in S /\ \A y \in S : more >= y
      BY <1>2
    <3>2. \A x \in S : (\A y \in S : x >= y) => x = more
      BY <1>2
    <3> HIDE DEF more, S
    <3>3. Max(S) = CHOOSE x \in S : \A y \in S : x >= y
      BY DEF Max
    <3>4. Max(S) \in S /\ \A y \in S : Max(S) >= y
      BY <3>1, <3>3
    <3>5. QED
      BY <3>2, <3>4 DEF more, S
  <2>2. /\ Remaining(t) = Max({EffectiveDeadline(t) - clock, 0})
        /\ Remaining(p) = Max({EffectiveDeadline(p) - clock, 0})
    BY <1>3 DEF Remaining
  <2> DEFINE d == EffectiveDeadline(t)
             e == EffectiveDeadline(p)
  <2>3. d \in Nat /\ e \in Nat /\ d <= e /\ clock \in Nat
    BY <1>2, <1>3
  <2> HIDE DEF d, e
  <2>4. /\ Max({d - clock, 0}) = IF d > clock THEN d - clock ELSE 0
        /\ Max({e - clock, 0}) = IF e > clock THEN e - clock ELSE 0
    BY <2>1, <2>3
  <2>5. Max({d - clock, 0}) <= Max({e - clock, 0})
    BY <2>3, <2>4
  <2>6. QED
    BY <1>3, <2>2, <2>5 DEF d, e
<1>6. QED
  BY <1>4, <1>5 DEF p

LEMMA TokenInitially == GuardsInit => TokenKept
BY DEF GuardsInit, TokenKept

LEMMA TokenMade ==
  ASSUME TokenKept, NEW budget \in TokenBudgets \union {None}, NEW stopped \in BOOLEAN,
         NEW parent \in DOMAIN tokens \union {None}, MakeToken(parent, budget, stopped)
  PROVE  TokenKept'
<1> DEFINE made == [cancelled |-> stopped, deadline |-> DeadlineOf(budget), parent |-> parent]
<1>1. tokens' = Append(tokens, made) /\ clock' = clock
  BY DEF MakeToken
<1>2. DeadlineOf(budget) \in Nat \union {None}
  BY GuardsAssumption DEF DeadlineOf, TokenKept
<1>3. parent \in Nat \union {None}
  BY DEF TokenKept
<1>4. made \in Token
  BY <1>2, <1>3 DEF Token
<1>5. /\ Len(tokens) \in Nat /\ DOMAIN tokens = 1..Len(tokens)
      /\ DOMAIN tokens' = 1..(Len(tokens) + 1)
      /\ tokens'[Len(tokens) + 1] = made
      /\ \A t \in DOMAIN tokens : tokens'[t] = tokens[t]
      /\ tokens' \in Seq(Token)
  <2> HIDE DEF made
  <2>1. QED
    BY <1>1, <1>4 DEF TokenKept
<1>6. \A t \in DOMAIN tokens' :
        tokens'[t].parent # None => tokens'[t].parent \in 1..(t - 1)
  <2> TAKE t \in DOMAIN tokens'
  <2>1. CASE t \in DOMAIN tokens
    BY <1>5, <2>1 DEF TokenKept
  <2>2. CASE t \notin DOMAIN tokens
    <3>1. t = Len(tokens) + 1 /\ tokens'[t].parent = parent
      BY <1>5, <2>2
    <3>2. QED
      BY <1>5, <3>1
  <2>3. QED
    BY <2>1, <2>2
<1>7. QED
  BY <1>1, <1>5, <1>6 DEF TokenKept

LEMMA TokenStep == TokenKept /\ [GuardsNext]_guardVars => TokenKept'
<1> SUFFICES ASSUME TokenKept, [GuardsNext]_guardVars PROVE TokenKept'
  OBVIOUS
<1>1. CASE \/ NeverCancelled \/ AlreadyCancelled
           \/ \E b \in TokenBudgets \ {None} : WithBudget(b)
  BY <1>1, TokenMade DEF NeverCancelled, AlreadyCancelled, WithBudget
<1>2. ASSUME NEW t \in 1..MaxTokens, NEW b \in TokenBudgets \union {None},
             ChildWithBudget(t, b)
      PROVE  TokenKept'
  BY <1>2, TokenMade DEF ChildWithBudget
<1>3. ASSUME NEW t \in 1..MaxTokens, Cancel(t) PROVE TokenKept'
  <2>1. /\ t \in DOMAIN tokens /\ clock' = clock
        /\ tokens' = [tokens EXCEPT ![t].cancelled = TRUE]
    BY <1>3 DEF Cancel
  <2> DEFINE stopped == [tokens[t] EXCEPT !.cancelled = TRUE]
  <2>2. tokens[t] \in Token
    BY <2>1 DEF TokenKept
  <2>3. stopped \in Token /\ stopped.parent = tokens[t].parent
    BY <2>2 DEF Token
  <2>4. tokens' = [tokens EXCEPT ![t] = stopped]
    BY <2>1
  <2> HIDE DEF stopped
  <2>5. DOMAIN tokens' = DOMAIN tokens /\ tokens' \in Seq(Token)
    <3>1. tokens \in [1..Len(tokens) -> Token] /\ Len(tokens) \in Nat
      BY DEF TokenKept
    <3>2. tokens' \in [1..Len(tokens) -> Token]
      BY <2>3, <2>4, <3>1
    <3>3. QED
      BY <3>1, <3>2
  <2>6. ASSUME NEW u \in DOMAIN tokens
        PROVE  tokens'[u].parent = tokens[u].parent
    <3>1. tokens'[u] = IF u = t THEN stopped ELSE tokens[u]
      BY <2>4
    <3>2. QED
      BY <2>3, <3>1
  <2>7. clock' \in Nat /\ \A u \in DOMAIN tokens' :
          tokens'[u].parent # None => tokens'[u].parent \in 1..(u - 1)
    BY <2>1, <2>5, <2>6 DEF TokenKept
  <2>8. QED
    BY <2>5, <2>7 DEF TokenKept
<1>4. CASE Elapse
  BY <1>4 DEF Elapse, TokenKept
<1>5. CASE UNCHANGED guardVars
  BY <1>5 DEF guardVars, TokenKept
<1>6. QED
  BY <1>1, <1>2, <1>3, <1>4, <1>5 DEF GuardsNext, Child

(* Whatever tokens are made of which others, with what budgets, and        *)
(* whenever any of them is cancelled: a token stops no later than the one  *)
(* it is of, and has no more time left (cancel.rs:77).                     *)
THEOREM TokensStopWithParents == LawsSpec => []StopsWithItsParent
<1>1. LawsInit => TokenKept
  BY TokenInitially DEF LawsInit
<1>2. TokenKept /\ [LawsNext]_lawVars => TokenKept'
  <2>1. [LawsNext]_lawVars => [GuardsNext]_guardVars
    BY DEF LawsNext, lawVars, TakeSample, Identifies, Tabulates, Guarding,
       Builds, Walks
  <2>2. QED
    BY <2>1, TokenStep
<1>3. QED
  BY <1>1, <1>2, StopsWithParent, PTL DEF LawsSpec

-----------------------------------------------------------------------------
(* Trust: of what is made of several values, no less than any of them.     *)
Levels == Range(TrustLevels)
Values == [value : {"text", "made of it"}, trust : Levels]
Made(c, level) == MappedTo(CombinedWith(c, Classified("text", level)), "made of it")

LEMMA TrustFacts ==
  ASSUME NEW a \in Levels, NEW b \in Levels
  PROVE  /\ TrustOf(a) \in 1..4
         /\ Combine(a, b) \in {a, b}
         /\ TrustOf(Combine(a, b)) >= TrustOf(a)
         /\ TrustOf(Combine(a, b)) >= TrustOf(b)
         /\ TrustOf(a) = 1 <=> a = "internal"
<1>1. ASSUME NEW l \in Levels
      PROVE  TrustOf(l) \in 1..4 /\ TrustLevels[TrustOf(l)] = l
  <2>1. DOMAIN TrustLevels = 1..4
    BY DEF TrustLevels
  <2>2. \E i \in DOMAIN TrustLevels : TrustLevels[i] = l
    BY DEF Range, Levels
  <2>3. QED
    BY <2>1, <2>2 DEF TrustOf
<1>2. TrustLevels[1] = "internal" /\ \A i \in 2..4 : TrustLevels[i] # "internal"
  BY DEF TrustLevels
<1>3. TrustOf(a) = 1 <=> a = "internal"
  BY <1>1, <1>2
<1>4. QED
  BY <1>1, <1>3 DEF Combine

LEMMA MadeFacts ==
  ASSUME NEW c \in Values, NEW level \in Levels
  PROVE  /\ Made(c, level) \in Values
         /\ Made(c, level).trust = Combine(c.trust, level)
<1>1. Combine(c.trust, level) \in Levels
  <2>1. c.trust \in Levels
    BY DEF Values
  <2>2. Combine(c.trust, level) \in {c.trust, level}
    BY <2>1, TrustFacts
  <2>3. QED
    BY <2>1, <2>2
<1>2. CombinedWith(c, Classified("text", level)) = [c EXCEPT !.trust = Combine(c.trust, level)]
  BY DEF CombinedWith, Classified, Values
<1>3. QED
  BY <1>1, <1>2 DEF Made, MappedTo, Values

LEMMA TrustHolds == Sampled("trust") /\ sample \in Seq(Levels) => TrustOnlyFalls
<1> SUFFICES ASSUME sample \in Seq(Levels), Sampled("trust")
             PROVE  TrustOnlyFalls
  OBVIOUS
<1> DEFINE N == Len(sample)
           base == Classified("text", "internal")
           step == [x \in Values \X (1..N) |-> Made(x[1], sample[x[2]])]
           Equation(f) ==
             f = [n \in 0..N |-> IF n = 0 THEN base ELSE Made(f[n - 1], sample[n])]
           made == CHOOSE f : Equation(f)
           whole == made[N]
<1>1. N \in Nat /\ DOMAIN sample = 1..N /\ \A k \in 1..N : sample[k] \in Levels
  OBVIOUS
<1>2. base \in Values
  BY DEF Classified, Values, Levels, TrustLevels, Range
<1>3. step \in [Values \X (1..N) -> Values]
  BY <1>1, MadeFacts
<1>4. \E f \in [0..N -> Values] : Equation(f)
  <2> HIDE DEF base
  <2>1. PICK f \in [0..N -> Values] : Iterates(f, N, base, step)
    <3> HIDE DEF step, N
    <3>1. QED
      BY <1>1, <1>2, <1>3, Recursion, Zenon
  <2>2. ASSUME NEW k \in 1..N
        PROVE  f[k] = Made(f[k - 1], sample[k])
    <3>1. f[k - 1] \in Values /\ <<f[k - 1], k>> \in Values \X (1..N)
      BY <1>1
    <3>2. QED
      BY <2>1, <3>1 DEF Iterates
  <2>3. Equation(f)
    BY <1>1, <2>1, <2>2 DEF Iterates
  <2>4. QED
    BY <2>3
<1>5. Equation(made)
  BY <1>4
<1>6. /\ made[0] = base
      /\ \A k \in 1..N : made[k] = Made(made[k - 1], sample[k])
  <2> HIDE DEF made, base
  <2>1. QED
    BY <1>1, <1>5
<1> DEFINE Falls(n) ==
             /\ made[n] \in Values
             /\ \A i \in 1..n : TrustOf(made[n].trust) >= TrustOf(sample[i])
             /\ made[n].trust \in {"internal"} \union {sample[i] : i \in 1..n}
           S == {n \in Nat : n <= N => Falls(n)}
<1> HIDE DEF made
<1>7. 0 \in S
  BY <1>2, <1>6 DEF Classified
<1>8. ASSUME NEW n \in Nat, n \in S
      PROVE  n + 1 \in S
  <2> SUFFICES ASSUME n + 1 <= N
               PROVE  Falls(n + 1)
    OBVIOUS
  <2> DEFINE c == made[n]
             d == made[n + 1]
             level == sample[n + 1]
  <2>1. Falls(n) /\ n + 1 \in 1..N /\ level \in Levels
    BY <1>1, <1>8
  <2>2. d = Made(c, level)
    <3>1. (n + 1) - 1 = n
      OBVIOUS
    <3>2. QED
      BY <1>6, <2>1, <3>1
  <2>3. c \in Values /\ c.trust \in Levels
    BY <2>1 DEF Values
  <2>4. d \in Values /\ d.trust = Combine(c.trust, level)
    BY <2>1, <2>2, <2>3, MadeFacts
  <2>5. /\ d.trust \in {c.trust, level}
        /\ TrustOf(d.trust) >= TrustOf(c.trust) /\ TrustOf(d.trust) >= TrustOf(level)
        /\ TrustOf(c.trust) \in Int /\ TrustOf(d.trust) \in Int
        /\ \A i \in 1..n : TrustOf(sample[i]) \in Int
    <3>1. d.trust \in Levels
      BY <2>4 DEF Values
    <3>2. \A i \in 1..n : sample[i] \in Levels
      BY <1>1, <2>1
    <3>3. \A l \in Levels : TrustOf(l) \in Int
      BY TrustFacts
    <3>4. QED
      BY <2>1, <2>3, <2>4, <3>1, <3>2, <3>3, TrustFacts
  <2>6. \A i \in 1..(n + 1) : i = n + 1 \/ i \in 1..n
    OBVIOUS
  <2>7. \A i \in 1..(n + 1) : TrustOf(d.trust) >= TrustOf(sample[i])
    <3> HIDE DEF d
    <3>1. QED
      BY <2>1, <2>5, <2>6
  <2>8. d.trust \in {"internal"} \union {sample[i] : i \in 1..(n + 1)}
    <3>1. n + 1 \in 1..(n + 1) /\ 1..n \subseteq 1..(n + 1)
      OBVIOUS
    <3> HIDE DEF d
    <3>2. QED
      BY <2>1, <2>5, <3>1
  <2>9. QED
    BY <2>4, <2>7, <2>8
<1>9. Falls(N)
  <2>1. N \in S
    <3> HIDE DEF S
    <3>1. QED
      BY <1>1, <1>7, <1>8, InductionBySet
  <2>2. QED
    BY <1>1, <2>1
<1>10. whole.trust = "internal" <=> Range(sample) \subseteq {"internal"}
  <2>1. Range(sample) = {sample[i] : i \in 1..N}
    BY <1>1 DEF Range
  <2>2. whole.trust \in Levels
    BY <1>9 DEF Values
  <2>3. ASSUME whole.trust = "internal", NEW i \in 1..N
        PROVE  sample[i] = "internal"
    BY <1>1, <1>9, <2>2, <2>3, TrustFacts
  <2>4. QED
    BY <1>9, <2>1, <2>3
<1>11. /\ ExposeFor(whole, "instruction") # None => whole.trust = "internal"
       /\ ExposeFor(whole, "model_context").delimited <=> whole.trust # "internal"
  BY DEF ExposeFor, MayBeInstruction, RequiresDelimiting
<1>12. whole = (LET Derived[n \in 0 .. Len(sample)] ==
          IF n = 0 THEN Classified("text", "internal")
          ELSE MappedTo(CombinedWith(Derived[n - 1], Classified("text", sample[n])), "made of it")
          IN Derived[Len(sample)])
  BY DEF made, Made
<1>13. QED
  <2> HIDE DEF whole
  <2>1. \A i \in DOMAIN sample : TrustOf(whole.trust) >= TrustOf(sample[i])
    BY <1>1, <1>9 DEF whole
  <2>2. QED
    BY <1>10, <1>11, <1>12, <2>1 DEF TrustOnlyFalls, Every

LEMMA RatiosHold ==
  Sampled("ratio") /\ sample \in [ratio : Nat, input : Nat, output : Nat] => RatioHolds
<1> SUFFICES ASSUME NEW ratio \in Nat, NEW input \in Nat, NEW output \in Nat
             PROVE  /\ output < Word => (RatioPermits(ratio, input, output) <=> output <= input * ratio)
                    /\ RatioPermits(ratio, input, output + 1) => RatioPermits(ratio, input, output)
  BY DEF RatioHolds
<1>1. input * ratio \in Nat /\ (input = 0 => input * ratio = 0)
  OBVIOUS
<1> DEFINE product == input * ratio
<1> HIDE DEF product
<1>2. product \in Nat /\ (input = 0 => product = 0)
  BY <1>1 DEF product
<1>3. \A o \in Nat : RatioPermits(ratio, input, o) <=>
        IF input = 0 THEN o = 0 ELSE product >= 16 \/ o <= product
  BY DEF RatioPermits, Word, product
<1>4. /\ output < 16 => (RatioPermits(ratio, input, output) <=> output <= product)
      /\ RatioPermits(ratio, input, output + 1) => RatioPermits(ratio, input, output)
  BY <1>2, <1>3
<1>5. QED
  BY <1>4 DEF product, Word

(* Each range has its default in it.                                       *)
LEMMA DefaultsHold ==
  \A part \in DOMAIN ResourceBounds : \A n \in DOMAIN ResourceBounds[part] :
    LET b == ResourceBounds[part][n] IN
    b.min \in Int /\ b.max \in Int /\ b.default \in b.min .. b.max
BY DEF ResourceBounds, InputBounds, ArchiveBounds, XmlBounds, ResponseBounds, Between

LEMMA LimitsAreHeld ==
  ASSUME Sampled("limits"), sample.part \in DOMAIN ResourceBounds,
         sample.name \in DOMAIN ResourceBounds[sample.part], sample.value \in Int
  PROVE  LimitsHold
<1> DEFINE built == [part \in DOMAIN ResourceBounds |-> DefaultLimits(ResourceBounds[part])]
           p == sample.part
           m == sample.name
           bounds == ResourceBounds[p][m]
           set == [built EXCEPT ![p] = [@ EXCEPT ![m] = sample.value]]
<1>1. \A part \in DOMAIN ResourceBounds : \A n \in DOMAIN ResourceBounds[part] :
        built[part][n] = ResourceBounds[part][n].default
  BY DEF DefaultLimits
<1>2. \A part \in DOMAIN ResourceBounds : \A n \in DOMAIN ResourceBounds[part] :
        set[part][n] = IF part = p /\ n = m THEN sample.value ELSE built[part][n]
  BY DEF DefaultLimits
<1>3. \A limits : ResourceLimitsValidated(limits) <=>
        \A part \in DOMAIN ResourceBounds : \A n \in DOMAIN ResourceBounds[part] :
          limits[part][n] \in ResourceBounds[part][n].min .. ResourceBounds[part][n].max
  BY DEF ResourceLimitsValidated, ValidatedLimits, CheckLimit
<1>4. ResourceLimitsValidated(built)
  BY <1>1, <1>3, DefaultsHold
<1>5. ResourceLimitsValidated(set) <=> sample.value \in bounds.min .. bounds.max
  <2> HIDE DEF set, built
  <2>1. QED
    BY <1>1, <1>2, <1>3, DefaultsHold
<1>6. sample.value \in bounds.min .. bounds.max <=> bounds.min <= sample.value /\ sample.value <= bounds.max
  BY DefaultsHold
<1>7. QED
  BY <1>4, <1>5, <1>6 DEF LimitsHold

(* A fetch: where it stands after some turns of its loop.                  *)
Places(f) == DOMAIN f.replies
Results(f) ==
  {None, "denied", "transport", "too_large"}
  \union UNION {[status : {f.replies[u].status}, size : {0, f.replies[u].size}] : u \in Places(f)}
Contacts(f) ==
  {[url |-> u, to |-> f.lookups[n][u.host].connected] : u \in Places(f), n \in Nat}
Fetching(f) ==
  [url : Places(f), redirects : Nat, contacted : Seq(Contacts(f)), result : Results(f)]

Checked(f, n, u) == CheckUrl(f.policy, u, f.lookups[n])
Once(f, s) == FetchOnce(f.policy, s, f.lookups, f.replies)

(* The request that comes next, if it is sent.                             *)
Coming(s) == Len(s.contacted) + 1
Contact(f, s) ==
  [url |-> s.url, to |-> f.lookups[Coming(s)][s.url.host].connected]
GoesOut(f, s) == Checked(f, Coming(s), s.url)

Followed(f, s, t) ==
  /\ t \in Fetching(f)
  /\ t.contacted = s.contacted
  /\ t.result = None =>
       /\ s.redirects < f.policy.max_redirects
       /\ t.redirects = s.redirects + 1
       /\ s.url.scheme = "https" /\ t.url.scheme = "http"
            => f.policy.allow_redirect_downgrade
  /\ t.url # s.url => t.result = None

LEMMA FollowFacts ==
  ASSUME NEW f, Fetchable(f), NEW s \in Fetching(f), NEW from \in Places(f),
         from = s.url, s.result = None, None \notin {"denied", "transport", "too_large"}
  PROVE  Followed(f, s, Follow(f.policy, s, f.replies[from]))
<1> DEFINE reply == f.replies[from]
           target == Leads(s.url, reply)
           p == f.policy
<1> HIDE DEF reply, target
<1>1. CASE target = None
  <2>1. Follow(p, s, reply) = [s EXCEPT !.result = "transport"]
    BY <1>1 DEF Follow, target
  <2>2. [s EXCEPT !.result = "transport"] \in Fetching(f)
    BY DEF Fetching, Results
  <2>3. QED
    BY <2>1, <2>2 DEF Fetching, reply, Followed
<1>2. CASE /\ target # None
           /\ ~SplitUrl(target) \/ ~PermitsRedirect(p, s.redirects, s.url.scheme, target.scheme)
  <2>1. Follow(p, s, reply) = [s EXCEPT !.result = "denied"]
    BY <1>2 DEF Follow, target
  <2>2. [s EXCEPT !.result = "denied"] \in Fetching(f)
    BY DEF Fetching, Results
  <2>3. QED
    BY <2>1, <2>2 DEF Fetching, reply, Followed
<1>3. CASE /\ target # None
           /\ SplitUrl(target) /\ PermitsRedirect(p, s.redirects, s.url.scheme, target.scheme)
  <2> DEFINE t == [s EXCEPT !.url = target, !.redirects = @ + 1]
  <2>1. Follow(p, s, reply) = t
    BY <1>3 DEF Follow, target
  <2>2. target \in Places(f)
    BY <1>3 DEF Fetchable, Places, target, reply
  <2>3. t \in Fetching(f) /\ t.url = target /\ t.redirects = s.redirects + 1
        /\ t.contacted = s.contacted /\ t.result = None
    <3> DEFINE S == Seq(Contacts(f))
    <3> HIDE DEF S
    <3>1. s \in [url : Places(f), redirects : Nat, contacted : S, result : Results(f)]
      BY DEF Fetching, S
    <3>2. t \in [url : Places(f), redirects : Nat, contacted : S, result : Results(f)]
      <4> DEFINE n == s.redirects + 1
      <4>1. n \in Nat
        BY <3>1
      <4> HIDE DEF n
      <4>2. [s EXCEPT !.url = target, !.redirects = n]
              \in [url : Places(f), redirects : Nat, contacted : S, result : Results(f)]
        BY <2>2, <3>1, <4>1
      <4>3. QED
        BY <4>2 DEF n
    <3>3. t.url = target /\ t.redirects = s.redirects + 1
          /\ t.contacted = s.contacted /\ t.result = None
      BY <3>1
    <3>4. QED
      BY <3>2, <3>3 DEF Fetching, S
  <2>4. /\ s.redirects < p.max_redirects
        /\ s.url.scheme = "https" /\ target.scheme = "http" => p.allow_redirect_downgrade
    BY <1>3 DEF PermitsRedirect
  <2> HIDE DEF t
  <2>5. Follow(p, s, f.replies[from]) = t
    BY <2>1 DEF reply
  <2>6. t.url # s.url => t.result = None
    BY <2>3
  <2>7. QED
    BY <2>3, <2>4, <2>5, <2>6, Zenon DEF Followed
<1>4. QED
  BY <1>1, <1>2, <1>3

(* A turn asks a place only after it was checked, and goes on only where a *)
(* redirect is permitted.                                                  *)
LEMMA TurnFacts ==
  ASSUME NEW f, Fetchable(f), NEW s \in Fetching(f), s.result = None,
         None \notin {"denied", "transport", "too_large"}
  PROVE  /\ Once(f, s) \in Fetching(f)
         /\ ~GoesOut(f, s) =>
              Once(f, s).contacted = s.contacted /\ Once(f, s).result # None
         /\ GoesOut(f, s) => Once(f, s).contacted = Append(s.contacted, Contact(f, s))
         /\ Once(f, s).result = None =>
              /\ s.redirects < f.policy.max_redirects
              /\ Once(f, s).redirects = s.redirects + 1
              /\ s.url.scheme = "https" /\ Once(f, s).url.scheme = "http"
                   => f.policy.allow_redirect_downgrade
         /\ Once(f, s).url # s.url =>
              Once(f, s).result = None
<1> DEFINE reply == f.replies[s.url]
           sent == [s EXCEPT !.contacted = Append(@, Contact(f, s))]
           p == f.policy
<1>1. /\ s.url \in Places(f) /\ s.contacted \in Seq(Contacts(f)) /\ s.redirects \in Nat
      /\ Contact(f, s) \in Contacts(f)
  <2>1. /\ s.url \in Places(f) /\ s.contacted \in Seq(Contacts(f)) /\ s.redirects \in Nat
    BY DEF Fetching
  <2>2. Coming(s) \in Nat
    BY <2>1 DEF Coming
  <2>3. Contact(f, s) \in Contacts(f)
    BY <2>1, <2>2 DEF Contact, Contacts
  <2>4. QED
    BY <2>1, <2>3
<1>2. /\ sent \in Fetching(f) /\ sent.contacted = Append(s.contacted, Contact(f, s))
      /\ sent.url = s.url /\ sent.redirects = s.redirects /\ sent.result = None
  BY <1>1 DEF Fetching
<1>3. /\ reply.status \in Nat \union {None} /\ reply.size \in Nat
      /\ None \notin [status : {reply.status}, size : {0, reply.size}]
  BY <1>1 DEF Fetchable, Places
<1>4. ASSUME NEW r \in Results(f), r # None, Once(f, s) = [sent EXCEPT !.result = r],
             GoesOut(f, s)
      PROVE  LET t == Once(f, s) IN
             /\ t \in Fetching(f) /\ t.contacted = sent.contacted
             /\ t.result # None /\ t.url = s.url
  <2> HIDE DEF sent
  <2>1. QED
    BY <1>2, <1>4 DEF Fetching
<1>5. CASE ~GoesOut(f, s)
  <2>1. Once(f, s) = [s EXCEPT !.result = "denied"]
    BY <1>5 DEF Once, FetchOnce, GoesOut, Checked, Coming, Contact
  <2>2. [s EXCEPT !.result = "denied"] \in Fetching(f)
    BY DEF Fetching, Results
  <2>3. QED
    BY <1>5, <2>1, <2>2 DEF Fetching
<1>6. CASE GoesOut(f, s) /\ reply.status # None /\ IsRedirect(reply.status)
  <2>1. Once(f, s) = Follow(p, sent, reply)
    BY <1>6 DEF Once, FetchOnce, GoesOut, Checked, Coming, Contact
  <2> HIDE DEF sent
  <2>2. Followed(f, sent, Follow(p, sent, reply))
    BY <1>1, <1>2, FollowFacts
  <2> DEFINE t == Once(f, s)
  <2>3. Followed(f, sent, t)
    BY <2>1, <2>2
  <2> HIDE DEF t
  <2>4. /\ t \in Fetching(f) /\ t.contacted = sent.contacted
        /\ t.url # sent.url => t.result = None
        /\ t.result = None =>
             /\ sent.redirects < p.max_redirects
             /\ t.redirects = sent.redirects + 1
             /\ sent.url.scheme = "https" /\ t.url.scheme = "http"
                  => p.allow_redirect_downgrade
    BY <2>3 DEF Followed
  <2>5. /\ t \in Fetching(f) /\ t.contacted = Append(s.contacted, Contact(f, s))
        /\ t.url # s.url => t.result = None
        /\ t.result = None =>
             /\ s.redirects < p.max_redirects
             /\ t.redirects = s.redirects + 1
             /\ s.url.scheme = "https" /\ t.url.scheme = "http"
                  => p.allow_redirect_downgrade
    BY <1>2, <2>4
  <2>6. QED
    BY <1>6, <2>5 DEF t
<1>7. CASE GoesOut(f, s) /\ ~(reply.status # None /\ IsRedirect(reply.status))
  <2>1. \E r \in Results(f) : r # None /\ Once(f, s) = [sent EXCEPT !.result = r]
    <3>1. \A size \in {0, reply.size} :
            [status |-> reply.status, size |-> size] \in Results(f) \ {None}
      <4>1. \A size \in {0, reply.size} : [status |-> reply.status, size |-> size]
              \in [status : {reply.status}, size : {0, reply.size}]
        OBVIOUS
      <4>2. QED
        BY <1>1, <1>3, <4>1 DEF Results
    <3>2. {"transport", "too_large"} \subseteq Results(f) \ {None}
      BY DEF Results
    <3>3. CASE reply.status = None
      <4>1. Once(f, s) = [sent EXCEPT !.result = "transport"]
        BY <1>7, <3>3 DEF Once, FetchOnce, GoesOut, Checked, Coming, Contact
      <4>2. QED
        BY <3>2, <4>1
    <3>4. CASE reply.status # None
      <4>1. Once(f, s) \in {[sent EXCEPT !.result = "too_large"],
                            [sent EXCEPT !.result = [status |-> reply.status, size |-> 0]],
                            [sent EXCEPT !.result = [status |-> reply.status, size |-> reply.size]]}
        BY <1>7, <3>4 DEF Once, FetchOnce, GoesOut, Checked, Coming, Contact
      <4>2. QED
        BY <3>1, <3>2, <4>1
    <3>5. QED
      BY <3>3, <3>4
  <2> HIDE DEF sent
  <2>2. PICK r \in Results(f) : r # None /\ Once(f, s) = [sent EXCEPT !.result = r]
    BY <2>1
  <2>3. QED
    BY <1>2, <1>4, <1>7, <2>2
<1>8. QED
  BY <1>5, <1>6, <1>7

NoneAside == None \notin {"denied", "transport", "too_large"}
Turns(f) == f.policy.max_redirects + 1
Turn(f, s) == IF s.result # None THEN s ELSE Once(f, s)

(* What is true of a fetch after n turns: as many redirects as turns while *)
(* it goes on, every request checked, none down from a secure place unless *)
(* that is allowed, and the first to where it began.                       *)
Downward(f, from, to) ==
  from.scheme = "https" /\ to.scheme = "http" => f.policy.allow_redirect_downgrade

FirstHop(f) == [url |-> f.start, to |-> f.lookups[1][f.start.host].connected]

(* The i-th request was checked, and went where its lookup said.           *)
Sent(f, i, contact) ==
  /\ Checked(f, i, contact.url)
  /\ contact.to = f.lookups[i][contact.url.host].connected

OnItsWay(f, s, n) ==
  /\ s \in Fetching(f)
  /\ Len(s.contacted) <= n
  /\ s.result = None => s.redirects = n /\ n <= f.policy.max_redirects
  /\ \A i \in 1 .. Len(s.contacted) : Sent(f, i, s.contacted[i])
  /\ \A i \in 1 .. Len(s.contacted) - 1 :
       Downward(f, s.contacted[i].url, s.contacted[i + 1].url)
  /\ s.result = None /\ Len(s.contacted) > 0 =>
       Downward(f, s.contacted[Len(s.contacted)].url, s.url)
  /\ n = 0 => s = Unsent(f.start, 0)
  /\ n > 0 => IF Checked(f, 1, f.start) THEN Len(s.contacted) > 0 /\ s.contacted[1] = FirstHop(f)
              ELSE s.contacted = <<>> /\ s.result # None

LEMMA FetchBegins ==
  ASSUME NEW f, Fetchable(f)
  PROVE  OnItsWay(f, Unsent(f.start, 0), 0)
<1>1. Unsent(f.start, 0) \in Fetching(f)
  BY DEF Unsent, Fetching, Fetchable, Places, Results
<1>2. f.policy.max_redirects \in Nat
  BY DEF Fetchable
<1>3. /\ Unsent(f.start, 0).contacted = <<>>
      /\ Unsent(f.start, 0).redirects = 0
  BY DEF Unsent
<1>4. QED
  BY <1>1, <1>2, <1>3 DEF OnItsWay

LEMMA FetchGoesOn ==
  ASSUME NEW f, Fetchable(f), NoneAside, NEW n \in Nat, NEW s, OnItsWay(f, s, n)
  PROVE  OnItsWay(f, Turn(f, s), n + 1)
<1> DEFINE t == Once(f, s)
           had == s.contacted
           has == t.contacted
           c == Contact(f, s)
<1>1. s \in Fetching(f) /\ had \in Seq(Contacts(f)) /\ Len(had) \in Nat /\ s.url \in Places(f)
  BY DEF OnItsWay, Fetching
<1>2. CASE s.result # None
  <2>1. Turn(f, s) = s
    BY <1>2 DEF Turn
  <2>2. n > 0
    BY <1>2 DEF OnItsWay, Unsent
  <2>3. QED
    BY <1>1, <1>2, <2>1, <2>2 DEF OnItsWay
<1>3. CASE s.result = None /\ ~GoesOut(f, s)
  <2>1. Turn(f, s) = t /\ t \in Fetching(f) /\ has = had /\ t.result # None
    BY <1>1, <1>3, TurnFacts DEF Turn, NoneAside
  <2>2. IF Checked(f, 1, f.start) THEN Len(had) > 0 /\ had[1] = FirstHop(f)
        ELSE had = <<>>
    <3>1. CASE n = 0
      <4>1. had = <<>> /\ s.url = f.start
        BY <3>1 DEF OnItsWay, Unsent
      <4>2. ~Checked(f, 1, f.start)
        BY <1>3, <4>1 DEF GoesOut, Coming
      <4>3. QED
        BY <4>1, <4>2
    <3>2. CASE n > 0
      BY <1>3, <3>2 DEF OnItsWay
    <3>3. QED
      BY <3>1, <3>2
  <2> HIDE DEF t
  <2>3. QED
    BY <1>1, <1>3, <2>1, <2>2 DEF OnItsWay
<1>4. CASE s.result = None /\ GoesOut(f, s)
  <2>1. /\ Turn(f, s) = t /\ t \in Fetching(f) /\ has = Append(had, c)
        /\ t.result = None => /\ s.redirects < f.policy.max_redirects
                              /\ t.redirects = s.redirects + 1
                              /\ Downward(f, s.url, t.url)
    BY <1>1, <1>4, TurnFacts DEF Turn, NoneAside, Downward
  <2>c. c \in Contacts(f) /\ c.url = s.url /\ Sent(f, Len(had) + 1, c)
    BY <1>1, <1>4 DEF Sent, Contact, Contacts, Coming, GoesOut
  <2> HIDE DEF t, c
  <2>2. /\ Len(has) = Len(had) + 1 /\ has[Len(had) + 1] = c
        /\ \A i \in 1 .. Len(had) : has[i] = had[i]
    BY <1>1, <2>1, <2>c
  <2>3. /\ s.redirects = n /\ n \in Nat /\ Len(had) <= n
        /\ f.policy.max_redirects \in Nat
    BY <1>4 DEF OnItsWay, Fetchable
  <2>4. Len(has) <= n + 1 /\ (t.result = None => t.redirects = n + 1 /\ n + 1 <= f.policy.max_redirects)
    BY <1>1, <2>1, <2>2, <2>3
  <2>5. \A i \in 1 .. Len(has) : Sent(f, i, has[i])
    <3>1. \A i \in 1 .. Len(had) : Sent(f, i, had[i])
      BY DEF OnItsWay
    <3>2. \A i \in 1 .. Len(has) : i \in 1 .. Len(had) \/ i = Len(had) + 1
      BY <1>1, <2>2
    <3>3. QED
      BY <2>2, <2>c, <3>1, <3>2
  <2>6. \A i \in 1 .. Len(has) - 1 : Downward(f, has[i].url, has[i + 1].url)
    <3> TAKE i \in 1 .. Len(has) - 1
    <3>1. CASE i = Len(had)
      <4>1. Len(had) > 0 /\ Downward(f, had[Len(had)].url, s.url)
        BY <1>1, <1>4, <2>2, <3>1 DEF OnItsWay
      <4>2. has[i] = had[Len(had)] /\ has[i + 1].url = s.url
        BY <1>1, <2>2, <2>c, <3>1
      <4>3. QED
        BY <4>1, <4>2
    <3>2. CASE i # Len(had)
      <4>1. i \in 1 .. Len(had) - 1 /\ i \in 1 .. Len(had) /\ i + 1 \in 1 .. Len(had)
        BY <1>1, <2>2, <3>2
      <4>2. Downward(f, had[i].url, had[i + 1].url)
        BY <4>1 DEF OnItsWay
      <4>3. QED
        BY <2>2, <4>1, <4>2
    <3>3. QED
      BY <3>1, <3>2
  <2>7. t.result = None => Downward(f, has[Len(has)].url, t.url)
    BY <2>1, <2>2, <2>c
  <2>8. Checked(f, 1, f.start) /\ Len(has) > 0 /\ has[1] = FirstHop(f)
    <3>1. CASE n = 0
      <4>1. had = <<>> /\ s.url = f.start
        BY <3>1 DEF OnItsWay, Unsent
      <4>2. Checked(f, 1, f.start) /\ c = FirstHop(f)
        BY <1>4, <4>1 DEF GoesOut, Coming, Contact, FirstHop, c
      <4>3. QED
        BY <2>2, <4>1, <4>2
    <3>2. CASE n > 0
      <4>1. Checked(f, 1, f.start) /\ Len(had) > 0 /\ had[1] = FirstHop(f)
        BY <1>4, <3>2 DEF OnItsWay
      <4>2. QED
        BY <1>1, <2>2, <4>1
    <3>3. QED
      BY <2>3, <3>1, <3>2
  <2>9. t \in Fetching(f) /\ n + 1 > 0 /\ n + 1 # 0 /\ Turn(f, s) = t
    BY <2>1, <2>3
  <2>10. OnItsWay(f, t, n + 1)
    <3> HIDE DEF has
    <3>1. QED
      BY <2>4, <2>5, <2>6, <2>7, <2>8, <2>9 DEF OnItsWay, has
  <2>11. QED
    BY <2>9, <2>10
<1>5. QED
  BY <1>2, <1>3, <1>4

(* The last turn of FetchUrl's function is that many turns from its start. *)
LEMMA FetchEnds ==
  ASSUME NEW f, Fetchable(f), NoneAside
  PROVE  OnItsWay(f, FetchUrl(f.policy, f.start, f.lookups, f.replies), Turns(f))
<1> DEFINE N == Turns(f)
           X == Fetching(f)
           base == Unsent(f.start, 0)
           step == [x \in X \X (1 .. N) |-> Turn(f, x[1])]
           Equation(g) ==
             g = [n \in 0 .. N |-> IF n = 0 THEN base ELSE Turn(f, g[n - 1])]
           turn == CHOOSE g : Equation(g)
<1>1. N \in Nat /\ f.policy.max_redirects \in Nat
  BY DEF Turns, Fetchable
<1> HIDE DEF N
<1>2. base \in X
  BY FetchBegins DEF OnItsWay
<1> HIDE DEF base
<1>3. step \in [X \X (1 .. N) -> X]
  <2>1. \A s \in X : Turn(f, s) \in X
    BY TurnFacts DEF Turn, NoneAside
  <2> HIDE DEF X
  <2>2. QED
    BY <2>1
<1> HIDE DEF X
<1>4. \E g \in [0 .. N -> X] : Equation(g)
  <2>1. PICK g \in [0 .. N -> X] : Iterates(g, N, base, step)
    <3> HIDE DEF step
    <3>1. QED
      BY <1>1, <1>2, <1>3, Recursion, Zenon
  <2>2. ASSUME NEW k \in 1 .. N
        PROVE  g[k] = Turn(f, g[k - 1])
    <3>1. g[k - 1] \in X /\ <<g[k - 1], k>> \in X \X (1 .. N)
      BY <1>1
    <3>2. QED
      BY <2>1, <3>1 DEF Iterates
  <2>3. Equation(g)
    BY <1>1, <2>1, <2>2 DEF Iterates
  <2>4. QED
    BY <2>3
<1>5. Equation(turn)
  BY <1>4
<1>6. FetchUrl(f.policy, f.start, f.lookups, f.replies) = turn[N]
  BY DEF FetchUrl, turn, Turn, Once, N, Turns, base
<1> HIDE DEF turn
<1>7. turn[0] = base /\ \A k \in 1 .. N : turn[k] = Turn(f, turn[k - 1])
  BY <1>1, <1>5
<1> DEFINE S == {n \in Nat : n <= N => OnItsWay(f, turn[n], n)}
<1>8. 0 \in S
  BY <1>7, FetchBegins DEF base
<1>9. ASSUME NEW n \in Nat, n \in S
      PROVE  n + 1 \in S
  <2> SUFFICES ASSUME n + 1 <= N
               PROVE  OnItsWay(f, turn[n + 1], n + 1)
    OBVIOUS
  <2>1. OnItsWay(f, turn[n], n) /\ n + 1 \in 1 .. N /\ (n + 1) - 1 = n
    BY <1>1, <1>9
  <2>2. turn[n + 1] = Turn(f, turn[n])
    BY <1>7, <2>1
  <2>3. QED
    BY <2>1, <2>2, FetchGoesOn
<1>10. N \in S
  <2> HIDE DEF S
  <2>1. QED
    BY <1>1, <1>8, <1>9, InductionBySet
<1>11. QED
  BY <1>1, <1>6, <1>10 DEF N

(* A query of a place is sent there or not at all, and not led on.         *)
LEMMA AskedOnce ==
  ASSUME NEW f, Fetchable(f), NoneAside
  PROVE  LET asked == FetchQuery(f.policy, f.start, f.lookups, f.replies) IN
         /\ asked.contacted = IF Checked(f, 1, f.start) THEN <<FirstHop(f)>> ELSE <<>>
         /\ asked.url = f.start
<1> DEFINE base == Unsent(f.start, f.policy.max_redirects)
           t == Once(f, base)
           asked == FetchQuery(f.policy, f.start, f.lookups, f.replies)
<1>1. base \in Fetching(f) /\ base.result = None /\ base.contacted = <<>>
      /\ base.url = f.start /\ base.redirects = f.policy.max_redirects
      /\ f.policy.max_redirects \in Nat
  BY DEF Unsent, Fetching, Fetchable, Places, Results
<1> HIDE DEF base
<1>2. /\ t \in Fetching(f)
      /\ ~Checked(f, 1, f.start) => t.contacted = <<>>
      /\ Checked(f, 1, f.start) => t.contacted = Append(<<>>, FirstHop(f))
      /\ t.result = None => base.redirects < f.policy.max_redirects
      /\ t.url # f.start => t.result = None
  <2>1. /\ GoesOut(f, base) <=> Checked(f, 1, f.start)
        /\ Contact(f, base) = FirstHop(f)
    BY <1>1 DEF GoesOut, Contact, Coming, FirstHop
  <2>2. QED
    BY <1>1, <2>1, TurnFacts DEF NoneAside
<1>3. t.url = f.start
  BY <1>1, <1>2
<1>4. t.contacted = IF Checked(f, 1, f.start) THEN <<FirstHop(f)>> ELSE <<>>
  BY <1>2
<1>5. asked = t \/ asked = [t EXCEPT !.result = "transport", !.url = f.start]
  BY DEF FetchQuery, Once, base
<1> HIDE DEF t, asked
<1>6. asked.url = f.start /\ asked.contacted = t.contacted
  BY <1>2, <1>3, <1>5 DEF Fetching
<1>7. QED
  BY <1>4, <1>6 DEF asked

LEMMA FetchesHold ==
  ASSUME Sampled("fetch"), Fetchable(sample), NoneAside
  PROVE  EveryHopPermitted
<1> DEFINE f == sample
           s == FetchUrl(f.policy, f.start, f.lookups, f.replies)
           asked == FetchQuery(f.policy, f.start, f.lookups, f.replies)
           sent == s.contacted
           M == f.policy.max_redirects
<1>1. OnItsWay(f, s, M + 1) /\ M \in Nat
  BY FetchEnds DEF Turns, Fetchable
<1>2. sent \in Seq(Contacts(f)) /\ Len(sent) \in Nat
  BY <1>1 DEF OnItsWay, Fetching
<1>3. /\ asked.contacted = IF Checked(f, 1, f.start) THEN <<FirstHop(f)>> ELSE <<>>
      /\ asked.url = f.start
  BY AskedOnce
<1> HIDE DEF s, asked
<1>4. s.result # None /\ Len(sent) <= M + 1
  BY <1>1 DEF OnItsWay
<1>5. ASSUME NEW i \in 1 .. Len(sent)
      PROVE  LET url == sent[i].url
                 looked == f.lookups[i][url.host]
                 Refused(a) == "private" \in Range(a) /\ ~f.policy.allow_private_addresses IN
             /\ ~url.userinfo /\ (url.scheme = "http" => f.policy.allow_plaintext_http)
             /\ \A a \in looked.checked : ~Refused(a)
             /\ Refused(sent[i].to) => sent[i].to = looked.connected /\ looked.connected \notin looked.checked
  <2> DEFINE url == sent[i].url
             looked == f.lookups[i][url.host]
             Refused(a) == "private" \in Range(a) /\ ~f.policy.allow_private_addresses
  <2>1. url \in Places(f) /\ Checked(f, i, url) /\ sent[i].to = looked.connected
        /\ i \in 1 .. M + 1
    <3>1. Sent(f, i, sent[i]) /\ sent[i] \in Contacts(f)
      BY <1>1, <1>2 DEF OnItsWay
    <3>2. i \in 1 .. M + 1
      BY <1>1, <1>2 DEF OnItsWay
    <3>3. url \in Places(f)
      BY <3>1 DEF Contacts
    <3>4. QED
      BY <3>1, <3>2, <3>3 DEF Sent
  <2>p. /\ SplitUrl(url) /\ PermitsScheme(f.policy, url.scheme)
        /\ \A a \in looked.checked : PermitsAddress(f.policy, a)
    BY <2>1 DEF Checked, CheckUrl
  <2>2. ~url.userinfo /\ (url.scheme = "http" => f.policy.allow_plaintext_http)
    BY <2>p DEF SplitUrl, PermitsScheme
  <2>3. ASSUME NEW a \in looked.checked, "private" \in Range(a)
        PROVE  f.policy.allow_private_addresses
    <3>1. PermitsAddress(f.policy, a)
      BY <2>p
    <3>2. DOMAIN a = {"category"} \/ DOMAIN a = {"mapped"}
      BY <2>1 DEF Fetchable, Places
    <3>3. CategoryOf(a) = "private"
      BY <2>3, <3>2 DEF Range, CategoryOf
    <3>4. QED
      BY <3>1, <3>3 DEF PermitsAddress
  <2>4. \A a \in looked.checked : ~Refused(a)
    BY <2>3
  <2>5. Refused(sent[i].to) => looked.connected \notin looked.checked
    BY <2>1, <2>4
  <2>6. /\ ~url.userinfo /\ (url.scheme = "http" => f.policy.allow_plaintext_http)
        /\ \A a \in looked.checked : ~Refused(a)
        /\ Refused(sent[i].to) => sent[i].to = looked.connected /\ looked.connected \notin looked.checked
    <3> HIDE DEF Refused, looked, url
    <3>1. QED
      BY <2>1, <2>2, <2>4, <2>5
  <2>7. QED
    BY <2>6
<1>6. \A i \in 1 .. Len(sent) - 1 :
        sent[i].url.scheme = "https" /\ sent[i + 1].url.scheme = "http"
          => f.policy.allow_redirect_downgrade
  BY <1>1 DEF OnItsWay, Downward
<1>7. asked.contacted = SubSeq(sent, 1, Min({1, Len(sent)}))
  <2>1. CASE Checked(f, 1, f.start)
    <3>1. Len(sent) > 0 /\ sent[1] = FirstHop(f)
      BY <1>1, <2>1 DEF OnItsWay
    <3>2. Min({1, Len(sent)}) = 1
      <4> DEFINE S == {1, Len(sent)}
      <4>1. S \in SUBSET Nat /\ S # {} /\ 1 \in S
        BY <1>2
      <4>2. Min(S) \in S /\ Min(S) <= 1
        <5> HIDE DEF S
        <5>1. QED
          BY <4>1, MinFacts
      <4>3. QED
        BY <1>2, <3>1, <4>2
    <3>3. SubSeq(sent, 1, 1) = <<sent[1]>>
      <4>1. SubSeq(sent, 1, 1) \in Seq(Contacts(f)) /\ Len(SubSeq(sent, 1, 1)) = 1
            /\ SubSeq(sent, 1, 1)[1] = sent[1]
        BY <1>2, <3>1
      <4>2. \A q \in Seq(Contacts(f)) : Len(q) = 1 => q = <<q[1]>>
        OBVIOUS
      <4>3. QED
        BY <4>1, <4>2
    <3>4. QED
      BY <1>3, <2>1, <3>1, <3>2, <3>3
  <2>2. CASE ~Checked(f, 1, f.start)
    <3>1. sent = <<>> /\ Len(sent) = 0
      BY <1>1, <2>2 DEF OnItsWay
    <3>2. Min({1, 0}) = 0
      <4> DEFINE S == {1, 0}
      <4>1. S \in SUBSET Nat /\ S # {} /\ 0 \in S
        OBVIOUS
      <4>2. Min(S) \in S /\ Min(S) <= 0
        <5> HIDE DEF S
        <5>1. QED
          BY <4>1, MinFacts
      <4>3. QED
        BY <4>2
    <3>3. SubSeq(sent, 1, 0) = <<>>
      BY <1>2
    <3>4. QED
      BY <1>3, <2>2, <3>1, <3>2, <3>3
  <2>3. QED
    BY <2>1, <2>2
<1>8. QED
  BY <1>3, <1>4, <1>5, <1>6, <1>7 DEF EveryHopPermitted, s, asked

SampleTaken == sample # None => topic \in DOMAIN Samples /\ sample \in Samples[topic]

LEMMA SamplesStay ==
  /\ LawsInit => SampleTaken
  /\ SampleTaken /\ [LawsNext]_lawVars => SampleTaken'
<1>1. LawsInit => SampleTaken
  BY DEF LawsInit, SampleTaken
<1>2. ASSUME SampleTaken, TakeSample PROVE SampleTaken'
  BY <1>2 DEF SampleTaken, TakeSample
<1>3. ASSUME SampleTaken, topic' = topic, sample' = sample PROVE SampleTaken'
  BY <1>3 DEF SampleTaken
<1>4. [LawsNext]_lawVars => TakeSample \/ (topic' = topic /\ sample' = sample)
  BY DEF LawsNext, lawVars, Identifies, Tabulates, Guarding, Builds, Walks
<1>5. QED
  BY <1>1, <1>2, <1>3, <1>4

LEMMA GuardsOfSamples == SampleTaken => NothingPassesTheGuards
<1> SUFFICES ASSUME SampleTaken PROVE NothingPassesTheGuards
  OBVIOUS
<1>1. EveryHopPermitted
  <2>1. CASE Sampled("fetch")
    <3>1. Fetchable(sample) /\ NoneAside
      BY <2>1, SamplesAssumption DEF SampleTaken, Sampled, NoneAside
    <3>2. QED
      BY <2>1, <3>1, FetchesHold
  <2>2. CASE ~Sampled("fetch")
    BY <2>2 DEF EveryHopPermitted
  <2>3. QED
    BY <2>1, <2>2
<1>2. TrustOnlyFalls
  <2>1. CASE Sampled("trust")
    <3>1. sample \in Seq(Levels)
      BY <2>1, SamplesAssumption DEF SampleTaken, Sampled, Levels
    <3>2. QED
      BY <2>1, <3>1, TrustHolds
  <2>2. CASE ~Sampled("trust")
    BY <2>2 DEF TrustOnlyFalls
  <2>3. QED
    BY <2>1, <2>2
<1>3. LimitsHold
  <2>1. CASE Sampled("limits")
    <3>1. /\ sample.part \in DOMAIN ResourceBounds
          /\ sample.name \in DOMAIN ResourceBounds[sample.part]
          /\ sample.value \in Int
      BY <2>1, SamplesAssumption DEF SampleTaken, Sampled
    <3>2. QED
      BY <2>1, <3>1, LimitsAreHeld
  <2>2. CASE ~Sampled("limits")
    BY <2>2 DEF LimitsHold
  <2>3. QED
    BY <2>1, <2>2
<1>4. RatioHolds
  <2>1. CASE Sampled("ratio")
    <3>1. sample \in [ratio : Nat, input : Nat, output : Nat]
      BY <2>1, SamplesAssumption DEF SampleTaken, Sampled
    <3>2. QED
      BY <2>1, <3>1, RatiosHold
  <2>2. CASE ~Sampled("ratio")
    BY <2>2 DEF RatioHolds
  <2>3. QED
    BY <2>1, <2>2
<1>5. QED
  BY <1>1, <1>2, <1>3, <1>4 DEF NothingPassesTheGuards

(* Of any replies, resolver and policy, and however many redirects that    *)
(* allows: no request of a fetch is one the policy refuses, and they end   *)
(* (transport.rs:337).  Of any line of values: what is made of them is     *)
(* trusted no more than any (trust.rs:97).  Of any limit and value: out of *)
(* its range it is refused, and an expansion is permitted up to its ratio  *)
(* (limits.rs:234).                                                        *)
THEOREM GuardsHold == LawsSpec => []NothingPassesTheGuards
BY SamplesStay, GuardsOfSamples, PTL DEF LawsSpec

-----------------------------------------------------------------------------
(* Identities: what was said last of a pair or an identity stands.         *)
Pairs == Ids \X Ids

(* Every operation has the identities it is about, what is merged is       *)
(* merged downwards, and what stands is what was said last.                *)
Reviewed ==
  /\ history \in Seq(Operations)
  /\ \A i \in DOMAIN history : history[i].kind # "pin" => history[i].right \in Ids
  /\ pins \subseteq Ids
  /\ DOMAIN merges \subseteq Ids /\ IsFiniteSet(DOMAIN merges)
  /\ \A id \in DOMAIN merges : merges[id] \in Ids /\ merges[id] <= id

Absorbing(S) == \E i \in S : Latest(S, i) /\ history[i].kind = "merge"

InForce ==
  /\ \A p \in Ids : p \in pins <=> Stands(PinsOf(p))
  /\ \A pair \in Pairs : pair \in rejections <=> Stands(RejectionsOf(pair))
  /\ \A id \in Ids :
       /\ id \in DOMAIN merges <=> Absorbing(AbsorptionsOf(id))
       /\ \A i \in AbsorptionsOf(id) :
            Latest(AbsorptionsOf(id), i) /\ history[i].kind = "merge" =>
              merges[id] = Lower(history[i].left, history[i].right)

LEMMA OrderFacts ==
  ASSUME NEW a \in Ids, NEW b \in Ids
  PROVE  /\ Lower(a, b) \in Ids /\ Higher(a, b) \in Ids
         /\ Lower(a, b) <= Higher(a, b)
         /\ Ordered(a, b) \in Pairs
         /\ Ordered(Ordered(a, b)[1], Ordered(a, b)[2]) = Ordered(a, b)
         /\ {Ordered(a, b)[1], Ordered(a, b)[2]} = {a, b}
BY IdsAssumption DEF Lower, Higher, Ordered, Pairs

LEMMA Recording ==
  ASSUME Reviewed, NEW op \in Operations, Recorded(op)
  PROVE  /\ history' \in Seq(Operations)
         /\ DOMAIN history' = DOMAIN history \union {Len(history) + 1}
         /\ \A i \in DOMAIN history : history'[i] = history[i]
         /\ history'[Len(history) + 1] = op
         /\ Len(history) \in Nat /\ DOMAIN history = 1..Len(history)
         /\ \A i \in DOMAIN history' : history'[i].kind # "pin" => history'[i].right \in Ids
<1>1. history' = Append(history, op) /\ (op.kind # "pin" => op.right # NoId)
  BY DEF Recorded, OperationRefused
<1>2. op.kind # "pin" => op.right \in Ids
  BY <1>1 DEF Operations
<1>3. history \in Seq(Operations)
  BY DEF Reviewed
<1>4. /\ history' \in Seq(Operations)
      /\ Len(history) \in Nat /\ DOMAIN history = 1..Len(history)
      /\ DOMAIN history' = DOMAIN history \union {Len(history) + 1}
      /\ \A i \in DOMAIN history : history'[i] = history[i]
      /\ history'[Len(history) + 1] = op
  <2> HIDE DEF Operations
  <2>1. QED
    BY <1>1, <1>3
<1>5. ASSUME NEW i \in DOMAIN history'
      PROVE  history'[i].kind # "pin" => history'[i].right \in Ids
  <2>1. CASE i = Len(history) + 1
    BY <1>2, <1>4, <2>1
  <2>2. CASE i \in DOMAIN history
    <3>1. history[i].kind # "pin" => history[i].right \in Ids
      BY <2>2 DEF Reviewed
    <3>2. QED
      BY <1>4, <2>2, <3>1
  <2>3. QED
    BY <1>4, <2>1, <2>2
<1>6. QED
  BY <1>4, <1>5

(* What a set of places says, once a place after them all is added to it.  *)
LEMMA Newest ==
  ASSUME NEW n \in Nat, NEW S \in SUBSET (1..n)
  PROVE  \A i \in S \union {n + 1} : Latest(S \union {n + 1}, i) <=> i = n + 1
BY DEF Latest

LEMMA Pinned ==
  ASSUME Reviewed, NEW op \in Operations, Recorded(op), NEW p
  PROVE  Stands(PinsOf(p))' <=>
           IF op.kind = "pin" /\ op.left = p THEN ~op.withdraws ELSE Stands(PinsOf(p))
<1> DEFINE n == Len(history) + 1
           S == PinsOf(p)
           T == PinsOf(p)'
<1>1. T = IF op.kind = "pin" /\ op.left = p THEN S \union {n} ELSE S
  BY Recording DEF PinsOf
<1>2. S \in SUBSET (DOMAIN history) /\ n \notin S
  BY Recording DEF PinsOf
<1>3. Stands(PinsOf(p))' <=> \E i \in T : Latest(T, i) /\ ~history'[i].withdraws
  BY DEF Stands, Latest
<1> HIDE DEF S, T
<1>4. CASE op.kind = "pin" /\ op.left = p
  <2>1. T = S \union {n} /\ T # S
    BY <1>1, <1>2, <1>4
  <2>2. /\ \A i \in T : Latest(T, i) <=> i = n
        /\ n \in T /\ history'[n] = op
    BY <2>1, <1>2, Newest, Recording
  <2>3. QED
    BY <2>2, <1>3, <1>4
<1>5. CASE ~(op.kind = "pin" /\ op.left = p)
  <2>1. T = S /\ \A i \in T : history'[i] = history[i]
    BY <1>1, <1>2, <1>5, Newest, Recording
  <2>2. Stands(S) <=> \E i \in S : Latest(S, i) /\ ~history[i].withdraws
    BY DEF Stands
  <2>3. QED
    BY <1>3, <1>5, <2>1, <2>2 DEF S
<1>6. QED
  BY <1>4, <1>5

LEMMA Rejected ==
  ASSUME Reviewed, NEW op \in Operations, Recorded(op), NEW pair
  PROVE  Stands(RejectionsOf(pair))' <=>
           IF op.kind = "reject" /\ Ordered(op.left, op.right) = pair THEN ~op.withdraws
           ELSE Stands(RejectionsOf(pair))
<1> DEFINE n == Len(history) + 1
           S == RejectionsOf(pair)
           T == RejectionsOf(pair)'
           Of(o) == o.kind = "reject" /\ Ordered(o.left, o.right) = pair
<1>1. T = IF Of(op) THEN S \union {n} ELSE S
  <2>1. T = {i \in DOMAIN history' : Of(history'[i])} /\ S = {i \in DOMAIN history : Of(history[i])}
    BY DEF RejectionsOf, Ordered, Lower, Higher
  <2> HIDE DEF Of, S, T
  <2>2. QED
    BY <2>1, Recording
<1>2. S \in SUBSET (DOMAIN history) /\ n \notin S
  BY Recording DEF RejectionsOf
<1>3. Stands(RejectionsOf(pair))' <=> \E i \in T : Latest(T, i) /\ ~history'[i].withdraws
  BY DEF Stands, Latest
<1> HIDE DEF S, T
<1>4. CASE Of(op)
  <2>1. T = S \union {n} /\ T # S
    BY <1>1, <1>2, <1>4
  <2>2. /\ \A i \in T : Latest(T, i) <=> i = n
        /\ n \in T /\ history'[n] = op
    BY <2>1, <1>2, Newest, Recording
  <2>3. QED
    BY <2>2, <1>3, <1>4
<1>5. CASE ~Of(op)
  <2>1. T = S /\ \A i \in T : history'[i] = history[i]
    BY <1>1, <1>2, <1>5, Newest, Recording
  <2>2. Stands(S) <=> \E i \in S : Latest(S, i) /\ ~history[i].withdraws
    BY DEF Stands
  <2>3. QED
    BY <1>3, <1>5, <2>1, <2>2 DEF S
<1>6. QED
  BY <1>4, <1>5
LEMMA Absorbed ==
  ASSUME Reviewed, NEW op \in Operations, Recorded(op), NEW id
  PROVE  LET S == AbsorptionsOf(id)
             T == AbsorptionsOf(id)'
             n == Len(history) + 1 IN
         /\ op.kind \in {"merge", "split"} /\ Higher(op.left, op.right) = id =>
              /\ \A i \in T : Latest(T, i) <=> i = n
              /\ n \in T /\ history'[n] = op
         /\ ~(op.kind \in {"merge", "split"} /\ Higher(op.left, op.right) = id) =>
              T = S /\ \A i \in T : history'[i] = history[i]
<1> DEFINE n == Len(history) + 1
           S == AbsorptionsOf(id)
           T == AbsorptionsOf(id)'
           Of(o) == o.kind \in {"merge", "split"} /\ Higher(o.left, o.right) = id
<1>1. T = IF Of(op) THEN S \union {n} ELSE S
  <2>1. T = {i \in DOMAIN history' : Of(history'[i])} /\ S = {i \in DOMAIN history : Of(history[i])}
    BY DEF AbsorptionsOf, Higher
  <2> HIDE DEF Of, S, T
  <2>2. QED
    BY <2>1, Recording
<1>2. S \in SUBSET (DOMAIN history) /\ n \notin S
  BY Recording DEF AbsorptionsOf
<1> HIDE DEF S, T
<1>4. ASSUME Of(op)
      PROVE  (\A i \in T : Latest(T, i) <=> i = n) /\ n \in T /\ history'[n] = op
  <2>1. T = S \union {n} /\ T # S
    BY <1>1, <1>2, <1>4
  <2>2. QED
    BY <2>1, <1>2, Newest, Recording
<1>5. ASSUME ~Of(op)
      PROVE  T = S /\ \A i \in T : history'[i] = history[i]
  BY <1>1, <1>2, <1>5, Newest, Recording
<1>6. QED
  BY <1>4, <1>5 DEF S, T

Reviews(op) == Merge(op) \/ Split(op) \/ Reject(op) \/ Alias(op) \/ Pin(op)

LEMMA ReviewSteps ==
  ASSUME NEW op, Reviews(op)
  PROVE  /\ Recorded(op)
         /\ op.kind \in {"merge", "split", "reject", "alias", "pin"}
         /\ op.kind = "merge" => merges' = With(merges, Higher(op.left, op.right), Lower(op.left, op.right))
         /\ op.kind = "split" => merges' = Without(merges, Higher(op.left, op.right))
         /\ op.kind \notin {"merge", "split"} => merges' = merges
         /\ op.kind = "pin" => pins' = IF op.withdraws THEN pins \ {op.left} ELSE pins \union {op.left}
         /\ op.kind # "pin" => pins' = pins
         /\ op.kind = "reject" =>
              rejections' = IF op.withdraws THEN rejections \ {Ordered(op.left, op.right)}
                            ELSE rejections \union {Ordered(op.left, op.right)}
         /\ op.kind # "reject" => rejections' = rejections
<1>1. CASE Merge(op)
  BY <1>1 DEF Merge
<1>2. CASE Split(op)
  BY <1>2 DEF Split
<1>3. CASE Reject(op)
  BY <1>3 DEF Reject
<1>4. CASE Alias(op)
  BY <1>4 DEF Alias
<1>5. CASE Pin(op)
  BY <1>5 DEF Pin
<1>6. QED
  BY <1>1, <1>2, <1>3, <1>4, <1>5 DEF Reviews

LEMMA IdStep ==
  [IdNext]_idVars => UNCHANGED idVars \/ \E op \in Operations : Reviews(op)
BY DEF IdNext, Apply, Refuse, Reviews

LEMMA OperationFacts ==
  ASSUME NEW op \in Operations, Reviews(op)
  PROVE  /\ op.left \in Ids /\ op.withdraws \in BOOLEAN
         /\ op.kind # "pin" => /\ op.right \in Ids
                               /\ Lower(op.left, op.right) \in Ids
                               /\ Higher(op.left, op.right) \in Ids
                               /\ Lower(op.left, op.right) <= Higher(op.left, op.right)
                               /\ Ordered(op.left, op.right) \in Pairs
<1>1. op.left \in Ids /\ op.right \in Ids \union {NoId} /\ op.withdraws \in BOOLEAN
  BY DEF Operations
<1>2. op.kind # "pin" => op.right # NoId
  BY ReviewSteps DEF Recorded, OperationRefused
<1>3. QED
  BY <1>1, <1>2, OrderFacts

LEMMA ReviewedStep ==
  ASSUME Reviewed, NEW op \in Operations, Reviews(op)
  PROVE  Reviewed'
<1>1. /\ history' \in Seq(Operations)
      /\ \A i \in DOMAIN history' : history'[i].kind # "pin" => history'[i].right \in Ids
  BY Recording, ReviewSteps
<1>2. pins' \subseteq Ids
  BY ReviewSteps, OperationFacts DEF Reviewed
<1>3. /\ DOMAIN merges' \subseteq Ids /\ IsFiniteSet(DOMAIN merges')
      /\ \A id \in DOMAIN merges' : merges'[id] \in Ids /\ merges'[id] <= id
  <2> DEFINE high == Higher(op.left, op.right)
             low == Lower(op.left, op.right)
  <2>1. /\ DOMAIN merges \subseteq Ids /\ IsFiniteSet(DOMAIN merges)
        /\ \A id \in DOMAIN merges : merges[id] \in Ids /\ merges[id] <= id
    BY DEF Reviewed
  <2>2. CASE op.kind = "merge"
    <3>1. merges' = With(merges, high, low) /\ high \in Ids /\ low \in Ids /\ low <= high
      BY <2>2, ReviewSteps, OperationFacts
    <3> HIDE DEF high, low
    <3>2. IsFiniteSet(DOMAIN merges \union {high})
      BY <2>1, FS_AddElement
    <3>3. QED
      BY <2>1, <3>1, <3>2 DEF With, Without
  <2>3. CASE op.kind = "split"
    <3>1. merges' = Without(merges, high)
      BY <2>3, ReviewSteps
    <3> HIDE DEF high, low
    <3>2. IsFiniteSet(DOMAIN merges \ {high})
      BY <2>1, FS_RemoveElement
    <3>3. QED
      BY <2>1, <3>1, <3>2 DEF With, Without
  <2>4. CASE op.kind \notin {"merge", "split"}
    BY <2>4, <2>1, ReviewSteps
  <2>5. QED
    BY <2>2, <2>3, <2>4
<1>4. QED
  BY <1>1, <1>2, <1>3 DEF Reviewed

LEMMA DecidedStep ==
  ASSUME Reviewed, InForce, NEW op \in Operations, Reviews(op)
  PROVE  InForce'
<1>1. ASSUME NEW p \in Ids
      PROVE  p \in pins' <=> Stands(PinsOf(p))'
  <2>1. p \in pins <=> Stands(PinsOf(p))
    BY DEF InForce
  <2>2. Stands(PinsOf(p))' <=>
          IF op.kind = "pin" /\ op.left = p THEN ~op.withdraws ELSE Stands(PinsOf(p))
    BY Pinned, ReviewSteps
  <2>3. QED
    BY <2>1, <2>2, ReviewSteps
<1>2. ASSUME NEW pair \in Pairs
      PROVE  pair \in rejections' <=> Stands(RejectionsOf(pair))'
  <2>1. pair \in rejections <=> Stands(RejectionsOf(pair))
    BY DEF InForce
  <2>2. Stands(RejectionsOf(pair))' <=>
          IF op.kind = "reject" /\ Ordered(op.left, op.right) = pair THEN ~op.withdraws
          ELSE Stands(RejectionsOf(pair))
    BY Rejected, ReviewSteps
  <2>3. QED
    BY <2>1, <2>2, ReviewSteps
<1>3. ASSUME NEW id \in Ids
      PROVE  /\ id \in DOMAIN merges' <=> Absorbing(AbsorptionsOf(id))'
             /\ \A i \in AbsorptionsOf(id)' :
                  Latest(AbsorptionsOf(id)', i) /\ history'[i].kind = "merge" =>
                    merges'[id] = Lower(history'[i].left, history'[i].right)
  <2> DEFINE n == Len(history) + 1
             S == AbsorptionsOf(id)
             T == AbsorptionsOf(id)'
             high == Higher(op.left, op.right)
             low == Lower(op.left, op.right)
  <2>1. /\ id \in DOMAIN merges <=> \E i \in S : Latest(S, i) /\ history[i].kind = "merge"
        /\ \A i \in S : Latest(S, i) /\ history[i].kind = "merge" =>
             merges[id] = Lower(history[i].left, history[i].right)
    BY DEF InForce, Absorbing
  <2>2. Absorbing(AbsorptionsOf(id))' <=> \E i \in T : Latest(T, i) /\ history'[i].kind = "merge"
    BY DEF Absorbing, Latest
  <2>3. /\ op.kind \in {"merge", "split"} /\ high = id =>
              /\ \A i \in T : Latest(T, i) <=> i = n
              /\ n \in T /\ history'[n] = op
        /\ ~(op.kind \in {"merge", "split"} /\ high = id) =>
              T = S /\ \A i \in T : history'[i] = history[i]
    BY Absorbed, ReviewSteps
  <2> HIDE DEF S, T, n
  <2>4. CASE op.kind = "merge" /\ high = id
    <3>1. DOMAIN merges' = DOMAIN merges \union {id} /\ merges'[id] = low
      BY <2>4, ReviewSteps DEF With, Without
    <3>2. QED
      BY <3>1, <2>2, <2>3, <2>4 DEF T
  <2>5. CASE op.kind = "split" /\ high = id
    <3>1. DOMAIN merges' = DOMAIN merges \ {id}
      BY <2>5, ReviewSteps DEF With, Without
    <3>2. QED
      BY <3>1, <2>2, <2>3, <2>5 DEF T
  <2>6. CASE ~(op.kind \in {"merge", "split"} /\ high = id)
    <3>1. /\ id \in DOMAIN merges' <=> id \in DOMAIN merges
          /\ id \in DOMAIN merges => merges'[id] = merges[id]
      <4>1. CASE op.kind = "merge"
        <5>1. merges' = With(merges, high, low) /\ high # id
          BY <4>1, <2>6, ReviewSteps
        <5> HIDE DEF high, low
        <5>2. QED
          BY <5>1 DEF With
      <4>2. CASE op.kind = "split"
        <5>1. merges' = Without(merges, high) /\ high # id
          BY <4>2, <2>6, ReviewSteps
        <5> HIDE DEF high, low
        <5>2. QED
          BY <5>1 DEF Without
      <4>3. CASE op.kind \notin {"merge", "split"}
        BY <4>3, ReviewSteps
      <4>4. QED
        BY <4>1, <4>2, <4>3
    <3>2. T = S /\ \A i \in S : history'[i] = history[i]
      BY <2>3, <2>6
    <3>3. /\ id \in DOMAIN merges' <=> \E i \in T : Latest(T, i) /\ history'[i].kind = "merge"
          /\ \A i \in T : Latest(T, i) /\ history'[i].kind = "merge" =>
               merges'[id] = Lower(history'[i].left, history'[i].right)
      BY <2>1, <3>1, <3>2
    <3>4. QED
      BY <3>3, <2>2 DEF T
  <2>7. QED
    BY <2>4, <2>5, <2>6
<1>4. QED
  BY <1>1, <1>2, <1>3 DEF InForce, Latest, Lower

LEMMA ReviewStays ==
  /\ IdInit => Reviewed /\ InForce
  /\ Reviewed /\ InForce /\ [IdNext]_idVars => Reviewed' /\ InForce'
<1>1. IdInit => Reviewed /\ InForce
  BY FS_EmptySet DEF IdInit, Reviewed, InForce, Stands, Absorbing, PinsOf, RejectionsOf, AbsorptionsOf
<1>2. ASSUME Reviewed, InForce, UNCHANGED idVars
      PROVE  Reviewed' /\ InForce'
  BY <1>2 DEF idVars, Reviewed, InForce, Stands, Absorbing, PinsOf, RejectionsOf, AbsorptionsOf,
     Latest, Lower, Higher, Ordered
<1>3. QED
  BY <1>1, <1>2, IdStep, ReviewedStep, DecidedStep

(* What an identity is merged into, and what a chain of merges is of.      *)
Survivor(id) == IF id \in DOMAIN merges THEN merges[id] ELSE id

ChainOf(chain, N, id) ==
  /\ chain[0] = id
  /\ \A n \in 1..N : chain[n] = Survivor(chain[n - 1])

LEMMA SurvivorFacts ==
  ASSUME Reviewed, NEW id \in Ids
  PROVE  Survivor(id) \in Ids /\ Survivor(id) <= id /\ id \in Nat
BY IdsAssumption DEF Reviewed, Survivor

(* The recursive function of CanonicalIdentity is the one its equation     *)
(* describes.                                                              *)
LEMMA CanonicalIsLast ==
  ASSUME Reviewed, NEW id \in Ids
  PROVE  \E chain \in [0..(Cardinality(DOMAIN merges) + 1) -> Ids] :
           /\ ChainOf(chain, Cardinality(DOMAIN merges) + 1, id)
           /\ CanonicalIdentity(id) = chain[Cardinality(DOMAIN merges) + 1]
<1> DEFINE N == Cardinality(DOMAIN merges) + 1
           step == [x \in Ids \X (1..N) |-> Survivor(x[1])]
           Equation(f) == f = [n \in 0..N |-> IF n = 0 THEN id ELSE Survivor(f[n - 1])]
           chosen == CHOOSE f : Equation(f)
<1>1. N \in Nat
  BY FS_CardinalityType DEF Reviewed
<1>2. step \in [Ids \X (1..N) -> Ids]
  BY SurvivorFacts
<1>3. \E f : Equation(f)
  <2>1. PICK f \in [0..N -> Ids] : Iterates(f, N, id, step)
    <3> HIDE DEF step, N
    <3>1. QED
      BY <1>1, <1>2, Recursion, Zenon
  <2> HIDE DEF N
  <2>2. ASSUME NEW k \in 1..N
        PROVE  f[k] = Survivor(f[k - 1])
    <3>1. f[k - 1] \in Ids /\ <<f[k - 1], k>> \in Ids \X (1..N)
      BY <1>1
    <3>2. QED
      BY <2>1, <3>1 DEF Iterates
  <2>3. QED
    BY <1>1, <2>1, <2>2 DEF Iterates
<1>4. Equation(chosen) /\ CanonicalIdentity(id) = chosen[N]
  <2>1. CanonicalIdentity(id) = chosen[N]
    BY DEF CanonicalIdentity, Survivor
  <2> HIDE DEF Equation
  <2>2. QED
    BY <1>3, <2>1
<1> HIDE DEF chosen, N
<1>5. DOMAIN chosen = 0..N /\ ChainOf(chosen, N, id)
  <2>1. DOMAIN chosen = 0..N
    BY <1>4
  <2>2. \A k \in 0..N : chosen[k] = IF k = 0 THEN id ELSE Survivor(chosen[k - 1])
    BY <1>4
  <2>3. QED
    BY <1>1, <2>1, <2>2 DEF ChainOf
<1>6. \A n \in 0..N : chosen[n] \in Ids
  <2> DEFINE S == {n \in Nat : n <= N => chosen[n] \in Ids}
  <2>1. 0 \in S
    BY <1>5 DEF ChainOf
  <2>2. ASSUME NEW n \in Nat, n \in S
        PROVE  n + 1 \in S
    <3> SUFFICES ASSUME n + 1 <= N PROVE chosen[n + 1] \in Ids
      OBVIOUS
    <3>1. n + 1 \in 1..N /\ (n + 1) - 1 = n /\ chosen[n] \in Ids
      BY <1>1, <2>2
    <3>2. chosen[n + 1] = Survivor(chosen[n])
      BY <1>5, <3>1 DEF ChainOf
    <3>3. QED
      BY <3>1, <3>2, SurvivorFacts
  <2> HIDE DEF S
  <2>3. Nat \subseteq S
    BY <2>1, <2>2, InductionBySet
  <2>4. QED
    BY <1>1, <2>3 DEF S
<1>7. chosen = [n \in 0..N |-> chosen[n]]
  BY <1>4
<1>8. chosen \in [0..N -> Ids]
  BY <1>5, <1>6, <1>7
<1>9. QED
  BY <1>4, <1>5, <1>8 DEF N

(* Merges only go downwards: while a chain still has a merge to follow,    *)
(* fewer identities are left below it than were.                           *)
LEMMA CanonicalIsFixed ==
  ASSUME Reviewed, NEW id \in Ids
  PROVE  /\ CanonicalIdentity(id) \in Ids
         /\ Survivor(CanonicalIdentity(id)) = CanonicalIdentity(id)
<1> DEFINE D == DOMAIN merges
           N == Cardinality(D) + 1
           Below(x) == {k \in D : k <= x}
<1>1. PICK chain \in [0..N -> Ids] : ChainOf(chain, N, id) /\ CanonicalIdentity(id) = chain[N]
  BY CanonicalIsLast
<1>2. N \in Nat /\ IsFiniteSet(D) /\ D \subseteq Ids /\ Ids \subseteq Nat /\ Cardinality(D) \in Nat
  BY FS_CardinalityType, IdsAssumption DEF Reviewed
<1>3. \A x : IsFiniteSet(Below(x)) /\ Cardinality(Below(x)) \in Nat /\ Cardinality(Below(x)) <= Cardinality(D)
  <2> SUFFICES ASSUME NEW x
               PROVE  IsFiniteSet(Below(x)) /\ Cardinality(Below(x)) \in Nat
                      /\ Cardinality(Below(x)) <= Cardinality(D)
    OBVIOUS
  <2>1. Below(x) \in SUBSET D
    OBVIOUS
  <2> HIDE DEF Below
  <2>2. QED
    BY <1>2, <2>1, FS_Subset, FS_CardinalityType
<1>4. ASSUME NEW x \in Ids, Survivor(x) # x
      PROVE  /\ x \in D /\ Survivor(x) \in Ids
             /\ Cardinality(Below(Survivor(x))) < Cardinality(Below(x))
  <2>1. x \in D /\ Survivor(x) \in Ids /\ Survivor(x) < x
    <3>1. x \in D
      BY <1>4 DEF Survivor
    <3>2. Survivor(x) \in Ids /\ Survivor(x) <= x
      BY SurvivorFacts
    <3>3. x \in Nat /\ Survivor(x) \in Nat
      BY <1>2, <3>2
    <3>4. Survivor(x) # x
      BY <1>4
    <3> HIDE DEF D
    <3>5. QED
      BY <3>1, <3>2, <3>3, <3>4
  <2>2. Below(Survivor(x)) \in SUBSET Below(x) /\ x \in Below(x) /\ x \notin Below(Survivor(x))
    BY <1>2, <2>1
  <2>3. /\ IsFiniteSet(Below(x))
        /\ Cardinality(Below(x)) \in Nat /\ Cardinality(Below(Survivor(x))) \in Nat
    BY <1>3
  <2> DEFINE A == Below(Survivor(x))
             B == Below(x)
  <2>4. A \in SUBSET B /\ IsFiniteSet(B) /\ A # B /\ Cardinality(A) \in Nat /\ Cardinality(B) \in Nat
    BY <2>2, <2>3
  <2>5. Cardinality(A) < Cardinality(B)
    <3> HIDE DEF A, B
    <3>1. Cardinality(A) <= Cardinality(B) /\ (Cardinality(B) = Cardinality(A) => B = A)
      BY <2>4, FS_Subset
    <3>2. QED
      BY <2>4, <3>1
  <2>6. QED
    BY <2>1, <2>5
<1> DEFINE Left(n) == Survivor(chain[n]) # chain[n] => Cardinality(Below(chain[n])) + n <= Cardinality(D)
           S == {n \in Nat : n <= N => Left(n)}
<1> HIDE DEF D, N
<1>5. 0 \in S
  <2>1. Cardinality(Below(chain[0])) + 0 <= Cardinality(D)
    <3> HIDE DEF Below
    <3>1. QED
      BY <1>2, <1>3
  <2>2. QED
    BY <2>1
<1>6. ASSUME NEW n \in Nat, n \in S
      PROVE  n + 1 \in S
  <2> SUFFICES ASSUME n + 1 <= N, Survivor(chain[n + 1]) # chain[n + 1]
               PROVE  Cardinality(Below(chain[n + 1])) + (n + 1) <= Cardinality(D)
    OBVIOUS
  <2>1. n + 1 \in 1..N /\ (n + 1) - 1 = n /\ n \in 0..N /\ chain[n] \in Ids
    BY <1>2
  <2>2. chain[n + 1] = Survivor(chain[n])
    BY <1>1, <2>1 DEF ChainOf
  <2>3. Survivor(chain[n]) # chain[n]
    BY <2>2
  <2>4. Cardinality(Below(chain[n])) + n <= Cardinality(D)
    BY <1>6, <2>1, <2>3
  <2>5. Cardinality(Below(chain[n + 1])) < Cardinality(Below(chain[n]))
    BY <1>4, <2>1, <2>2, <2>3
  <2>6. Cardinality(Below(chain[n])) \in Nat /\ Cardinality(Below(chain[n + 1])) \in Nat
    BY <1>3
  <2> HIDE DEF Below
  <2>7. QED
    BY <1>2, <2>4, <2>5, <2>6
<1>7. Left(N)
  <2> HIDE DEF S
  <2>1. N \in S
    BY <1>2, <1>5, <1>6, InductionBySet
  <2>2. QED
    BY <1>2, <2>1 DEF S
<1>8. CanonicalIdentity(id) \in Ids
  BY <1>1, <1>2
<1>9. Survivor(chain[N]) = chain[N]
  <2>1. Cardinality(Below(chain[N])) \in Nat /\ N = Cardinality(D) + 1
    BY <1>3 DEF N
  <2> HIDE DEF Below
  <2>2. QED
    BY <1>2, <1>7, <2>1
<1>10. QED
  BY <1>1, <1>8, <1>9

LEMMA CanonicalIsSettled ==
  ASSUME Reviewed, NEW id \in Ids, Survivor(id) = id
  PROVE  CanonicalIdentity(id) = id
<1> DEFINE N == Cardinality(DOMAIN merges) + 1
<1>1. PICK chain \in [0..N -> Ids] : ChainOf(chain, N, id) /\ CanonicalIdentity(id) = chain[N]
  BY CanonicalIsLast
<1>2. N \in Nat
  BY FS_CardinalityType DEF Reviewed
<1> DEFINE S == {n \in Nat : n <= N => chain[n] = id}
<1> HIDE DEF N
<1>3. 0 \in S
  BY <1>1 DEF ChainOf
<1>4. ASSUME NEW n \in Nat, n \in S
      PROVE  n + 1 \in S
  <2> SUFFICES ASSUME n + 1 <= N PROVE chain[n + 1] = id
    OBVIOUS
  <2>1. n + 1 \in 1..N /\ (n + 1) - 1 = n /\ chain[n] = id
    BY <1>2, <1>4
  <2>2. chain[n + 1] = Survivor(chain[n])
    BY <1>1, <2>1 DEF ChainOf
  <2>3. QED
    BY <2>1, <2>2
<1>5. N \in S
  <2> HIDE DEF S
  <2>1. QED
    BY <1>2, <1>3, <1>4, InductionBySet
<1>6. QED
  BY <1>1, <1>2, <1>5

(* What is resolved of two records: the analyst's rejection before all     *)
(* else, no merge of what is pinned, and what is left to the analyst has   *)
(* signals, none of which decides alone.                                   *)
LEMMA ResolvedAsReviewed ==
  ASSUME Reviewed, InForce, NEW a, NEW b, a.id \in Ids, b.id \in Ids
  PROVE  LET c == Resolve(a, b)
             one == c.pair[1]
             other == c.pair[2] IN
         /\ c.outcome = "rejected" <=> Stands(RejectionsOf(Ordered(one, other)))
         /\ c.outcome = "merged" => {one, other} \cap pins = {}
         /\ c.outcome = "candidate" => c.signals # {} /\ ~\E s \in c.signals : CanMergeAlone(s)
<1> DEFINE pair == Ordered(a.id, b.id)
           signals == Signals(a, b)
<1>1. /\ Resolve(a, b).pair = pair
      /\ Resolve(a, b).outcome = Outcome(a, b)
      /\ Resolve(a, b).signals = IF IsRejected(a.id, b.id) THEN {} ELSE signals
  BY DEF Resolve
<1>2. /\ pair \in Pairs /\ Ordered(pair[1], pair[2]) = pair
      /\ {pair[1], pair[2]} = {a.id, b.id}
  BY OrderFacts
<1>3. IsRejected(a.id, b.id) <=> Stands(RejectionsOf(pair))
  BY <1>2 DEF IsRejected, InForce
<1>4. /\ Outcome(a, b) = "rejected" <=> IsRejected(a.id, b.id)
      /\ Outcome(a, b) = "merged" => {a.id, b.id} \cap pins = {}
      /\ Outcome(a, b) = "candidate" =>
           ~IsRejected(a.id, b.id) /\ signals # {} /\ ~\E s \in signals : CanMergeAlone(s)
  <2> HIDE DEF signals
  <2>1. Outcome(a, b) =
          CASE IsRejected(a.id, b.id) -> "rejected"
            [] ~IsRejected(a.id, b.id) /\ signals = {} -> "distinct"
            [] OTHER -> CASE a.id \in pins \/ b.id \in pins -> "pinned"
                          [] OTHER -> IF \E s \in signals : CanMergeAlone(s)
                                      THEN "merged" ELSE "candidate"
    BY DEF Outcome, signals
  <2>2. CASE IsRejected(a.id, b.id)
    <3>1. Outcome(a, b) = "rejected"
      BY <2>1, <2>2
    <3>2. QED
      BY <2>2, <3>1
  <2>3. CASE ~IsRejected(a.id, b.id) /\ signals = {}
    <3>1. Outcome(a, b) = "distinct"
      BY <2>1, <2>3
    <3>2. QED
      BY <2>3, <3>1
  <2>4. CASE ~IsRejected(a.id, b.id) /\ signals # {} /\ (a.id \in pins \/ b.id \in pins)
    <3>1. Outcome(a, b) = "pinned"
      BY <2>1, <2>4
    <3>2. QED
      BY <2>4, <3>1
  <2>5. CASE ~IsRejected(a.id, b.id) /\ signals # {} /\ ~(a.id \in pins \/ b.id \in pins)
    <3>1. Outcome(a, b) = IF \E s \in signals : CanMergeAlone(s) THEN "merged" ELSE "candidate"
      BY <2>1, <2>5
    <3>2. QED
      BY <2>5, <3>1
  <2>6. QED
    BY <2>2, <2>3, <2>4, <2>5
<1> HIDE DEF pair, signals
<1>5. QED
  BY <1>1, <1>2, <1>3, <1>4

LEMMA ReviewUnifies == Reviewed /\ InForce => UnifiedByReview
<1> SUFFICES ASSUME Reviewed, InForce PROVE UnifiedByReview
  OBVIOUS
<1>1. \A id \in Ids : CanonicalIdentity(CanonicalIdentity(id)) = CanonicalIdentity(id)
  BY CanonicalIsFixed, CanonicalIsSettled
<1>2. ASSUME NEW c \in ResolveAll(Resolvable)
      PROVE  /\ c.outcome = "rejected" <=> Stands(RejectionsOf(Ordered(c.pair[1], c.pair[2])))
             /\ c.outcome = "merged" => {c.pair[1], c.pair[2]} \cap pins = {}
             /\ c.outcome = "candidate" => c.signals # {} /\ ~\E s \in c.signals : CanMergeAlone(s)
  <2>1. PICK p \in (DOMAIN Resolvable) \X (DOMAIN Resolvable) :
               c = Resolve(Resolvable[p[1]], Resolvable[p[2]])
    BY DEF ResolveAll
  <2>2. Resolvable[p[1]].id \in Ids /\ Resolvable[p[2]].id \in Ids
    BY SamplesAssumption
  <2>3. QED
    BY <2>1, <2>2, ResolvedAsReviewed
<1>3. QED
  BY <1>1, <1>2 DEF UnifiedByReview, InForce, Absorbing

LEMMA UnifiedStays ==
  /\ LawsInit => Reviewed /\ InForce
  /\ Reviewed /\ InForce /\ [LawsNext]_lawVars => Reviewed' /\ InForce'
<1>1. LawsInit => IdInit
  BY DEF LawsInit
<1>2. [LawsNext]_lawVars => [IdNext]_idVars
  BY DEF LawsNext, lawVars, TakeSample, Identifies, Tabulates, Guarding, Builds, Walks
<1>3. QED
  BY <1>1, <1>2, ReviewStays

-----------------------------------------------------------------------------
(* Lineages: a publication corroborates once.                              *)
(* Bytes that were seen before corroborate nothing and update nothing.     *)
LEMMA SeenBefore ==
  ASSUME NEW R, NEW prior \in Seq(R), NEW o,
         \E i \in DOMAIN prior : prior[i].content = o.content
  PROVE  Judge(o, prior) \in {"exact_duplicate", "syndicated_copy"}
<1> DEFINE found == {i \in DOMAIN prior : prior[i].content = o.content}
           bytes == IF found = {} THEN 0 ELSE CHOOSE i \in found : \A j \in found : i <= j
<1>1. found # {} /\ found \in SUBSET Nat /\ 0 \notin found
  <2>1. DOMAIN prior = 1..Len(prior) /\ Len(prior) \in Nat
    OBVIOUS
  <2>2. QED
    BY <2>1
<1>2. bytes # 0
  <2> HIDE DEF found
  <2>1. \E i \in found : \A j \in found : i <= j
    BY <1>1, LeastNumber
  <2>2. QED
    BY <1>1, <2>1
<1>3. bytes = FirstThat(prior, LAMBDA e : e.content = o.content)
  BY DEF FirstThat
<1> HIDE DEF bytes
<1>4. QED
  BY <1>2, <1>3 DEF Judge

LinesOf(R) ==
  [seen : Seq(R),
   decisions : Seq({"exact_duplicate", "syndicated_copy", "canonical_duplicate", "update", "independent_corroboration"}),
   publishers : SUBSET {r.publisher : r \in R}, versions : Seq({r.record : r \in R})]

LEMMA JudgeTypes ==
  ASSUME NEW o, NEW prior
  PROVE  Judge(o, prior) \in
           {"exact_duplicate", "syndicated_copy", "canonical_duplicate", "update", "independent_corroboration"}
<1> DEFINE bytes == FirstThat(prior, LAMBDA e : e.content = o.content)
           publisher == FirstThat(prior, LAMBDA e : e.publisher = o.publisher)
<1>1. Judge(o, prior) =
        CASE bytes # 0 -> IF prior[bytes].publisher = o.publisher
                          THEN "exact_duplicate" ELSE "syndicated_copy"
          [] bytes = 0 /\ publisher # 0 ->
               IF prior[publisher].record = o.record
               THEN "canonical_duplicate" ELSE "update"
          [] OTHER -> "independent_corroboration"
  BY DEF Judge
<1> HIDE DEF bytes, publisher
<1>2. CASE bytes # 0
  BY <1>1, <1>2
<1>3. CASE bytes = 0 /\ publisher # 0
  BY <1>1, <1>3
<1>4. CASE bytes = 0 /\ publisher = 0
  BY <1>1, <1>4
<1>5. QED
  BY <1>2, <1>3, <1>4

LEMMA ObserveFacts ==
  ASSUME NEW R, NEW line \in LinesOf(R), NEW o \in R
  PROVE  /\ Observe(line, o) \in LinesOf(R)
         /\ Observe(line, o).seen = Append(line.seen, o)
         /\ Observe(line, o).versions # <<>>
         /\ \/ Observe(line, o).publishers = line.publishers
            \/ /\ Judge(o, line.seen) = "independent_corroboration"
               /\ Observe(line, o).publishers = line.publishers \union {o.publisher}
         /\ Judge(o, line.seen) \in {"exact_duplicate", "syndicated_copy"} /\ line.versions # <<>> =>
              /\ Observe(line, o).publishers = line.publishers
              /\ Observe(line, o).versions = line.versions
<1> DEFINE verdict == Judge(o, line.seen)
           publishers == IF verdict = "independent_corroboration"
                         THEN line.publishers \union {o.publisher} ELSE line.publishers
           rewritten == IF line.versions = <<>> \/ verdict = "update"
                        THEN Append(line.versions, o.record) ELSE line.versions
           seen == Append(line.seen, o)
           decisions == Append(line.decisions, verdict)
           Ver == {"exact_duplicate", "syndicated_copy", "canonical_duplicate", "update", "independent_corroboration"}
           Pub == {r.publisher : r \in R}
           Rec == {r.record : r \in R}
<1>1. Observe(line, o) =
        [seen |-> seen, decisions |-> decisions, publishers |-> publishers, versions |-> rewritten]
  BY DEF Observe, IncreasesCorroboration
<1>2. verdict \in Ver
  BY JudgeTypes
<1>3. line.seen \in Seq(R) /\ line.decisions \in Seq(Ver) /\ line.publishers \in SUBSET Pub /\ line.versions \in Seq(Rec)
  BY DEF LinesOf
<1>4. o.publisher \in Pub /\ o.record \in Rec
  OBVIOUS
<1> HIDE DEF verdict, Ver, Pub, Rec
<1>5. seen \in Seq(R) /\ decisions \in Seq(Ver) /\ publishers \in SUBSET Pub
  BY <1>2, <1>3, <1>4
<1>6. rewritten \in Seq(Rec) /\ rewritten # <<>>
  <2>1. CASE line.versions = <<>> \/ verdict = "update"
    <3> DEFINE was == line.versions
               now == o.record
    <3>1. rewritten = Append(was, now) /\ was \in Seq(Rec) /\ now \in Rec
      BY <2>1, <1>3, <1>4
    <3> HIDE DEF was, now, rewritten
    <3>2. Append(was, now) \in Seq(Rec) /\ Append(was, now) # <<>>
      BY <3>1
    <3>3. QED
      BY <3>1, <3>2
  <2>2. CASE ~(line.versions = <<>> \/ verdict = "update")
    BY <2>2, <1>3
  <2>3. QED
    BY <2>1, <2>2
<1>7. Observe(line, o) \in LinesOf(R)
  <2> HIDE DEF seen, decisions, publishers, rewritten
  <2>1. QED
    BY <1>1, <1>5, <1>6 DEF LinesOf, Ver, Pub, Rec
<1>8. \/ publishers = line.publishers
      \/ verdict = "independent_corroboration" /\ publishers = line.publishers \union {o.publisher}
  OBVIOUS
<1>9. verdict \in {"exact_duplicate", "syndicated_copy"} /\ line.versions # <<>> =>
        publishers = line.publishers /\ rewritten = line.versions
  OBVIOUS
<1>10. QED
  <2> HIDE DEF seen, decisions, publishers, rewritten
  <2>1. QED
    BY <1>1, <1>6, <1>7, <1>8, <1>9 DEF verdict, seen

(* The part of it that a history is followed by.                           *)
GrowsBy(line, o) ==
  /\ Observe(line, o).seen = Append(line.seen, o)
  /\ Observe(line, o).versions # <<>>
  /\ \/ Observe(line, o).publishers = line.publishers
     \/ /\ Judge(o, line.seen) = "independent_corroboration"
        /\ Observe(line, o).publishers = line.publishers \union {o.publisher}

LEMMA ObserveGrows ==
  ASSUME NEW R, NEW line \in LinesOf(R), NEW o \in R
  PROVE  GrowsBy(line, o)
BY ObserveFacts DEF GrowsBy

LineAlong(after, line, observations) ==
  /\ after[0] = line
  /\ \A k \in 1..Len(observations) : after[k] = Observe(after[k - 1], observations[k])

LEMMA ObservedInTurn ==
  ASSUME NEW R, NEW observations \in Seq(R), NEW line \in LinesOf(R)
  PROVE  \E after \in [0..Len(observations) -> LinesOf(R)] :
           /\ LineAlong(after, line, observations)
           /\ ObserveEach(line, observations) = after[Len(observations)]
<1> DEFINE N == Len(observations)
           X == LinesOf(R)
           step == [x \in X \X (1..N) |-> Observe(x[1], observations[x[2]])]
           Equation(f) == f = [n \in 0..N |-> IF n = 0 THEN line ELSE Observe(f[n - 1], observations[n])]
           chosen == CHOOSE f : Equation(f)
<1>1. N \in Nat /\ \A k \in 1..N : observations[k] \in R
  OBVIOUS
<1> HIDE DEF N
<1>2. step \in [X \X (1..N) -> X]
  BY <1>1, ObserveFacts
<1>3. ASSUME NEW f \in [0..N -> X], Iterates(f, N, line, step)
      PROVE  Equation(f) /\ LineAlong(f, line, observations)
  <2> HIDE DEF X
  <2>1. ASSUME NEW k \in 1..N
        PROVE  f[k] = Observe(f[k - 1], observations[k])
    <3>1. f[k - 1] \in X /\ <<f[k - 1], k>> \in X \X (1..N)
      BY <1>1
    <3>2. QED
      BY <1>3, <3>1 DEF Iterates
  <2>2. QED
    BY <1>1, <1>3, <2>1 DEF Iterates, LineAlong, N
<1>4. PICK f \in [0..N -> X] : Iterates(f, N, line, step)
  <2> HIDE DEF step, X
  <2>1. line \in X
    BY DEF X
  <2>2. QED
    BY <1>1, <1>2, <2>1, Recursion, Zenon
<1>5. Equation(f)
  BY <1>3, <1>4
<1>6. ASSUME NEW g, Equation(g)
      PROVE  g \in [0..N -> X] /\ LineAlong(g, line, observations)
  <2> HIDE DEF X
  <2>1. DOMAIN g = 0..N /\ \A k \in 0..N : g[k] = IF k = 0 THEN line ELSE Observe(g[k - 1], observations[k])
    BY <1>6
  <2>2. LineAlong(g, line, observations)
    BY <1>1, <2>1 DEF LineAlong, N
  <2> DEFINE S == {n \in Nat : n <= N => g[n] \in X}
  <2>3. 0 \in S
    BY <1>1, <2>1 DEF X
  <2>4. ASSUME NEW n \in Nat, n \in S
        PROVE  n + 1 \in S
    <3> SUFFICES ASSUME n + 1 <= N PROVE g[n + 1] \in X
      OBVIOUS
    <3>1. n + 1 \in 1..N /\ n + 1 \in 0..N /\ (n + 1) - 1 = n /\ n + 1 # 0 /\ g[n] \in X
      BY <1>1, <2>4
    <3>2. g[n + 1] = Observe(g[n], observations[n + 1])
      BY <2>1, <3>1
    <3>3. g[n] \in LinesOf(R) /\ observations[n + 1] \in R
      BY <1>1, <3>1 DEF X
    <3>4. Observe(g[n], observations[n + 1]) \in LinesOf(R)
      BY <3>3, ObserveFacts
    <3>5. QED
      BY <3>2, <3>4 DEF X
  <2> HIDE DEF S
  <2>5. Nat \subseteq S
    BY <2>3, <2>4, InductionBySet
  <2>6. \A n \in 0..N : g[n] \in X
    BY <1>1, <2>5 DEF S
  <2>7. g = [n \in 0..N |-> g[n]]
    BY <1>6
  <2>8. QED
    BY <2>2, <2>6, <2>7
<1>7. Equation(chosen)
  <2> HIDE DEF Equation
  <2>1. QED
    BY <1>5
<1>8. ObserveEach(line, observations) = chosen[N]
  BY DEF ObserveEach, N
<1> HIDE DEF chosen, Equation
<1>9. chosen \in [0..N -> X] /\ LineAlong(chosen, line, observations)
  BY <1>6, <1>7
<1>10. QED
  BY <1>8, <1>9 DEF N

LEMMA CorroboratesOnce ==
  ASSUME NEW R, NEW observations \in Seq(R)
  PROVE  LET once == ObserveEach(NoLineage, observations)
             again == ObserveEach(once, observations) IN
         /\ Corroboration(once) <= Cardinality({observations[i].content : i \in DOMAIN observations})
         /\ Corroboration(once) <= Cardinality({observations[i].publisher : i \in DOMAIN observations})
         /\ again.publishers = once.publishers /\ again.versions = once.versions
<1> DEFINE N == Len(observations)
           once == ObserveEach(NoLineage, observations)
           again == ObserveEach(once, observations)
           C(n) == {observations[i].content : i \in 1..n}
           P(n) == {observations[i].publisher : i \in 1..n}
<1>1. N \in Nat /\ DOMAIN observations = 1..N /\ \A k \in 1..N : observations[k] \in R
  OBVIOUS
<1>2. NoLineage \in LinesOf(R)
  BY DEF NoLineage, LinesOf
<1>3. PICK first \in [0..N -> LinesOf(R)] : LineAlong(first, NoLineage, observations) /\ once = first[N]
  BY <1>2, ObservedInTurn
<1>4. once \in LinesOf(R)
  BY <1>1, <1>3
<1>5. PICK second \in [0..N -> LinesOf(R)] : LineAlong(second, once, observations) /\ again = second[N]
  <2> HIDE DEF once
  <2>1. QED
    BY <1>4, ObservedInTurn
<1> HIDE DEF once, again
<1>6. ASSUME NEW n \in Nat
      PROVE  /\ IsFiniteSet(C(n)) /\ IsFiniteSet(P(n))
             /\ C(n + 1) = C(n) \union {observations[n + 1].content}
             /\ P(n + 1) = P(n) \union {observations[n + 1].publisher}
  <2>1. IsFiniteSet(1..n)
    BY FS_Interval
  <2>2. 1..(n + 1) = 1..n \union {n + 1}
    OBVIOUS
  <2>3. IsFiniteSet({observations[i].content : i \in 1..n})
    <3> DEFINE f == [i \in 1..n |-> observations[i].content]
    <3>1. {observations[i].content : i \in 1..n} = {f[i] : i \in DOMAIN f}
      OBVIOUS
    <3>2. f \in [1..n -> C(n)] /\ \A c \in C(n) : \E i \in 1..n : f[i] = c
      OBVIOUS
    <3> HIDE DEF f, C
    <3>3. f \in Surjection(1..n, C(n))
      BY <3>2 DEF Surjection
    <3>4. QED
      BY <2>1, <3>3, FS_Surjection DEF C
  <2>4. IsFiniteSet({observations[i].publisher : i \in 1..n})
    <3> DEFINE f == [i \in 1..n |-> observations[i].publisher]
    <3>2. f \in [1..n -> P(n)] /\ \A c \in P(n) : \E i \in 1..n : f[i] = c
      OBVIOUS
    <3> HIDE DEF f, P
    <3>3. f \in Surjection(1..n, P(n))
      BY <3>2 DEF Surjection
    <3>4. QED
      BY <2>1, <3>3, FS_Surjection DEF P
  <2>5. QED
    BY <2>2, <2>3, <2>4
<1> HIDE DEF C, P
<1> DEFINE Along(n) ==
             /\ Len(first[n].seen) = n
             /\ \A i \in 1..n : first[n].seen[i] = observations[i]
             /\ first[n].publishers \subseteq P(n)
             /\ Cardinality(first[n].publishers) <= Cardinality(C(n))
             /\ n > 0 => first[n].versions # <<>>
           S == {n \in Nat : n <= N => Along(n)}
<1>7. 0 \in S
  <2>1. first[0] = NoLineage
    BY <1>3 DEF LineAlong
  <2>2. Cardinality(C(0)) \in Nat
    BY <1>6, FS_CardinalityType
  <2>3. QED
    BY <2>1, <2>2, FS_EmptySet DEF NoLineage
<1>8. ASSUME NEW n \in Nat, n \in S
      PROVE  n + 1 \in S
  <2> SUFFICES ASSUME n + 1 <= N PROVE Along(n + 1)
    OBVIOUS
  <2> DEFINE was == first[n]
             is == first[n + 1]
             o == observations[n + 1]
  <2>1. n + 1 \in 1..N /\ n \in 0..N /\ (n + 1) - 1 = n /\ Along(n)
    BY <1>1, <1>8
  <2>2. was \in LinesOf(R) /\ o \in R
    BY <1>1, <2>1
  <2>3. is = Observe(was, o)
    BY <1>3, <2>1 DEF LineAlong
  <2> HIDE DEF is
  <2>4. /\ is.seen = Append(was.seen, o) /\ is.versions # <<>>
        /\ \/ is.publishers = was.publishers
           \/ /\ Judge(o, was.seen) = "independent_corroboration"
              /\ is.publishers = was.publishers \union {o.publisher}
    <3> HIDE DEF was, o
    <3>1. GrowsBy(was, o)
      BY <2>2, ObserveGrows
    <3>2. QED
      BY <2>3, <3>1 DEF GrowsBy
  <2>5. was.seen \in Seq(R) /\ Len(was.seen) = n /\ \A i \in 1..n : was.seen[i] = observations[i]
    BY <2>1, <2>2 DEF LinesOf
  <2>6. Len(is.seen) = n + 1 /\ \A i \in 1..(n + 1) : is.seen[i] = observations[i]
    <3>1. Len(is.seen) = n + 1 /\ is.seen[n + 1] = o /\ \A i \in 1..n : is.seen[i] = was.seen[i]
      BY <2>2, <2>4, <2>5
    <3>2. \A i \in 1..(n + 1) : i = n + 1 \/ i \in 1..n
      OBVIOUS
    <3>3. QED
      BY <2>5, <3>1, <3>2
  <2>7. is.publishers \subseteq P(n + 1)
    BY <1>6, <2>1, <2>4
  <2>8. Cardinality(is.publishers) <= Cardinality(C(n + 1))
    <3> DEFINE of == C(n)
               to == C(n + 1)
               had == was.publishers
               have == is.publishers
               independent == Judge(o, was.seen) = "independent_corroboration"
    <3>1. IsFiniteSet(of) /\ to = of \union {o.content} /\ IsFiniteSet(had) /\ Cardinality(had) <= Cardinality(of)
      BY <1>6, <2>1, FS_Subset
    <3>2. \/ have = had
          \/ have = had \union {o.publisher} /\ o.content \notin of
      <4>1. ASSUME Judge(o, was.seen) = "independent_corroboration", o.content \in of
            PROVE  FALSE
        <5>1. PICK i \in 1..n : observations[i].content = o.content
          BY <4>1 DEF C
        <5>2. i \in DOMAIN was.seen /\ was.seen[i].content = o.content
          BY <2>5, <5>1
        <5>3. Judge(o, was.seen) \in {"exact_duplicate", "syndicated_copy"}
          BY <2>5, <5>2, SeenBefore
        <5>4. QED
          BY <4>1, <5>3
      <4> HIDE DEF of
      <4>2. independent => o.content \notin of
        BY <4>1
      <4>3. \/ have = had
            \/ independent /\ have = had \union {o.publisher}
        BY <2>4
      <4> HIDE DEF independent, of, have, had, o
      <4>4. QED
        BY <4>2, <4>3
    <3> HIDE DEF of, to, had, have
    <3>3. Cardinality(of) \in Nat /\ Cardinality(had) \in Nat /\ Cardinality(to) >= Cardinality(of)
      <4>1. Cardinality(of) \in Nat /\ Cardinality(had) \in Nat
        BY <3>1, FS_CardinalityType
      <4>2. Cardinality(to) \in {Cardinality(of), Cardinality(of) + 1}
        BY <3>1, FS_AddElement, Zenon
      <4>3. QED
        BY <4>1, <4>2
    <3>4. CASE have = had
      <4>1. Cardinality(to) \in Nat
        BY <3>1, FS_AddElement, FS_CardinalityType
      <4>2. QED
        BY <3>1, <3>3, <3>4, <4>1 DEF have, to
    <3>5. CASE have = had \union {o.publisher} /\ o.content \notin of
      <4>1. Cardinality(to) = Cardinality(of) + 1
        BY <3>1, <3>5, FS_AddElement
      <4>2. Cardinality(have) \in {Cardinality(had), Cardinality(had) + 1}
        BY <3>1, <3>5, FS_AddElement
      <4>3. QED
        BY <3>1, <3>3, <4>1, <4>2 DEF have, to
    <3>6. QED
      BY <3>2, <3>4, <3>5
  <2>9. QED
    BY <2>4, <2>6, <2>7, <2>8 DEF is
<1>9. Along(N)
  <2> HIDE DEF S
  <2>1. N \in S
    BY <1>1, <1>7, <1>8, InductionBySet
  <2>2. QED
    BY <1>1, <2>1 DEF S
<1>10. /\ Corroboration(once) <= Cardinality(C(N))
       /\ Corroboration(once) <= Cardinality(P(N))
  <2>1. once.publishers \subseteq P(N) /\ Cardinality(once.publishers) <= Cardinality(C(N))
    BY <1>3, <1>9
  <2>2. IsFiniteSet(P(N))
    BY <1>1, <1>6
  <2>3. Cardinality(once.publishers) <= Cardinality(P(N))
    BY <2>1, <2>2, FS_Subset
  <2>4. QED
    BY <2>1, <2>3 DEF Corroboration
<1> DEFINE Still(n) ==
             /\ Len(second[n].seen) = N + n
             /\ \A i \in 1..N : second[n].seen[i] = observations[i]
             /\ second[n].publishers = once.publishers
             /\ second[n].versions = once.versions
           T == {n \in Nat : n <= N => Still(n)}
<1> HIDE DEF S
<1>11. 0 \in T
  <2>1. second[0] = once /\ once = first[N]
    BY <1>3, <1>5 DEF LineAlong
  <2>2. QED
    BY <1>1, <1>9, <2>1
<1>12. ASSUME NEW n \in Nat, n <= N => Still(n), n + 1 <= N
       PROVE  Still(n + 1)
  <2> DEFINE was == second[n]
             is == second[n + 1]
             o == observations[n + 1]
  <2>1. n + 1 \in 1..N /\ n \in 0..N /\ (n + 1) - 1 = n /\ Still(n)
    <3>1. n <= N
      BY <1>1, <1>12
    <3> HIDE DEF Still
    <3>2. QED
      BY <1>1, <1>12, <3>1
  <2>2. was \in LinesOf(R) /\ o \in R
    BY <1>1, <2>1
  <2>3. is = Observe(was, o)
    BY <1>5, <2>1 DEF LineAlong
  <2> HIDE DEF is
  <2>4. was.seen \in Seq(R) /\ Len(was.seen) = N + n
    BY <2>1, <2>2 DEF LinesOf
  <2>5. Judge(o, was.seen) \in {"exact_duplicate", "syndicated_copy"}
    <3>1. n + 1 \in DOMAIN was.seen /\ was.seen[n + 1] = o
      BY <1>1, <2>1, <2>4
    <3>2. QED
      BY <2>4, <3>1, SeenBefore
  <2>6. was.versions # <<>>
    <3>1. N > 0
      BY <1>1, <2>1
    <3>2. once.versions # <<>>
      BY <1>3, <1>9, <3>1
    <3>3. QED
      BY <2>1, <3>2
  <2>7. /\ is.seen = Append(was.seen, o)
        /\ is.publishers = was.publishers /\ is.versions = was.versions
    BY <2>2, <2>3, <2>5, <2>6, ObserveFacts
  <2>8. Len(is.seen) = N + (n + 1) /\ \A i \in 1..N : is.seen[i] = observations[i]
    <3>1. Len(is.seen) = N + (n + 1) /\ \A i \in 1..(N + n) : is.seen[i] = was.seen[i]
      <4> DEFINE q == was.seen
                 r == is.seen
      <4>1. q \in Seq(R) /\ o \in R /\ r = Append(q, o) /\ Len(q) = N + n
        BY <2>2, <2>4, <2>7
      <4> HIDE DEF q, r, o, N
      <4>2. Len(r) = N + n + 1 /\ \A i \in 1..(N + n) : r[i] = q[i]
        <5>1. Len(r) = Len(q) + 1 /\ \A i \in 1..Len(q) : r[i] = q[i]
          BY <4>1
        <5>2. QED
          BY <4>1, <5>1
      <4>3. N + n + 1 = N + (n + 1)
        BY <1>1
      <4>4. QED
        BY <4>2, <4>3 DEF q, r
    <3>2. \A i \in 1..N : i \in 1..(N + n)
      BY <1>1
    <3>3. QED
      BY <2>1, <3>1, <3>2
  <2>9. QED
    BY <2>1, <2>7, <2>8 DEF is
<1> HIDE DEF Still
<1>13. Still(N)
  <2>1. \A n \in Nat : n \in T => n + 1 \in T
    BY <1>12
  <2> HIDE DEF T
  <2>2. N \in T
    BY <1>1, <1>11, <2>1, InductionBySet
  <2>3. QED
    BY <1>1, <2>2 DEF T
<1>14. again.publishers = once.publishers /\ again.versions = once.versions
  BY <1>5, <1>13 DEF Still
<1>15. QED
  BY <1>1, <1>10, <1>14 DEF once, again, C, P

-----------------------------------------------------------------------------
(* Markings: a merged record may be shown to whom both might be.           *)
(* A marking that an identity has nothing against.                         *)
Passes(identity, marking, capability) ==
  /\ marking[1] = "tlp" => PO!TlpRank(marking[2]) <= PO!TlpRank(identity.max_tlp)
  /\ marking[1] = "pap" => PO!PapRank(marking[2]) <= PO!PapRank(identity.max_pap)
  /\ marking[1] = "handling" => marking[2] \in identity.cleared
  /\ marking[1] = "attribution" => capability # "redistribute"

LEMMA RankFacts ==
  ASSUME NEW level
  PROVE  /\ PO!TlpRank(level) \in 1..6 /\ PO!PapRank(level) \in 1..5
         /\ level \in Range(PO!TlpLevel) => PO!TlpRank(level) <= 5
         /\ PO!TlpRank("red") = 5
<1>1. ASSUME NEW levels, NEW n \in Nat, DOMAIN levels = 1..n, Len(levels) = n
      PROVE  /\ PO!RankOf(levels, level) \in 1..(n + 1)
             /\ level \in Range(levels) => /\ PO!RankOf(levels, level) \in 1..n
                                            /\ levels[PO!RankOf(levels, level)] = level
  <2>1. CASE level \in Range(levels)
    <3>1. \E i \in DOMAIN levels : levels[i] = level
      BY <2>1 DEF Range
    <3>2. PO!RankOf(levels, level) = CHOOSE i \in DOMAIN levels : levels[i] = level
      BY <3>1 DEF PO!RankOf
    <3>3. QED
      BY <1>1, <3>1, <3>2
  <2>2. CASE level \notin Range(levels)
    BY <1>1, <2>2 DEF PO!RankOf, Range
  <2>3. QED
    BY <2>1, <2>2
<1>2. DOMAIN PO!TlpLevel = 1..5 /\ Len(PO!TlpLevel) = 5 /\ DOMAIN PO!PapLevel = 1..4 /\ Len(PO!PapLevel) = 4
  BY DEF PO!TlpLevel, PO!PapLevel
<1>3. /\ PO!TlpRank(level) \in 1..6 /\ PO!PapRank(level) \in 1..5
      /\ level \in Range(PO!TlpLevel) => PO!TlpRank(level) <= 5
  <2>1. PO!RankOf(PO!TlpLevel, level) \in 1..(5 + 1)
    BY <1>1, <1>2
  <2>2. PO!RankOf(PO!PapLevel, level) \in 1..(4 + 1)
    BY <1>1, <1>2
  <2>3. level \in Range(PO!TlpLevel) => PO!RankOf(PO!TlpLevel, level) \in 1..5
    BY <1>1, <1>2
  <2>4. QED
    BY <2>1, <2>2, <2>3 DEF PO!TlpRank, PO!PapRank
<1>4. PO!TlpRank("red") = 5
  <2>1. "red" \in Range(PO!TlpLevel)
    <3>1. PO!TlpLevel[5] = "red" /\ 5 \in DOMAIN PO!TlpLevel
      BY DEF PO!TlpLevel
    <3>2. QED
      BY <3>1 DEF Range
  <2>2. PO!TlpRank("red") = CHOOSE i \in DOMAIN PO!TlpLevel : PO!TlpLevel[i] = "red"
    BY <2>1 DEF PO!TlpRank, PO!RankOf, Range
  <2>3. \A i \in DOMAIN PO!TlpLevel : PO!TlpLevel[i] = "red" <=> i = 5
    BY DEF PO!TlpLevel
  <2>4. QED
    BY <1>2, <2>2, <2>3
<1>5. QED
  BY <1>3, <1>4

NoneIsNoReason ==
  None \notin {"tlp_above_ceiling", "pap_above_ceiling", "handling_not_cleared", "attribution_required"}

(* What is allowed is whatever is allowed of each marking by itself.       *)
LEMMA AllowedFacts ==
  ASSUME NEW identity, NEW marks, NEW capability
  PROVE  PO!Allowed(identity, marks, capability) <=>
           /\ capability \in identity.capabilities
           /\ \A m \in marks : Passes(identity, m, capability)
<1>1. NoneIsNoReason
  BY SamplesAssumption DEF NoneIsNoReason
<1>2. ASSUME NEW m
      PROVE  PO!Denial(identity, m, capability) = None <=> Passes(identity, m, capability)
  <2>1. /\ PO!TlpRank(m[2]) \in Int /\ PO!TlpRank(identity.max_tlp) \in Int
        /\ PO!PapRank(m[2]) \in Int /\ PO!PapRank(identity.max_pap) \in Int
    BY RankFacts
  <2> DEFINE tlp == m[1] = "tlp" /\ PO!TlpRank(m[2]) > PO!TlpRank(identity.max_tlp)
             pap == m[1] = "pap" /\ PO!PapRank(m[2]) > PO!PapRank(identity.max_pap)
             handling == m[1] = "handling" /\ m[2] \notin identity.cleared
             attribution == m[1] = "attribution" /\ capability = "redistribute"
  <2>2. Passes(identity, m, capability) <=> ~tlp /\ ~pap /\ ~handling /\ ~attribution
    BY <2>1 DEF Passes
  <2>3. PO!Denial(identity, m, capability) =
          CASE tlp -> "tlp_above_ceiling" [] pap -> "pap_above_ceiling"
            [] handling -> "handling_not_cleared" [] attribution -> "attribution_required"
            [] OTHER -> None
    BY DEF PO!Denial
  <2>4. /\ ~(tlp /\ pap) /\ ~(tlp /\ handling) /\ ~(tlp /\ attribution)
        /\ ~(pap /\ handling) /\ ~(pap /\ attribution) /\ ~(handling /\ attribution)
    OBVIOUS
  <2> HIDE DEF tlp, pap, handling, attribution
  <2>5. CASE ~tlp /\ ~pap /\ ~handling /\ ~attribution
    BY <2>2, <2>3, <2>5
  <2>6. CASE tlp \/ pap \/ handling \/ attribution
    <3>1. PO!Denial(identity, m, capability) \in
            {"tlp_above_ceiling", "pap_above_ceiling", "handling_not_cleared", "attribution_required"}
      BY <2>3, <2>4, <2>6
    <3>2. QED
      BY <1>1, <2>2, <2>6, <3>1 DEF NoneIsNoReason
  <2>7. QED
    BY <2>5, <2>6
<1>3. PO!Allowed(identity, marks, capability) <=>
        /\ {capability} \ identity.capabilities = {}
        /\ \A m \in marks : PO!Denial(identity, m, capability) = None
  BY DEF PO!Allowed, PO!Denials
<1>4. QED
  BY <1>2, <1>3

(* A highest rank there is.                                                *)
LEMMA MostIsThere ==
  ASSUME NEW S, S # {}, NEW Rank, NEW n \in Nat, \A l \in S : Rank[l] \in 1..n
  PROVE  \E l \in S : \A k \in S : Rank[k] <= Rank[l]
<1> DEFINE T == {n - Rank[l] : l \in S}
<1>1. T \in SUBSET Nat /\ T # {}
  OBVIOUS
<1>2. PICK t \in T : \A u \in T : t <= u
  <2> HIDE DEF T
  <2>1. QED
    BY <1>1, LeastNumber
<1>3. PICK l \in S : t = n - Rank[l]
  BY <1>2
<1>4. ASSUME NEW k \in S PROVE Rank[k] <= Rank[l]
  <2>1. n - Rank[k] \in T
    OBVIOUS
  <2>2. n - Rank[l] <= n - Rank[k] /\ Rank[k] \in Int /\ Rank[l] \in Int
    BY <1>2, <1>3, <2>1
  <2>3. QED
    BY <2>2
<1>5. QED
  BY <1>4

LEMMA MostRestrictiveFacts ==
  ASSUME NEW marks
  PROVE  /\ PO!LevelsIn(marks, "tlp") # {} =>
              /\ PO!MostRestrictiveTlp(marks) \in PO!LevelsIn(marks, "tlp")
              /\ \A k \in PO!LevelsIn(marks, "tlp") : PO!TlpRank(k) <= PO!TlpRank(PO!MostRestrictiveTlp(marks))
         /\ PO!LevelsIn(marks, "pap") # {} =>
              /\ PO!MostRestrictivePap(marks) \in PO!LevelsIn(marks, "pap")
              /\ \A k \in PO!LevelsIn(marks, "pap") : PO!PapRank(k) <= PO!PapRank(PO!MostRestrictivePap(marks))
<1>1. ASSUME PO!LevelsIn(marks, "tlp") # {}
      PROVE  /\ PO!MostRestrictiveTlp(marks) \in PO!LevelsIn(marks, "tlp")
             /\ \A k \in PO!LevelsIn(marks, "tlp") : PO!TlpRank(k) <= PO!TlpRank(PO!MostRestrictiveTlp(marks))
  <2> DEFINE found == PO!LevelsIn(marks, "tlp")
             Rank == [l \in found |-> PO!TlpRank(l)]
  <2>1. \A l \in found : Rank[l] \in 1..6
    BY RankFacts
  <2>2. \E l \in found : \A k \in found : Rank[k] <= Rank[l]
    <3> HIDE DEF found, Rank
    <3>1. QED
      BY <1>1, <2>1, MostIsThere DEF found
  <2>3. PO!MostRestrictiveTlp(marks) =
          CHOOSE l \in found : \A k \in found : PO!TlpRank(k) <= PO!TlpRank(l)
    BY <1>1 DEF PO!MostRestrictiveTlp, PO!MostRestrictive, PO!TlpRank
  <2> HIDE DEF found
  <2>4. QED
    BY <2>2, <2>3 DEF found
<1>2. ASSUME PO!LevelsIn(marks, "pap") # {}
      PROVE  /\ PO!MostRestrictivePap(marks) \in PO!LevelsIn(marks, "pap")
             /\ \A k \in PO!LevelsIn(marks, "pap") : PO!PapRank(k) <= PO!PapRank(PO!MostRestrictivePap(marks))
  <2> DEFINE found == PO!LevelsIn(marks, "pap")
             Rank == [l \in found |-> PO!PapRank(l)]
  <2>1. \A l \in found : Rank[l] \in 1..5
    BY RankFacts
  <2>2. \E l \in found : \A k \in found : Rank[k] <= Rank[l]
    <3> HIDE DEF found, Rank
    <3>1. QED
      BY <1>2, <2>1, MostIsThere DEF found
  <2>3. PO!MostRestrictivePap(marks) =
          CHOOSE l \in found : \A k \in found : PO!PapRank(k) <= PO!PapRank(l)
    BY <1>2 DEF PO!MostRestrictivePap, PO!MostRestrictive, PO!PapRank
  <2> HIDE DEF found
  <2>4. QED
    BY <2>2, <2>3 DEF found
<1>3. QED
  BY <1>1, <1>2

(* Who is let see all of some markings of one kind is let see the most     *)
(* restrictive of them.                                                    *)
LEMMA MostSpeaksForAll ==
  ASSUME NEW who, NEW marks, marks # {}, NEW capability
  PROVE  /\ (\A m \in marks : m[1] = "tlp") =>
              (PO!Allowed(who, marks, capability) <=>
                 PO!Allowed(who, {PO!Tlp(PO!MostRestrictiveTlp(marks))}, capability))
         /\ (\A m \in marks : m[1] = "pap") =>
              (PO!Allowed(who, marks, capability) <=>
                 PO!Allowed(who, {PO!Pap(PO!MostRestrictivePap(marks))}, capability))
<1>1. ASSUME \A m \in marks : m[1] = "tlp"
      PROVE  PO!Allowed(who, marks, capability) <=>
               PO!Allowed(who, {PO!Tlp(PO!MostRestrictiveTlp(marks))}, capability)
  <2> DEFINE most == PO!MostRestrictiveTlp(marks)
             found == PO!LevelsIn(marks, "tlp")
             ceiling == PO!TlpRank(who.max_tlp)
  <2>1. found = {m[2] : m \in marks} /\ found # {}
    BY <1>1 DEF PO!LevelsIn
  <2>2. most \in found /\ \A k \in found : PO!TlpRank(k) <= PO!TlpRank(most)
    BY <2>1, MostRestrictiveFacts
  <2> HIDE DEF most, found, ceiling
  <2>3. ceiling \in Int /\ \A k \in found : PO!TlpRank(k) \in Int
    BY RankFacts DEF ceiling
  <2>4. (\A k \in found : PO!TlpRank(k) <= ceiling) <=> PO!TlpRank(most) <= ceiling
    BY <2>2, <2>3
  <2>5. \A m \in marks : Passes(who, m, capability) <=> PO!TlpRank(m[2]) <= ceiling
    BY <1>1 DEF Passes, ceiling
  <2>6. (\A m \in marks : Passes(who, m, capability)) <=> \A k \in found : PO!TlpRank(k) <= ceiling
    BY <2>1, <2>5
  <2>7. Passes(who, PO!Tlp(most), capability) <=> PO!TlpRank(most) <= ceiling
    BY DEF Passes, PO!Tlp, ceiling
  <2>8. PO!Allowed(who, marks, capability) <=>
          capability \in who.capabilities /\ \A m \in marks : Passes(who, m, capability)
    BY AllowedFacts
  <2>9. PO!Allowed(who, {PO!Tlp(most)}, capability) <=>
          capability \in who.capabilities /\ Passes(who, PO!Tlp(most), capability)
    BY AllowedFacts
  <2>10. QED
    BY <2>4, <2>6, <2>7, <2>8, <2>9 DEF most
<1>2. ASSUME \A m \in marks : m[1] = "pap"
      PROVE  PO!Allowed(who, marks, capability) <=>
               PO!Allowed(who, {PO!Pap(PO!MostRestrictivePap(marks))}, capability)
  <2> DEFINE most == PO!MostRestrictivePap(marks)
             found == PO!LevelsIn(marks, "pap")
             ceiling == PO!PapRank(who.max_pap)
  <2>1. found = {m[2] : m \in marks} /\ found # {}
    BY <1>2 DEF PO!LevelsIn
  <2>2. most \in found /\ \A k \in found : PO!PapRank(k) <= PO!PapRank(most)
    BY <2>1, MostRestrictiveFacts
  <2> HIDE DEF most, found, ceiling
  <2>3. ceiling \in Int /\ \A k \in found : PO!PapRank(k) \in Int
    BY RankFacts DEF ceiling
  <2>4. (\A k \in found : PO!PapRank(k) <= ceiling) <=> PO!PapRank(most) <= ceiling
    BY <2>2, <2>3
  <2>5. \A m \in marks : Passes(who, m, capability) <=> PO!PapRank(m[2]) <= ceiling
    BY <1>2 DEF Passes, ceiling
  <2>6. (\A m \in marks : Passes(who, m, capability)) <=> \A k \in found : PO!PapRank(k) <= ceiling
    BY <2>1, <2>5
  <2>7. Passes(who, PO!Pap(most), capability) <=> PO!PapRank(most) <= ceiling
    BY DEF Passes, PO!Pap, ceiling
  <2>8. PO!Allowed(who, marks, capability) <=>
          capability \in who.capabilities /\ \A m \in marks : Passes(who, m, capability)
    BY AllowedFacts
  <2>9. PO!Allowed(who, {PO!Pap(most)}, capability) <=>
          capability \in who.capabilities /\ Passes(who, PO!Pap(most), capability)
    BY AllowedFacts
  <2>10. QED
    BY <2>4, <2>6, <2>7, <2>8, <2>9 DEF most
<1>3. QED
  BY <1>1, <1>2

(* Who is given more loses nothing.                                        *)
LEMMA WiderSeesMore ==
  ASSUME NEW who, Stateable(who), NEW marks, NEW capability, PO!Allowed(who, marks, capability),
         NEW wider \in {PO!ClearedFor(who, "h"), PO!WithCapability(who, "redistribute"),
                        PO!WithMaxTlp(who, "red")}
  PROVE  PO!Allowed(wider, marks, capability)
<1>1. capability \in who.capabilities /\ \A m \in marks : Passes(who, m, capability)
  BY AllowedFacts
<1>2. /\ DOMAIN who = {"name", "max_tlp", "max_pap", "capabilities", "cleared"}
      /\ PO!TlpRank(who.max_tlp) <= 5 /\ PO!TlpRank("red") = 5
  BY RankFacts DEF Stateable, PO!Anonymous, PO!Identity
<1>3. /\ who.capabilities \subseteq wider.capabilities
      /\ who.cleared \subseteq wider.cleared /\ wider.max_pap = who.max_pap
      /\ wider.max_tlp \in {who.max_tlp, "red"}
  <2>1. CASE wider = PO!ClearedFor(who, "h")
    BY <1>2, <2>1 DEF PO!ClearedFor
  <2>2. CASE wider = PO!WithCapability(who, "redistribute")
    BY <1>2, <2>2 DEF PO!WithCapability
  <2>3. CASE wider = PO!WithMaxTlp(who, "red")
    BY <1>2, <2>3 DEF PO!WithMaxTlp
  <2>4. QED
    BY <2>1, <2>2, <2>3
<1>4. ASSUME NEW m \in marks
      PROVE  Passes(wider, m, capability)
  <2>1. /\ PO!TlpRank(m[2]) \in Int /\ PO!TlpRank(who.max_tlp) \in Int
        /\ PO!TlpRank(who.max_tlp) <= PO!TlpRank(wider.max_tlp) /\ PO!TlpRank(wider.max_tlp) \in Int
    BY <1>2, <1>3, RankFacts
  <2>2. Passes(who, m, capability)
    BY <1>1
  <2>3. QED
    BY <1>3, <2>1, <2>2 DEF Passes
<1>5. QED
  BY <1>1, <1>3, <1>4, AllowedFacts

LEMMA MarkedHolds == Sampled("marked") /\ Stateable(sample.identity) => MergedIsBothTheirs
<1> SUFFICES ASSUME Sampled("marked"), Stateable(sample.identity) PROVE MergedIsBothTheirs
  OBVIOUS
<1> DEFINE identity == sample.identity
           capability == sample.capability
           a == sample.a
           b == sample.b
           both == a \union b
<1>1. MergedMarkings([marked |-> sample.a], [marked |-> sample.b]) = both
  BY DEF MergedMarkings
<1>2. ~MergeLosesAMarking([marked |-> sample.a], [marked |-> sample.b], both)
  BY DEF MergeLosesAMarking
<1>3. \A marks : PO!Allowed(identity, marks, capability) <=>
        capability \in identity.capabilities /\ \A m \in marks : Passes(identity, m, capability)
  BY AllowedFacts
<1>4. PO!Allowed(identity, both, capability) <=>
        PO!Allowed(identity, a, capability) /\ PO!Allowed(identity, b, capability)
  BY <1>3
<1>5. PO!Allowed(identity, both, capability) => PO!Can(identity, capability)
  BY <1>3 DEF PO!Can
<1> HIDE DEF identity, capability, both
<1>6. /\ both # {} /\ (\A m \in both : m[1] = "tlp") =>
           (PO!Allowed(identity, both, capability) <=>
              PO!Allowed(identity, {PO!Tlp(PO!MostRestrictiveTlp(both))}, capability))
      /\ both # {} /\ (\A m \in both : m[1] = "pap") =>
           (PO!Allowed(identity, both, capability) <=>
              PO!Allowed(identity, {PO!Pap(PO!MostRestrictivePap(both))}, capability))
  BY MostSpeaksForAll
<1>7. \A wider \in {PO!ClearedFor(identity, "h"), PO!WithCapability(identity, "redistribute"),
                    PO!WithMaxTlp(identity, "red")} :
        PO!Allowed(identity, both, capability) => PO!Allowed(wider, both, capability)
  BY WiderSeesMore DEF identity
<1>8. QED
  BY <1>1, <1>2, <1>4, <1>5, <1>6, <1>7 DEF MergedIsBothTheirs, identity, capability, both

LEMMA IdentityOfSamples == SampleTaken => CorroborationIsIndependent /\ MergedIsBothTheirs
<1> SUFFICES ASSUME SampleTaken PROVE CorroborationIsIndependent /\ MergedIsBothTheirs
  OBVIOUS
<1>1. CorroborationIsIndependent
  <2>1. CASE Sampled("lineage")
    <3>1. sample \in Seq(Range(sample))
      BY <2>1, SamplesAssumption DEF SampleTaken, Sampled
    <3>2. QED
      BY <3>1, CorroboratesOnce DEF CorroborationIsIndependent
  <2>2. CASE ~Sampled("lineage")
    BY <2>2 DEF CorroborationIsIndependent
  <2>3. QED
    BY <2>1, <2>2
<1>2. MergedIsBothTheirs
  <2>1. CASE Sampled("marked")
    <3>1. Stateable(sample.identity)
      BY <2>1, SamplesAssumption DEF SampleTaken, Sampled
    <3>2. QED
      BY <2>1, <3>1, MarkedHolds
  <2>2. CASE ~Sampled("marked")
    BY <2>2 DEF MergedIsBothTheirs
  <2>3. QED
    BY <2>1, <2>2
<1>3. QED
  BY <1>1, <1>2

(* However many operations analysts apply, to whatever identities: what    *)
(* was said last of a pair or of an identity stands, a chain of merges     *)
(* ends, and what the records carry decides only what nobody rejected or   *)
(* pinned (resolve.rs:595).  Of any line of observations, a publication    *)
(* corroborates once (dedup.rs:297), and of any markings the merged record *)
(* may be shown to whoever both might be shown to (policy.rs:356).         *)
THEOREM IdentitiesAreReviewed == LawsSpec => []IdentityIsReviewed
<1>1. Reviewed /\ InForce /\ SampleTaken => IdentityIsReviewed
  BY ReviewUnifies, IdentityOfSamples DEF IdentityIsReviewed
<1>2. QED
  BY <1>1, UnifiedStays, SamplesStay, PTL DEF LawsSpec

-----------------------------------------------------------------------------
(* Tables: what was called, in order, and what the rows say of it.         *)
CallsListed == \E S : calls \in Seq(S)

LEMMA CallsAre ==
  ASSUME CallsListed
  PROVE  Len(calls) \in Nat /\ DOMAIN calls = 1..Len(calls)
<1>1. PICK S : calls \in Seq(S)
  BY DEF CallsListed
<1>2. QED
  BY <1>1

(* The call that was made last is the last of the line.                    *)
LEMMA Called ==
  ASSUME CallsListed, NEW op, NEW key, NEW about, NEW said, Answered(op, key, about, said)
  PROVE  /\ CallsListed'
         /\ DOMAIN calls' = 1..(Len(calls) + 1) /\ Len(calls') = Len(calls) + 1
         /\ \A i \in DOMAIN calls : calls'[i] = calls[i]
         /\ calls'[Len(calls) + 1] = [op |-> op, key |-> key, about |-> about, said |-> said]
<1> DEFINE call == [op |-> op, key |-> key, about |-> about, said |-> said]
<1>1. PICK S : calls \in Seq(S)
  BY DEF CallsListed
<1>2. calls' = Append(calls, call)
  BY DEF Answered
<1>3. calls \in Seq(S \union {call})
  BY <1>1
<1> HIDE DEF call
<1>4. calls' \in Seq(S \union {call})
  BY <1>2, <1>3
<1>5. CallsListed'
  BY <1>4 DEF CallsListed
<1>6. /\ DOMAIN calls' = 1..(Len(calls) + 1) /\ Len(calls') = Len(calls) + 1
      /\ \A i \in DOMAIN calls : calls'[i] = calls[i]
      /\ calls'[Len(calls) + 1] = call
  BY <1>2, <1>3
<1>7. QED
  BY <1>5, <1>6 DEF call

(* It is one more of its kind and about its key.                           *)
LEMMA CalledAmong ==
  ASSUME CallsListed, NEW op, NEW key, NEW about, NEW said, Answered(op, key, about, said)
  PROVE  /\ CallsOf(op)' = CallsOf(op) \union {Len(calls) + 1}
         /\ \A o : o # op => CallsOf(o)' = CallsOf(o)
         /\ \A ops, k : CallsAbout(ops, k)' =
              CallsAbout(ops, k) \union (IF op \in ops /\ k = key THEN {Len(calls) + 1} ELSE {})
<1>1. /\ DOMAIN calls' = 1..(Len(calls) + 1)
      /\ \A i \in DOMAIN calls : calls'[i] = calls[i]
      /\ calls'[Len(calls) + 1].op = op /\ calls'[Len(calls) + 1].key = key
  <2>1. /\ DOMAIN calls' = 1..(Len(calls) + 1)
        /\ \A i \in DOMAIN calls : calls'[i] = calls[i]
        /\ calls'[Len(calls) + 1] = [op |-> op, key |-> key, about |-> about, said |-> said]
    BY Called
  <2>2. QED
    BY <2>1
<1>2. DOMAIN calls = 1..Len(calls) /\ Len(calls) \in Nat
  BY CallsAre
<1>3. /\ DOMAIN calls' = DOMAIN calls \union {Len(calls) + 1}
      /\ Len(calls) + 1 \notin DOMAIN calls
  BY <1>1, <1>2
<1>4. ASSUME NEW o
      PROVE  CallsOf(o)' = {i \in DOMAIN calls' : calls'[i].op = o}
  BY DEF CallsOf
<1>5. \A o : CallsOf(o)' = CallsOf(o) \union (IF o = op THEN {Len(calls) + 1} ELSE {})
  BY <1>1, <1>3, <1>4 DEF CallsOf
<1>6. ASSUME NEW ops, NEW k
      PROVE  CallsAbout(ops, k)' = CallsAbout(ops, k)
               \union (IF op \in ops /\ k = key THEN {Len(calls) + 1} ELSE {})
  BY <1>1, <1>3 DEF CallsAbout
<1>7. QED
  BY <1>5, <1>6

(* A step that calls nothing of some kinds.                                *)
Others(ops) ==
  \/ UNCHANGED calls
  \/ \E op, key, about, said : op \notin ops /\ Answered(op, key, about, said)

LEMMA OthersCalled ==
  ASSUME CallsListed, NEW ops, Others(ops)
  PROVE  /\ CallsListed'
         /\ DOMAIN calls \subseteq DOMAIN calls'
         /\ \A i \in DOMAIN calls : calls'[i] = calls[i]
         /\ \A o \in ops : CallsOf(o)' = CallsOf(o)
         /\ \A os, k : os \subseteq ops => CallsAbout(os, k)' = CallsAbout(os, k)
<1>1. CASE UNCHANGED calls
  BY <1>1 DEF CallsListed, CallsOf, CallsAbout
<1>2. CASE \E op, key, about, said : op \notin ops /\ Answered(op, key, about, said)
  <2>1. PICK op, key, about, said : op \notin ops /\ Answered(op, key, about, said)
    BY <1>2
  <2>2. /\ CallsListed' /\ DOMAIN calls' = 1..(Len(calls) + 1)
        /\ \A i \in DOMAIN calls : calls'[i] = calls[i]
    BY <2>1, Called
  <2>3. DOMAIN calls = 1..Len(calls) /\ Len(calls) \in Nat
    BY CallsAre
  <2>4. \A o \in ops : CallsOf(o)' = CallsOf(o)
    BY <2>1, CalledAmong
  <2>5. \A os, k : CallsAbout(os, k)' =
          CallsAbout(os, k) \union (IF op \in os /\ k = key THEN {Len(calls) + 1} ELSE {})
    BY <2>1, CalledAmong
  <2>6. \A os, k : os \subseteq ops => CallsAbout(os, k)' = CallsAbout(os, k)
    BY <2>1, <2>5
  <2>7. DOMAIN calls \subseteq DOMAIN calls'
    BY <2>2, <2>3
  <2>8. QED
    BY <2>2, <2>4, <2>6, <2>7
<1>3. QED
  BY <1>1, <1>2 DEF Others

-----------------------------------------------------------------------------
(* What failed.                                                            *)
Met(id) == CallsAbout({"quarantine"}, id)

(* The times a row was met: its number of the row and a number of its own. *)
Times == UNION {{id} \X (1 .. quarantined[id].occurrences) : id \in DOMAIN quarantined}

RowAddsUp(id) ==
  /\ quarantined[id] # None
  /\ quarantined[id].occurrences \in Nat \ {0}
  /\ quarantined[id].first_seen \in Met(id) /\ quarantined[id].last_seen \in Met(id)
  /\ \A i \in Met(id) :
       /\ quarantined[id].first_seen <= i /\ i <= quarantined[id].last_seen
       /\ calls[i].said <=> i = quarantined[id].first_seen
  /\ quarantined[id].reason = calls[quarantined[id].last_seen].about.reason

FailuresKept ==
  /\ DOMAIN quarantined = {calls[i].key : i \in CallsOf("quarantine")}
  /\ \A i \in CallsOf("quarantine") :
       calls[i].about \in Entries /\ calls[i].key = QuarantineId(calls[i].about)
  /\ \A id \in DOMAIN quarantined : RowAddsUp(id)
  /\ IsFiniteSet(Times)
  /\ Cardinality(Times) = Cardinality(CallsOf("quarantine"))

LEMMA CallsAreFew ==
  ASSUME CallsListed, NEW op
  PROVE  IsFiniteSet(CallsOf(op)) /\ CallsOf(op) \subseteq 1..Len(calls)
<1>1. Len(calls) \in Nat /\ CallsOf(op) \subseteq 1..Len(calls)
  BY CallsAre DEF CallsOf
<1>2. IsFiniteSet(1..Len(calls))
  BY <1>1, FS_Interval
<1>3. QED
  BY <1>1, <1>2, FS_Subset

(* The greatest of some calls is one of them, and no less than any.        *)
LEMMA MaxFacts ==
  ASSUME NEW S \in SUBSET Nat, NEW m \in S, \A n \in S : n <= m
  PROVE  Max(S) = m
<1>1. \A n \in S : m >= n
  OBVIOUS
<1>2. \A x \in S : (\A n \in S : x >= n) => x = m
  OBVIOUS
<1>3. QED
  BY <1>1, <1>2 DEF Max

LEMMA MinIs ==
  ASSUME NEW S \in SUBSET Nat, NEW m \in S, \A n \in S : m <= n
  PROVE  Min(S) = m
<1>1. \A x \in S : (\A n \in S : x <= n) => x = m
  OBVIOUS
<1>2. QED
  BY <1>1 DEF Min

LEMMA FailuresAdd ==
  ASSUME CallsListed, FailuresKept
  PROVE  FailuresAddUp
<1>1. /\ QuarantineOccurrences = Cardinality(CallsOf("quarantine"))
      /\ QuarantineCount = Cardinality({calls[i].key : i \in CallsOf("quarantine")})
  BY DEF QuarantineOccurrences, QuarantineCount, FailuresKept, Times
<1>2. ASSUME NEW id \in DOMAIN quarantined
      PROVE  LET met == CallsAbout({"quarantine"}, id)  row == quarantined[id] IN
             /\ row.first_seen = Min(met) /\ row.last_seen = Max(met)
             /\ \A i \in met : calls[i].said <=> i = Min(met)
             /\ row.reason = calls[Max(met)].about.reason
  <2> DEFINE met == CallsAbout({"quarantine"}, id)
             row == quarantined[id]
             first == row.first_seen
             last == row.last_seen
  <2>1. RowAddsUp(id)
    BY DEF FailuresKept
  <2>2. met \in SUBSET Nat
    BY CallsAre DEF CallsAbout
  <2>3. first \in met /\ last \in met
    BY <2>1 DEF RowAddsUp, Met
  <2>8. (\A i \in met : first <= i) /\ (\A i \in met : i <= last)
    BY <2>1 DEF RowAddsUp, Met
  <2>4. (\A i \in met : calls[i].said <=> i = first) /\ row.reason = calls[last].about.reason
    BY <2>1 DEF RowAddsUp, Met
  <2> HIDE DEF met, first, last, row
  <2>5. Max(met) = last
    BY <2>2, <2>3, <2>8, MaxFacts
  <2>6. Min(met) = first
    BY <2>2, <2>3, <2>8, MinIs
  <2>7. QED
    BY <2>4, <2>5, <2>6 DEF met, first, last, row
<1>3. ASSUME NEW i \in CallsOf("quarantine")
      PROVE  \E row \in QuarantinedForSource(calls[i].about.source) :
               row.first_seen <= i /\ i <= row.last_seen
  <2> DEFINE id == calls[i].key
  <2>1. id \in DOMAIN quarantined /\ id = QuarantineId(calls[i].about)
    BY DEF FailuresKept
  <2>2. id[1] = calls[i].about.source
    BY <2>1 DEF QuarantineId
  <2>3. quarantined[id] \in QuarantinedForSource(calls[i].about.source)
    BY <2>1, <2>2 DEF QuarantinedForSource
  <2>4. i \in Met(id)
    BY DEF Met, CallsAbout, CallsOf
  <2>5. quarantined[id].first_seen <= i /\ i <= quarantined[id].last_seen
    BY <2>1, <2>4 DEF FailuresKept, RowAddsUp
  <2>6. QED
    BY <2>3, <2>5
<1>4. QED
  BY <1>1, <1>2, <1>3 DEF FailuresAddUp

LEMMA FailuresStay ==
  ASSUME CallsListed, FailuresKept, quarantined' = quarantined, Others({"quarantine"})
  PROVE  FailuresKept'
<1>1. /\ CallsOf("quarantine")' = CallsOf("quarantine")
      /\ \A id : Met(id)' = Met(id)
      /\ \A i \in CallsOf("quarantine") : calls'[i] = calls[i]
      /\ \A id : Met(id) \subseteq CallsOf("quarantine")
  BY OthersCalled DEF Met, CallsOf, CallsAbout
<1>2. Times' = Times
  BY DEF Times
<1>3. ASSUME NEW id \in DOMAIN quarantined
      PROVE  RowAddsUp(id)'
  <2>1. RowAddsUp(id)
    BY DEF FailuresKept
  <2>2. \A i \in Met(id) : calls'[i] = calls[i]
    BY <1>1
  <2>3. QED
    BY <1>1, <2>1, <2>2 DEF RowAddsUp
<1>4. QED
  BY <1>1, <1>2, <1>3 DEF FailuresKept

(* What a failure met leaves: its row, and how it was answered.            *)
QuarantinedAs(e, id, row, said) ==
  /\ id = QuarantineId(e)
  /\ row = Quarantined(Row(quarantined, id), e)
  /\ said = IF row.occurrences = 1 THEN TRUE ELSE FALSE
  /\ quarantined' = Stored(quarantined, id, row) /\ Answered("quarantine", id, e, said)

MetSoFar(id) == IF id \in DOMAIN quarantined THEN quarantined[id].occurrences ELSE 0

LEMMA QuarantinedRows ==
  ASSUME NEW e, NEW id, NEW row, NEW said, QuarantinedAs(e, id, row, said)
  PROVE  /\ DOMAIN quarantined' = DOMAIN quarantined \union {id} /\ quarantined'[id] = row
         /\ \A k \in DOMAIN quarantined : k # id => quarantined'[k] = quarantined[k]
         /\ Answered("quarantine", id, e, said)
<1>1. quarantined' = Stored(quarantined, id, row) /\ Answered("quarantine", id, e, said)
  BY Zenon DEF QuarantinedAs
<1>2. QED
  BY <1>1 DEF Stored

(* A row met again adds up.                                                *)
LEMMA RowMetAgain ==
  ASSUME CallsListed, FailuresKept, NEW e \in Entries, NEW id, NEW row, NEW said,
         QuarantinedAs(e, id, row, said)
  PROVE  RowAddsUp(id)' /\ row.occurrences = MetSoFar(id) + 1 /\ MetSoFar(id) \in Nat
<1>0. Answered("quarantine", id, e, said)
  BY QuarantinedRows
<1>1. /\ Len(calls) \in Nat /\ DOMAIN calls = 1..Len(calls)
      /\ DOMAIN calls' = 1..(Len(calls) + 1)
      /\ \A i \in DOMAIN calls : calls'[i] = calls[i]
      /\ calls'[Len(calls) + 1] = [op |-> "quarantine", key |-> id, about |-> e, said |-> said]
  BY <1>0, CallsAre, Called
<1>2. Met(id)' = Met(id) \union {Len(calls) + 1} /\ Met(id) \subseteq 1..Len(calls)
  <2>1. \A ops, k : CallsAbout(ops, k)' =
          CallsAbout(ops, k) \union (IF "quarantine" \in ops /\ k = id THEN {Len(calls) + 1} ELSE {})
    BY <1>0, CalledAmong
  <2>2. QED
    BY <1>1, <2>1 DEF Met, CallsAbout
<1>3. quarantined'[id] = row
  BY QuarantinedRows
<1>4. row.last_seen = Len(calls) + 1 /\ row.reason = calls'[Len(calls) + 1].about.reason
  BY <1>1 DEF QuarantinedAs, Quarantined, Now
<1> DEFINE old == Row(quarantined, id)
<1>9. ASSUME row.first_seen \in Nat, row.last_seen \in Nat, row.occurrences \in Nat
      PROVE  row # None
  <2> DEFINE Rows == [reason : {e.reason}, fragment : {SanitiseFragment(e.fragment)},
                   first_seen : Nat, last_seen : Nat, occurrences : Nat]
  <2>1. None \notin Rows
    BY StoreTablesAssumption
  <2>2. row = [reason |-> e.reason, fragment |-> SanitiseFragment(e.fragment),
               first_seen |-> row.first_seen, last_seen |-> row.last_seen,
               occurrences |-> row.occurrences]
    BY DEF QuarantinedAs, Quarantined
  <2>3. row \in Rows
    BY <1>9, <2>2
  <2>4. QED
    BY <2>1, <2>3
<1>5. CASE id \in DOMAIN quarantined
  <2>1. RowAddsUp(id) /\ old = quarantined[id]
    BY <1>5 DEF FailuresKept, Row
  <2>2. old # None /\ old.occurrences \in Nat \ {0} /\ old.first_seen \in Met(id)
    BY <2>1 DEF RowAddsUp
  <2>3. /\ row.occurrences = old.occurrences + 1 /\ row.first_seen = old.first_seen
    BY <2>2 DEF QuarantinedAs, Quarantined
  <2>4. /\ \A i \in Met(id) : old.first_seen <= i
        /\ \A i \in Met(id) : calls[i].said <=> i = old.first_seen
    BY <2>1 DEF RowAddsUp
  <2>5. row.occurrences \in Nat \ {0} /\ row.occurrences # 1
    BY <2>2, <2>3
  <2>6. row.first_seen \in Met(id)' /\ row.last_seen \in Met(id)'
    BY <1>2, <1>4, <2>2, <2>3
  <2>7. \A i \in Met(id)' : row.first_seen <= i /\ i <= row.last_seen
    BY <1>1, <1>2, <1>4, <2>2, <2>3, <2>4
  <2>8. ASSUME NEW i \in Met(id)'
        PROVE  calls'[i].said <=> i = row.first_seen
    <3>1. CASE i \in Met(id)
      <4>1. calls'[i] = calls[i]
        BY <1>1, <1>2, <3>1
      <4>2. QED
        BY <4>1, <2>3, <2>4, <3>1
    <3>2. CASE i = Len(calls) + 1
      <4>1. calls'[i].said = said
        BY <1>1, <3>2
      <4>2. i # row.first_seen
        BY <1>1, <1>2, <2>2, <2>3, <3>2
      <4>5. said <=> row.occurrences = 1
        BY Zenon DEF QuarantinedAs
      <4>3. ~ said
        BY <2>5, <4>5
      <4>4. QED
        BY <4>1, <4>2, <4>3
    <3>3. QED
      BY <1>2, <3>1, <3>2
  <2>9. row # None
    <3>1. row.first_seen \in Nat /\ row.last_seen \in Nat
      BY <1>1, <1>2, <1>4, <2>6
    <3>2. QED
      BY <1>9, <2>5, <3>1
  <2>10. RowAddsUp(id)'
    BY <1>3, <1>4, <2>5, <2>6, <2>7, <2>8, <2>9 DEF RowAddsUp
  <2>11. QED
    BY <1>5, <2>1, <2>2, <2>3, <2>10 DEF MetSoFar
<1>6. CASE id \notin DOMAIN quarantined
  <2>1. old = None
    BY <1>6 DEF Row
  <2>2. row.occurrences = 1 /\ row.first_seen = Len(calls) + 1
    BY <2>1 DEF QuarantinedAs, Quarantined, Now
  <2>3. Met(id) = {}
    BY <1>6 DEF FailuresKept, Met, CallsAbout, CallsOf
  <2>4. Met(id)' = {Len(calls) + 1}
    BY <1>2, <2>3
  <2>5. calls'[Len(calls) + 1].said = said
    BY <1>1
  <2>10. said <=> row.occurrences = 1
    BY Zenon DEF QuarantinedAs
  <2>9. said
    BY <2>2, <2>10
  <2>6. row # None
    BY <1>1, <1>4, <1>9, <2>2
  <2>7. RowAddsUp(id)'
    BY <1>1, <1>3, <1>4, <2>2, <2>4, <2>5, <2>6, <2>9 DEF RowAddsUp
  <2>8. QED
    BY <1>6, <2>2, <2>7 DEF MetSoFar
<1>7. QED
  BY <1>5, <1>6

(* Another is left as it was.                                              *)
LEMMA RowLeftAlone ==
  ASSUME CallsListed, FailuresKept, NEW e \in Entries, NEW id, NEW row, NEW said,
         QuarantinedAs(e, id, row, said), NEW other \in DOMAIN quarantined, other # id
  PROVE  RowAddsUp(other)' /\ quarantined'[other] = quarantined[other]
<1>0. Answered("quarantine", id, e, said)
  BY QuarantinedRows
<1>1. /\ DOMAIN calls = 1..Len(calls)
      /\ \A i \in DOMAIN calls : calls'[i] = calls[i]
  BY <1>0, CallsAre, Called
<1>2. Met(other)' = Met(other) /\ Met(other) \subseteq DOMAIN calls
  <2>1. \A ops, k : CallsAbout(ops, k)' =
          CallsAbout(ops, k) \union (IF "quarantine" \in ops /\ k = id THEN {Len(calls) + 1} ELSE {})
    BY <1>0, CalledAmong
  <2>2. CallsAbout({"quarantine"}, other)' = CallsAbout({"quarantine"}, other)
    BY <2>1
  <2>3. QED
    BY <2>2 DEF Met, CallsAbout
<1>3. quarantined'[other] = quarantined[other]
  BY QuarantinedRows
<1>4. RowAddsUp(other)
  BY DEF FailuresKept
<1>5. \A i \in Met(other) : calls'[i] = calls[i]
  BY <1>1, <1>2
<1>6. QED
  BY <1>2, <1>3, <1>4, <1>5 DEF RowAddsUp

(* One time more than there were.                                          *)
LEMMA OneTimeMore ==
  ASSUME CallsListed, FailuresKept, NEW e \in Entries, NEW id, NEW row, NEW said,
         QuarantinedAs(e, id, row, said)
  PROVE  /\ Times' = Times \union {<<id, MetSoFar(id) + 1>>}
         /\ <<id, MetSoFar(id) + 1>> \notin Times
<1>1. row.occurrences = MetSoFar(id) + 1 /\ MetSoFar(id) \in Nat
  BY RowMetAgain
<1>2. /\ DOMAIN quarantined' = DOMAIN quarantined \union {id} /\ quarantined'[id] = row
      /\ \A k \in DOMAIN quarantined : k # id => quarantined'[k] = quarantined[k]
  BY QuarantinedRows
<1>3. \A t : t \in Times <=>
        \E k \in DOMAIN quarantined : t \in {k} \X (1 .. quarantined[k].occurrences)
  BY DEF Times
<1>4. \A t : t \in Times' <=>
        \E k \in DOMAIN quarantined' : t \in {k} \X (1 .. quarantined'[k].occurrences)
  BY DEF Times
<1>5. {id} \X (1 .. row.occurrences) = ({id} \X (1 .. MetSoFar(id))) \union {<<id, MetSoFar(id) + 1>>}
  <2>1. 1 .. row.occurrences = (1 .. MetSoFar(id)) \union {MetSoFar(id) + 1}
    BY <1>1
  <2>2. QED
    BY <2>1
<1>6. id \notin DOMAIN quarantined => {id} \X (1 .. MetSoFar(id)) = {}
  <2>1. ASSUME id \notin DOMAIN quarantined PROVE 1 .. MetSoFar(id) = {}
    BY <2>1 DEF MetSoFar
  <2>2. QED
    BY <2>1
<1>7. id \in DOMAIN quarantined => quarantined[id].occurrences = MetSoFar(id)
  BY DEF MetSoFar
<1>8. ASSUME NEW t
      PROVE  t \in Times' <=> t \in Times \/ t = <<id, MetSoFar(id) + 1>>
  <2>1. CASE id \in DOMAIN quarantined
    <3>1. t \in Times' <=> (t \in {id} \X (1 .. row.occurrences))
            \/ \E k \in DOMAIN quarantined : k # id /\ t \in {k} \X (1 .. quarantined[k].occurrences)
      BY <1>2, <1>4, Zenon
    <3>2. t \in Times <=> (t \in {id} \X (1 .. MetSoFar(id)))
            \/ \E k \in DOMAIN quarantined : k # id /\ t \in {k} \X (1 .. quarantined[k].occurrences)
      BY <1>3, <1>7, <2>1, Zenon
    <3>3. QED
      BY <1>5, <3>1, <3>2
  <2>2. CASE id \notin DOMAIN quarantined
    <3>1. t \in Times' <=> (t \in {id} \X (1 .. row.occurrences))
            \/ \E k \in DOMAIN quarantined : k # id /\ t \in {k} \X (1 .. quarantined[k].occurrences)
      BY <1>2, <1>4, Zenon
    <3>2. t \in Times <=>
            \E k \in DOMAIN quarantined : k # id /\ t \in {k} \X (1 .. quarantined[k].occurrences)
      BY <1>3, <2>2, Zenon
    <3>3. QED
      BY <1>5, <1>6, <2>2, <3>1, <3>2
  <2>3. QED
    BY <2>1, <2>2
<1>9. <<id, MetSoFar(id) + 1>> \notin Times
  <2>1. ASSUME NEW k \in DOMAIN quarantined,
               <<id, MetSoFar(id) + 1>> \in {k} \X (1 .. quarantined[k].occurrences)
        PROVE  FALSE
    <3>1. k = id /\ MetSoFar(id) + 1 \in 1 .. quarantined[k].occurrences
      BY <2>1
    <3>2. MetSoFar(id) + 1 \in 1 .. MetSoFar(id)
      BY <3>1, <1>7
    <3>3. QED
      BY <3>2, <1>1
  <2>2. QED
    BY <2>1, <1>3
<1>10. QED
  BY <1>8, <1>9

LEMMA FailuresStep ==
  ASSUME CallsListed, FailuresKept, NEW e \in Entries, Quarantine(e)
  PROVE  FailuresKept' /\ CallsListed'
<1>1. PICK id, row, said : QuarantinedAs(e, id, row, said)
  <2> DEFINE key == QuarantineId(e)
             new == Quarantined(Row(quarantined, key), e)
             first == new.occurrences = 1
  <2>1. quarantined' = Stored(quarantined, key, new) /\ Answered("quarantine", key, e, first)
    BY DEF Quarantine
  <2>2. first = IF new.occurrences = 1 THEN TRUE ELSE FALSE
    OBVIOUS
  <2> HIDE DEF first
  <2>3. QuarantinedAs(e, key, new, first)
    BY <2>1, <2>2 DEF QuarantinedAs
  <2>4. QED
    BY <2>3
<1>0. Answered("quarantine", id, e, said)
  BY <1>1, QuarantinedRows
<1>2. /\ Len(calls) \in Nat /\ DOMAIN calls = 1..Len(calls)
      /\ \A i \in DOMAIN calls : calls'[i] = calls[i]
      /\ calls'[Len(calls) + 1] = [op |-> "quarantine", key |-> id, about |-> e, said |-> said]
      /\ CallsListed'
  BY <1>0, CallsAre, Called
<1>3. CallsOf("quarantine")' = CallsOf("quarantine") \union {Len(calls) + 1}
  BY <1>0, CalledAmong
<1>4. IsFiniteSet(CallsOf("quarantine")) /\ CallsOf("quarantine") \subseteq 1..Len(calls)
  BY CallsAreFew
<1>5. /\ DOMAIN quarantined' = DOMAIN quarantined \union {id}
      /\ \A k \in DOMAIN quarantined : k # id => quarantined'[k] = quarantined[k]
  BY <1>1, QuarantinedRows
<1>6. \A k \in DOMAIN quarantined' : RowAddsUp(k)'
  BY <1>1, <1>5, RowMetAgain, RowLeftAlone
<1>7. ASSUME NEW i \in CallsOf("quarantine")'
      PROVE  calls'[i].about \in Entries /\ calls'[i].key = QuarantineId(calls'[i].about)
  <2>1. CASE i \in CallsOf("quarantine")
    BY <1>2, <1>4, <2>1 DEF FailuresKept
  <2>2. CASE i = Len(calls) + 1
    BY <1>1, <1>2, <2>2 DEF QuarantinedAs
  <2>3. QED
    BY <1>3, <2>1, <2>2
<1>8. DOMAIN quarantined' = {calls'[i].key : i \in CallsOf("quarantine")'}
  <2>1. {calls'[i].key : i \in CallsOf("quarantine")'} = {calls'[i].key : i \in CallsOf("quarantine")} \union {id}
    BY <1>2, <1>3
  <2>2. {calls'[i].key : i \in CallsOf("quarantine")} = {calls[i].key : i \in CallsOf("quarantine")}
    BY <1>2, <1>4
  <2>3. QED
    BY <1>5, <2>1, <2>2 DEF FailuresKept
<1>9. IsFiniteSet(Times') /\ Cardinality(Times') = Cardinality(CallsOf("quarantine")')
  <2>1. /\ Times' = Times \union {<<id, MetSoFar(id) + 1>>}
        /\ <<id, MetSoFar(id) + 1>> \notin Times
    BY <1>1, OneTimeMore
  <2>2. IsFiniteSet(Times) /\ Cardinality(Times) = Cardinality(CallsOf("quarantine"))
    BY DEF FailuresKept
  <2>3. IsFiniteSet(Times') /\ Cardinality(Times') = Cardinality(Times) + 1
    <3> DEFINE time == <<id, MetSoFar(id) + 1>>
    <3> HIDE DEF time
    <3>1. Times' = Times \union {time} /\ time \notin Times
      BY <2>1 DEF time
    <3>2. QED
      BY <2>2, <3>1, FS_AddElement
  <2>4. Len(calls) + 1 \notin CallsOf("quarantine")
    BY <1>2, <1>4
  <2>5. Cardinality(CallsOf("quarantine")') = Cardinality(CallsOf("quarantine")) + 1
    BY <1>3, <1>4, <2>4, FS_AddElement
  <2>6. QED
    BY <2>2, <2>3, <2>5
<1>10. QED
  BY <1>2, <1>6, <1>7, <1>8, <1>9 DEF FailuresKept

-----------------------------------------------------------------------------
(* What was decided.                                                       *)
Overruled(i) ==
  \E j \in CallsOf("decide") :
    j > i /\ calls[j].about.actor = calls[i].about.actor
          /\ calls[j].about.subject = calls[i].about.subject

DecisionStands(i) ==
  LET d == calls[i].about IN
  /\ d \in Decisions /\ DecisionId(d) \in DOMAIN decided
  /\ Overruled(i) \/ decided[DecisionId(d)].verdict = d.verdict

DecisionsKept ==
  /\ \A id \in DOMAIN decided, d \in Decisions : id = DecisionId(d) => decided[id].actor = d.actor
  /\ \A i \in CallsOf("decide") : DecisionStands(i)

(* One id is one subject's and one actor's.                                *)
LEMMA DecisionIdTells ==
  ASSUME NEW d \in Decisions, NEW e \in Decisions, DecisionId(d) = DecisionId(e)
  PROVE  d.actor = e.actor /\ d.subject = e.subject
<1>1. d.actor # "-" /\ e.actor # "-"
  BY StoreTablesAssumption
<1>2. /\ DecisionId(d)[2] = d.subject /\ DecisionId(e)[2] = e.subject
      /\ DecisionId(d)[5] = IF d.actor = None THEN "-" ELSE d.actor
      /\ DecisionId(e)[5] = IF e.actor = None THEN "-" ELSE e.actor
  BY DEF DecisionId
<1>3. QED
  BY <1>1, <1>2

LEMMA DecisionsStand ==
  ASSUME CallsListed, DecisionsKept
  PROVE  DecisionsKeepTheirActors
<1> SUFFICES ASSUME NEW i \in CallsOf("decide")
    PROVE  LET d == calls[i].about
               later == {j \in CallsOf("decide") : j > i /\ calls[j].about.actor = d.actor
                           /\ calls[j].about.subject = d.subject} IN
           \E row \in GraphDecisionsFor(d.subject) :
             row.actor = d.actor /\ (later = {} => row.verdict = d.verdict)
  BY DEF DecisionsKeepTheirActors
<1> DEFINE d == calls[i].about
           row == decided[DecisionId(d)]
           later == {j \in CallsOf("decide") : j > i /\ calls[j].about.actor = d.actor
                       /\ calls[j].about.subject = d.subject}
<1>1. DecisionStands(i)
  BY DEF DecisionsKept
<1>2. d \in Decisions /\ DecisionId(d) \in DOMAIN decided
  BY <1>1 DEF DecisionStands
<1>3. row.actor = d.actor
  BY <1>2 DEF DecisionsKept
<1>4. DecisionId(d)[2] = d.subject
  BY DEF DecisionId
<1>5. row \in GraphDecisionsFor(d.subject)
  BY <1>2, <1>4 DEF GraphDecisionsFor
<1>6. later = {} => row.verdict = d.verdict
  <2>1. Overruled(i) => later # {}
    BY DEF Overruled
  <2>2. QED
    BY <1>1, <2>1 DEF DecisionStands
<1>7. QED
  BY <1>3, <1>5, <1>6

LEMMA DecisionsStay ==
  ASSUME CallsListed, DecisionsKept, decided' = decided, Others({"decide"})
  PROVE  DecisionsKept'
<1>1. /\ CallsOf("decide")' = CallsOf("decide")
      /\ \A i \in CallsOf("decide") : calls'[i] = calls[i]
  BY OthersCalled DEF CallsOf
<1>2. ASSUME NEW i \in CallsOf("decide")'
      PROVE  DecisionStands(i)'
  <2>1. DecisionStands(i)
    BY <1>1 DEF DecisionsKept
  <2>2. calls'[i].about = calls[i].about
    BY <1>1
  <2>3. ASSUME Overruled(i)
        PROVE  Overruled(i)'
    <3>1. PICK j \in CallsOf("decide") : j > i
            /\ calls[j].about.actor = calls[i].about.actor /\ calls[j].about.subject = calls[i].about.subject
      BY <2>3 DEF Overruled
    <3>2. calls'[j] = calls[j] /\ j \in CallsOf("decide")'
      BY <1>1
    <3>3. QED
      BY <2>2, <3>1, <3>2 DEF Overruled
  <2>4. QED
    BY <2>1, <2>2, <2>3 DEF DecisionStands
<1>3. QED
  BY <1>2 DEF DecisionsKept

LEMMA DecisionsStep ==
  ASSUME CallsListed, DecisionsKept, NEW d \in Decisions, RecordGraphDecision(d)
  PROVE  DecisionsKept'
<1> DEFINE id == DecisionId(d)
           old == Row(decided, id)
           row == Decided(old, d)
           first == old = None
<1>1. decided' = Stored(decided, id, row) /\ Answered("decide", id, d, first)
  BY DEF RecordGraphDecision
<1>2. /\ DOMAIN decided' = DOMAIN decided \union {id} /\ decided'[id] = row
      /\ \A k \in DOMAIN decided : k # id => decided'[k] = decided[k]
  BY <1>1 DEF Stored
<1> HIDE DEF first
<1>3. /\ CallsOf("decide")' = CallsOf("decide") \union {Len(calls) + 1}
      /\ \A i \in DOMAIN calls : calls'[i] = calls[i]
      /\ calls'[Len(calls) + 1].about = d
  <2>1. CallsOf("decide")' = CallsOf("decide") \union {Len(calls) + 1}
    BY <1>1, CalledAmong
  <2>2. /\ \A i \in DOMAIN calls : calls'[i] = calls[i]
        /\ calls'[Len(calls) + 1] = [op |-> "decide", key |-> id, about |-> d, said |-> first]
    BY <1>1, Called
  <2>3. QED
    BY <2>1, <2>2
<1>4. Len(calls) \in Nat /\ CallsOf("decide") \subseteq 1..Len(calls) /\ CallsOf("decide") \subseteq DOMAIN calls
  BY CallsAre DEF CallsOf
<1>5. row.verdict = d.verdict /\ row.actor = IF old = None THEN d.actor ELSE old.actor
  BY DEF Decided
<1>6. row.actor = d.actor
  BY <1>5 DEF DecisionsKept, Row
<1>7. ASSUME NEW k \in DOMAIN decided', NEW e \in Decisions, k = DecisionId(e)
      PROVE  decided'[k].actor = e.actor
  <2>1. CASE k = id
    BY <1>2, <1>6, <1>7, <2>1, DecisionIdTells
  <2>2. CASE k # id
    BY <1>2, <1>7, <2>2 DEF DecisionsKept
  <2>3. QED
    BY <2>1, <2>2
<1>8. ASSUME NEW i \in CallsOf("decide")'
      PROVE  DecisionStands(i)'
  <2>1. CASE i = Len(calls) + 1
    BY <1>2, <1>3, <1>5, <2>1 DEF DecisionStands
  <2>2. CASE i # Len(calls) + 1
    <3> DEFINE e == calls[i].about
    <3>1. i \in CallsOf("decide") /\ calls'[i] = calls[i] /\ i < Len(calls) + 1
      BY <1>3, <1>4, <2>2
    <3>2. DecisionStands(i)
      BY <3>1 DEF DecisionsKept
    <3>3. e \in Decisions /\ DecisionId(e) \in DOMAIN decided'
      BY <1>2, <3>2 DEF DecisionStands
    <3>4. CASE d.actor = e.actor /\ d.subject = e.subject
      <4>1. Overruled(i)'
        BY <1>3, <3>1, <3>4 DEF Overruled
      <4>2. QED
        BY <3>1, <3>3, <4>1 DEF DecisionStands
    <3>5. CASE ~ (d.actor = e.actor /\ d.subject = e.subject)
      <4>1. DecisionId(e) # id
        BY <3>3, <3>5, DecisionIdTells
      <4>2. DecisionId(e) \in DOMAIN decided
        BY <3>2 DEF DecisionStands
      <4>3. decided'[DecisionId(e)] = decided[DecisionId(e)]
        BY <1>2, <4>1, <4>2
      <4>4. ASSUME Overruled(i)
            PROVE  Overruled(i)'
        <5>1. PICK j \in CallsOf("decide") :
                j > i /\ calls[j].about.actor = e.actor /\ calls[j].about.subject = e.subject
          BY <4>4 DEF Overruled
        <5>2. calls'[j] = calls[j] /\ j \in CallsOf("decide")'
          BY <1>3, <1>4
        <5>3. QED
          BY <3>1, <5>1, <5>2 DEF Overruled
      <4>5. calls'[i].about = e
        BY <3>1
      <4>6. QED
        BY <3>2, <3>3, <4>3, <4>4, <4>5 DEF DecisionStands
    <3>6. QED
      BY <3>4, <3>5
  <2>3. QED
    BY <2>1, <2>2
<1>9. QED
  BY <1>7, <1>8 DEF DecisionsKept

-----------------------------------------------------------------------------
(* What a metric counts.                                                   *)
Counted(v) == CallsAbout({"label"}, v)

LabelsKept ==
  /\ IsFiniteSet(DOMAIN labels) /\ Cardinality(DOMAIN labels) <= MaxLabelCardinality
  /\ \A v \in DOMAIN labels : labels[v] = Cardinality(Counted(v))
  /\ \A i \in CallsOf("label") :
       /\ calls[i].said <=> calls[i].key \in DOMAIN labels
       /\ calls[i].key \in DOMAIN labels \/ Saturated

LEMMA LabelsBounded ==
  ASSUME LabelsKept
  PROVE  LabelsStayBounded
BY DEF LabelsKept, LabelsStayBounded, Counted

LEMMA LabelsStay ==
  ASSUME CallsListed, LabelsKept, labels' = labels, Others({"label"})
  PROVE  LabelsKept'
<1>1. /\ CallsOf("label")' = CallsOf("label")
      /\ \A v : Counted(v)' = Counted(v)
      /\ \A i \in CallsOf("label") : calls'[i] = calls[i]
  BY OthersCalled DEF CallsOf, Counted
<1>2. Saturated' <=> Saturated
  BY DEF Saturated
<1>3. \A v \in DOMAIN labels' : labels'[v] = Cardinality(Counted(v)')
  BY <1>1 DEF LabelsKept
<1>4. ASSUME NEW i \in CallsOf("label")'
      PROVE  /\ calls'[i].said <=> calls'[i].key \in DOMAIN labels'
             /\ calls'[i].key \in DOMAIN labels' \/ Saturated'
  BY <1>1, <1>2 DEF LabelsKept
<1>5. QED
  BY <1>3, <1>4 DEF LabelsKept, MaxLabelCardinality

LEMMA LabelsStep ==
  ASSUME CallsListed, LabelsKept, NEW v, ObserveLabel(v)
  PROVE  LabelsKept'
<1> DEFINE known == v \in DOMAIN labels
           kept == known \/ ~Saturated
<1>1. /\ kept => labels' = Stored(labels, v, IF known THEN labels[v] + 1 ELSE 1)
      /\ ~kept => labels' = labels
      /\ Answered("label", v, None, kept)
  BY DEF ObserveLabel
<1> HIDE DEF kept
<1>2. /\ CallsOf("label")' = CallsOf("label") \union {Len(calls) + 1}
      /\ \A w : Counted(w)' = Counted(w) \union (IF w = v THEN {Len(calls) + 1} ELSE {})
      /\ \A i \in DOMAIN calls : calls'[i] = calls[i]
      /\ calls'[Len(calls) + 1].key = v /\ calls'[Len(calls) + 1].said = kept
  <2>1. CallsOf("label")' = CallsOf("label") \union {Len(calls) + 1}
    BY <1>1, CalledAmong
  <2>2. /\ \A i \in DOMAIN calls : calls'[i] = calls[i]
        /\ calls'[Len(calls) + 1] = [op |-> "label", key |-> v, about |-> None, said |-> kept]
    BY <1>1, Called
  <2>3. \A ops, w : CallsAbout(ops, w)' =
          CallsAbout(ops, w) \union (IF "label" \in ops /\ w = v THEN {Len(calls) + 1} ELSE {})
    BY <1>1, CalledAmong
  <2>4. ASSUME NEW w
        PROVE  Counted(w)' = Counted(w) \union (IF w = v THEN {Len(calls) + 1} ELSE {})
    BY <2>3 DEF Counted
  <2>5. QED
    BY <2>1, <2>2, <2>4
<1>3. /\ Len(calls) \in Nat /\ CallsOf("label") \subseteq 1..Len(calls)
      /\ CallsOf("label") \subseteq DOMAIN calls
      /\ IsFiniteSet(CallsOf("label"))
      /\ \A w : Counted(w) \subseteq CallsOf("label")
      /\ \A w : \A i \in Counted(w) : calls[i].key = w
  BY CallsAre, CallsAreFew DEF CallsOf, Counted, CallsAbout
<1>4. \A w : IsFiniteSet(Counted(w)) /\ Len(calls) + 1 \notin Counted(w)
  BY <1>3, FS_Subset
<1>5. /\ IsFiniteSet(DOMAIN labels) /\ Cardinality(DOMAIN labels) <= MaxLabelCardinality
      /\ Cardinality(DOMAIN labels) \in Nat
  BY FS_CardinalityType DEF LabelsKept
<1>6. CASE kept
  <2>1. /\ DOMAIN labels' = DOMAIN labels \union {v}
        /\ labels'[v] = IF known THEN labels[v] + 1 ELSE 1
        /\ \A w \in DOMAIN labels : w # v => labels'[w] = labels[w]
    BY <1>1, <1>6 DEF Stored
  <2>2. /\ IsFiniteSet(DOMAIN labels') /\ Cardinality(DOMAIN labels') <= MaxLabelCardinality
        /\ Cardinality(DOMAIN labels') >= Cardinality(DOMAIN labels)
    <3>1. CASE known
      <4>1. DOMAIN labels' = DOMAIN labels
        BY <2>1, <3>1
      <4>2. QED
        BY <1>5, <4>1
    <3>2. CASE ~known
      <4>1. Cardinality(DOMAIN labels) < MaxLabelCardinality
        BY <1>5, <1>6, <3>2 DEF kept, Saturated, MaxLabelCardinality
      <4>2. /\ IsFiniteSet(DOMAIN labels \union {v})
            /\ Cardinality(DOMAIN labels \union {v}) = Cardinality(DOMAIN labels) + 1
        BY <1>5, <3>2, FS_AddElement
      <4>3. QED
        BY <1>5, <2>1, <4>1, <4>2 DEF MaxLabelCardinality
    <3>3. QED
      BY <3>1, <3>2
  <2>3. Saturated => Saturated'
    BY <1>5, <2>2, FS_CardinalityType DEF Saturated, MaxLabelCardinality
  <2>4. ~known => Counted(v) = {}
    <3>1. ASSUME ~known, NEW i \in Counted(v)
          PROVE  FALSE
      <4>1. i \in CallsOf("label") /\ calls[i].key = v
        BY <1>3
      <4>2. Saturated
        BY <3>1, <4>1 DEF LabelsKept
      <4>3. QED
        BY <1>6, <3>1, <4>2 DEF kept
    <3>2. QED
      BY <3>1
  <2>5. ASSUME NEW w \in DOMAIN labels'
        PROVE  labels'[w] = Cardinality(Counted(w)')
    <3>1. CASE w # v
      <4>1. w \in DOMAIN labels /\ Counted(w)' = Counted(w) /\ labels'[w] = labels[w]
        BY <1>2, <2>1, <3>1
      <4>2. QED
        BY <4>1 DEF LabelsKept
    <3>2. CASE w = v
      <4>1. Counted(v)' = Counted(v) \union {Len(calls) + 1}
        BY <1>2
      <4>2. Cardinality(Counted(v)') = Cardinality(Counted(v)) + 1
        BY <1>4, <4>1, FS_AddElement
      <4>3. CASE known
        <5>1. labels[v] = Cardinality(Counted(v))
          BY <4>3 DEF LabelsKept
        <5>2. QED
          BY <2>1, <3>2, <4>2, <4>3, <5>1
      <4>4. CASE ~known
        <5>1. Cardinality(Counted(v)) = 0
          BY <2>4, <4>4, FS_EmptySet
        <5>2. QED
          BY <2>1, <3>2, <4>2, <4>4, <5>1
      <4>5. QED
        BY <4>3, <4>4
    <3>3. QED
      BY <3>1, <3>2
  <2>6. ASSUME NEW i \in CallsOf("label")'
        PROVE  /\ calls'[i].said <=> calls'[i].key \in DOMAIN labels'
               /\ calls'[i].key \in DOMAIN labels' \/ Saturated'
    <3>1. CASE i = Len(calls) + 1
      BY <1>2, <1>6, <2>1, <3>1
    <3>2. CASE i # Len(calls) + 1
      <4>1. i \in CallsOf("label") /\ calls'[i] = calls[i]
        BY <1>2, <1>3, <3>2
      <4>2. /\ calls[i].said <=> calls[i].key \in DOMAIN labels
            /\ calls[i].key \in DOMAIN labels \/ Saturated
        BY <4>1 DEF LabelsKept
      <4>3. calls[i].key \in DOMAIN labels' <=> calls[i].key \in DOMAIN labels
        <5>1. CASE known
          BY <2>1, <5>1
        <5>2. CASE ~known
          <6>1. calls[i].key # v
            BY <2>4, <4>1, <5>2 DEF Counted, CallsAbout, CallsOf
          <6>2. QED
            BY <2>1, <6>1
        <5>3. QED
          BY <5>1, <5>2
      <4>4. QED
        BY <2>3, <4>1, <4>2, <4>3
    <3>3. QED
      BY <3>1, <3>2
  <2>7. QED
    BY <2>2, <2>5, <2>6 DEF LabelsKept
<1>7. CASE ~kept
  <2>1. labels' = labels /\ v \notin DOMAIN labels /\ Saturated
    BY <1>1, <1>7 DEF kept
  <2>2. Saturated'
    BY <2>1 DEF Saturated
  <2>3. ASSUME NEW w \in DOMAIN labels'
        PROVE  labels'[w] = Cardinality(Counted(w)')
    <3>1. w # v /\ Counted(w)' = Counted(w)
      BY <1>2, <2>1
    <3>2. QED
      BY <2>1, <3>1 DEF LabelsKept
  <2>4. ASSUME NEW i \in CallsOf("label")'
        PROVE  calls'[i].said <=> calls'[i].key \in DOMAIN labels'
    <3>1. CASE i = Len(calls) + 1
      BY <1>2, <1>7, <2>1, <3>1
    <3>2. CASE i # Len(calls) + 1
      <4>1. i \in CallsOf("label") /\ calls'[i] = calls[i]
        BY <1>2, <1>3, <3>2
      <4>2. QED
        BY <2>1, <4>1 DEF LabelsKept
    <3>3. QED
      BY <3>1, <3>2
  <2>5. QED
    BY <1>5, <2>1, <2>2, <2>3, <2>4 DEF LabelsKept
<1>8. QED
  BY <1>6, <1>7

-----------------------------------------------------------------------------
(* Ids in an order that tells every two of them apart.                     *)
Orders(earlier, S) ==
  /\ \A i \in S : <<i, i>> \notin earlier
  /\ \A i, j \in S : i # j => <<i, j>> \in earlier \/ <<j, i>> \in earlier
  /\ \A i, j, k \in S : <<i, j>> \in earlier /\ <<j, k>> \in earlier => <<i, k>> \in earlier

Ahead(S, earlier, i) == {j \in S : <<j, i>> \in earlier}
AheadCount(S, earlier, i) == Cardinality(Ahead(S, earlier, i))

LEMMA SmallerHasFewer ==
  ASSUME NEW U, IsFiniteSet(U), NEW T \in SUBSET U, T # U
  PROVE  /\ Cardinality(T) \in Nat /\ Cardinality(U) \in Nat
         /\ Cardinality(T) < Cardinality(U)
<1>1. /\ IsFiniteSet(T) /\ Cardinality(T) <= Cardinality(U)
      /\ Cardinality(U) = Cardinality(T) => U = T
  BY FS_Subset
<1>2. Cardinality(T) \in Nat /\ Cardinality(U) \in Nat
  BY <1>1, FS_CardinalityType
<1>3. QED
  BY <1>1, <1>2

LEMMA AheadFacts ==
  ASSUME NEW S, IsFiniteSet(S), NEW earlier, Orders(earlier, S), NEW i \in S
  PROVE  /\ AheadCount(S, earlier, i) \in 0..(Cardinality(S) - 1)
         /\ \A k \in S : <<i, k>> \in earlier => AheadCount(S, earlier, i) < AheadCount(S, earlier, k)
<1>1. /\ \A k \in S : Ahead(S, earlier, k) \in SUBSET S
      /\ \A k \in S : Ahead(S, earlier, k) # S
      /\ \A k \in S : IsFiniteSet(Ahead(S, earlier, k))
  <2>1. ASSUME NEW k \in S
        PROVE  Ahead(S, earlier, k) \in SUBSET S /\ Ahead(S, earlier, k) # S
    BY DEF Ahead, Orders
  <2>2. QED
    BY <2>1, FS_Subset
<1>2. /\ AheadCount(S, earlier, i) \in Nat /\ Cardinality(S) \in Nat
      /\ AheadCount(S, earlier, i) < Cardinality(S)
  BY <1>1, SmallerHasFewer DEF AheadCount
<1>3. ASSUME NEW k \in S, <<i, k>> \in earlier
      PROVE  AheadCount(S, earlier, i) < AheadCount(S, earlier, k)
  <2>1. /\ Ahead(S, earlier, i) \in SUBSET Ahead(S, earlier, k)
        /\ Ahead(S, earlier, i) # Ahead(S, earlier, k)
    <3>1. \A j \in S : <<j, i>> \in earlier => <<j, k>> \in earlier
      BY <1>3 DEF Orders
    <3>2. <<i, i>> \notin earlier
      BY DEF Orders
    <3>3. i \in Ahead(S, earlier, k) /\ i \notin Ahead(S, earlier, i)
      BY <1>3, <3>2 DEF Ahead
    <3>4. QED
      BY <3>1, <3>3 DEF Ahead
  <2>2. QED
    BY <1>1, <2>1, SmallerHasFewer DEF AheadCount
<1>4. QED
  BY <1>2, <1>3

LEMMA AheadTells ==
  ASSUME NEW S, IsFiniteSet(S), NEW earlier, Orders(earlier, S), NEW i \in S, NEW k \in S,
         AheadCount(S, earlier, i) = AheadCount(S, earlier, k)
  PROVE  i = k
<1>1. /\ AheadCount(S, earlier, i) \in Int /\ AheadCount(S, earlier, k) \in Int
      /\ <<i, k>> \in earlier => AheadCount(S, earlier, i) < AheadCount(S, earlier, k)
      /\ <<k, i>> \in earlier => AheadCount(S, earlier, k) < AheadCount(S, earlier, i)
  BY AheadFacts
<1>2. i # k => <<i, k>> \in earlier \/ <<k, i>> \in earlier
  BY DEF Orders
<1>3. QED
  BY <1>1, <1>2

LEMMA AheadOnto ==
  ASSUME NEW S, IsFiniteSet(S), NEW earlier, Orders(earlier, S), NEW n \in 0..(Cardinality(S) - 1)
  PROVE  \E i \in S : AheadCount(S, earlier, i) = n
<1> DEFINE T == 0..(Cardinality(S) - 1)
           f == [i \in S |-> AheadCount(S, earlier, i)]
<1>0. Cardinality(S) \in Nat
  BY FS_CardinalityType
<1>1. IsFiniteSet(T) /\ Cardinality(T) = Cardinality(S)
  <2>1. 0 \in Int /\ Cardinality(S) - 1 \in Int
    BY <1>0
  <2>2. /\ IsFiniteSet(0..(Cardinality(S) - 1))
        /\ Cardinality(0..(Cardinality(S) - 1)) =
             IF 0 > Cardinality(S) - 1 THEN 0 ELSE (Cardinality(S) - 1) - 0 + 1
    BY <2>1, FS_Interval
  <2>3. QED
    BY <1>0, <2>2
<1>2. f \in Injection(S, T)
  <2>1. \A i \in S : AheadCount(S, earlier, i) \in T
    BY AheadFacts
  <2>2. f \in [S -> T]
    BY <2>1
  <2>3. \A i, k \in S : f[i] = f[k] => i = k
    BY AheadTells
  <2> HIDE DEF f, T
  <2>4. QED
    BY <2>2, <2>3 DEF Injection, IsInjective
<1>3. f \in Surjection(S, T)
  <2> HIDE DEF f, T
  <2>1. QED
    BY <1>1, <1>2, FS_Injection
<1>4. \A t \in T : \E i \in S : f[i] = t
  <2> HIDE DEF f, T
  <2>1. QED
    BY <1>3 DEF Surjection
<1>5. QED
  BY <1>4

(* What is ranked is there once, in its order.                             *)
LEMMA RankedFacts ==
  ASSUME NEW S, IsFiniteSet(S), NEW earlier, Orders(earlier, S)
  PROVE  LET listed == Ranked(S, earlier) IN
         /\ listed \in Seq(S) /\ Len(listed) = Cardinality(S) /\ Cardinality(S) \in Nat
         /\ \A i \in S : \E n \in 1..Len(listed) : listed[n] = i
         /\ \A m, n \in 1..Len(listed) : m < n => <<listed[m], listed[n]>> \in earlier
<1> DEFINE listed == Ranked(S, earlier)
<1>1. Cardinality(S) \in Nat
  BY FS_CardinalityType
<1>2. listed = [n \in 1..Cardinality(S) |-> CHOOSE i \in S : AheadCount(S, earlier, i) = n - 1]
  BY DEF Ranked, AheadCount, Ahead
<1> HIDE DEF listed
<1>3. ASSUME NEW n \in 1..Cardinality(S)
      PROVE  listed[n] \in S /\ AheadCount(S, earlier, listed[n]) = n - 1
  <2>1. n - 1 \in 0..(Cardinality(S) - 1)
    BY <1>1
  <2>2. \E i \in S : AheadCount(S, earlier, i) = n - 1
    BY <2>1, AheadOnto
  <2>3. listed[n] = CHOOSE i \in S : AheadCount(S, earlier, i) = n - 1
    BY <1>2
  <2>4. QED
    BY <2>2, <2>3
<1>4. listed \in Seq(S) /\ Len(listed) = Cardinality(S)
  <2>1. listed \in [1..Cardinality(S) -> S]
    BY <1>2, <1>3
  <2>2. QED
    BY <1>1, <2>1
<1>5. ASSUME NEW i \in S
      PROVE  \E n \in 1..Cardinality(S) : listed[n] = i
  <2> DEFINE n == AheadCount(S, earlier, i) + 1
  <2>1. AheadCount(S, earlier, i) \in 0..(Cardinality(S) - 1)
    BY AheadFacts
  <2>2. n \in 1..Cardinality(S) /\ n - 1 = AheadCount(S, earlier, i)
    BY <1>1, <2>1
  <2>3. listed[n] = i
    <3>1. listed[n] \in S /\ AheadCount(S, earlier, listed[n]) = n - 1
      BY <1>3, <2>2
    <3>2. AheadCount(S, earlier, listed[n]) = AheadCount(S, earlier, i)
      BY <2>2, <3>1
    <3> HIDE DEF n
    <3>3. QED
      BY <3>1, <3>2, AheadTells
  <2>4. QED
    BY <2>2, <2>3
<1>6. ASSUME NEW m \in 1..Cardinality(S), NEW n \in 1..Cardinality(S), m < n
      PROVE  <<listed[m], listed[n]>> \in earlier
  <2>1. /\ listed[m] \in S /\ AheadCount(S, earlier, listed[m]) = m - 1
        /\ listed[n] \in S /\ AheadCount(S, earlier, listed[n]) = n - 1
    BY <1>3
  <2>2. listed[m] # listed[n]
    BY <1>6, <2>1
  <2>3. ~ <<listed[n], listed[m]>> \in earlier
    <3>1. <<listed[n], listed[m]>> \in earlier =>
            AheadCount(S, earlier, listed[n]) < AheadCount(S, earlier, listed[m])
      BY <2>1, AheadFacts
    <3>2. QED
      BY <1>1, <1>6, <2>1, <3>1
  <2>4. QED
    BY <2>1, <2>2, <2>3 DEF Orders
<1>7. QED
  BY <1>1, <1>4, <1>5, <1>6 DEF listed

(* Numbers tell every two ids apart.                                       *)
LEMMA NumbersOrder ==
  ASSUME NEW S \in SUBSET Nat
  PROVE  Orders({p \in S \X S : p[1] < p[2]}, S)
BY DEF Orders

LEMMA ByIdLists ==
  ASSUME NEW S \in SUBSET Nat, IsFiniteSet(S)
  PROVE  /\ ById(S) \in Seq(S) /\ Len(ById(S)) = Cardinality(S) /\ Cardinality(S) \in Nat
         /\ \A i \in S : \E n \in 1..Len(ById(S)) : ById(S)[n] = i
         /\ \A m, n \in 1..Len(ById(S)) : m < n => ById(S)[m] < ById(S)[n]
<1> DEFINE earlier == {p \in S \X S : p[1] < p[2]}
           listed == ById(S)
<1>1. Orders(earlier, S)
  BY NumbersOrder
<1>2. listed = Ranked(S, earlier)
  BY DEF ById
<1>3. \A i, j : <<i, j>> \in earlier => i < j
  OBVIOUS
<1> HIDE DEF earlier, listed
<1>4. /\ listed \in Seq(S) /\ Len(listed) = Cardinality(S) /\ Cardinality(S) \in Nat
      /\ \A i \in S : \E n \in 1..Len(listed) : listed[n] = i
      /\ \A m, n \in 1..Len(listed) : m < n => <<listed[m], listed[n]>> \in earlier
  BY <1>1, <1>2, RankedFacts
<1>5. QED
  BY <1>3, <1>4 DEF listed

-----------------------------------------------------------------------------
(* The checkpoints.                                                        *)
NamedCalls(n) == CallsAbout({"checkpoint", "delete"}, n)
Earlier(n, i) == {j \in NamedCalls(n) : j < i}
ThereAfter(when) == when # {} /\ calls[Max(when)].op = "checkpoint"

Told(n, i) == calls[i].said <=> (calls[i].op = "delete") = ThereAfter(Earlier(n, i))

CheckpointsKept ==
  /\ DOMAIN checkpoints \subseteq CheckpointNames /\ IsFiniteSet(DOMAIN checkpoints)
  /\ \A n \in CheckpointNames :
       /\ n \in DOMAIN checkpoints <=> ThereAfter(NamedCalls(n))
       /\ Row(checkpoints, n) = IF NamedCalls(n) = {} THEN None ELSE calls[Max(NamedCalls(n))].about
       /\ \A i \in NamedCalls(n) : Told(n, i)

LEMMA CheckpointsListed ==
  ASSUME CheckpointsKept
  PROVE  CheckpointsByName
<1>1. \A n : Contains(ListCheckpoints, n) <=> n \in DOMAIN checkpoints
  <2>1. DOMAIN checkpoints \in SUBSET Nat /\ IsFiniteSet(DOMAIN checkpoints)
    BY StoreTablesAssumption DEF CheckpointsKept
  <2> DEFINE S == DOMAIN checkpoints
             listed == ById(S)
  <2>2. /\ listed \in Seq(S)
        /\ \A i \in S : \E n \in 1..Len(listed) : listed[n] = i
    <3> HIDE DEF S
    <3>1. S \in SUBSET Nat /\ IsFiniteSet(S)
      BY <2>1 DEF S
    <3>2. QED
      BY <3>1, ByIdLists
  <2>3. ListCheckpoints = listed
    BY DEF ListCheckpoints
  <2> HIDE DEF listed
  <2>4. \A m \in 1..Len(listed) : listed[m] \in S
    BY <2>2
  <2>5. QED
    BY <2>2, <2>3, <2>4 DEF Contains
<1>2. ASSUME NEW n \in CheckpointNames
      PROVE  LET made == CallsAbout({"checkpoint", "delete"}, n)
                 IsThere(when) == when # {} /\ calls[Max(when)].op = "checkpoint" IN
             /\ GetCheckpoint(n) = IF made = {} THEN None ELSE calls[Max(made)].about
             /\ Contains(ListCheckpoints, n) <=> IsThere(made)
             /\ \A i \in made :
                  calls[i].said <=> (calls[i].op = "delete") = IsThere({j \in made : j < i})
  <2>1. /\ n \in DOMAIN checkpoints <=> ThereAfter(NamedCalls(n))
        /\ Row(checkpoints, n) = IF NamedCalls(n) = {} THEN None ELSE calls[Max(NamedCalls(n))].about
        /\ \A i \in NamedCalls(n) : Told(n, i)
    BY DEF CheckpointsKept
  <2>2. GetCheckpoint(n) = IF NamedCalls(n) = {} THEN None ELSE calls[Max(NamedCalls(n))].about
    BY <2>1 DEF GetCheckpoint
  <2>3. Contains(ListCheckpoints, n) <=> (NamedCalls(n) # {} /\ calls[Max(NamedCalls(n))].op = "checkpoint")
    BY <1>1, <2>1 DEF ThereAfter
  <2>4. \A i \in NamedCalls(n) :
          calls[i].said <=> (calls[i].op = "delete") =
            (Earlier(n, i) # {} /\ calls[Max(Earlier(n, i))].op = "checkpoint")
    BY <2>1, Zenon DEF Told, ThereAfter
  <2>5. QED
    BY <2>2, <2>3, <2>4, Zenon DEF NamedCalls, Earlier
<1>3. QED
  BY <1>2 DEF CheckpointsByName

(* Some calls that were made have a last one.                              *)
LEMMA LastOfSome ==
  ASSUME CallsListed, NEW S \in SUBSET DOMAIN calls, S # {}
  PROVE  Max(S) \in S
<1>1. Len(calls) \in Nat /\ DOMAIN calls = 1..Len(calls)
  BY CallsAre
<1> DEFINE N == Len(calls)
           T == {N - n : n \in S}
<1>2. T \in SUBSET Nat /\ T # {}
  BY <1>1
<1>3. PICK t \in T : \A u \in T : t <= u
  <2> HIDE DEF T
  <2>1. QED
    BY <1>2, LeastNumber
<1>4. PICK m \in S : t = N - m
  OBVIOUS
<1>5. S \in SUBSET Nat /\ \A n \in S : N - n \in T
  BY <1>1
<1>6. \A n \in S : n <= m
  <2> TAKE n \in S
  <2>1. N - m <= N - n
    BY <1>3, <1>4, <1>5
  <2>2. n \in Nat /\ m \in Nat /\ N \in Nat
    BY <1>1, <1>5
  <2>3. QED
    BY <2>1, <2>2
<1>7. Max(S) = m
  BY <1>5, <1>6, MaxFacts
<1>8. QED
  BY <1>7

(* What was there after some calls does not change as more are made.       *)
LEMMA StillThere ==
  ASSUME CallsListed, \A i \in DOMAIN calls : calls'[i] = calls[i],
         NEW S \in SUBSET DOMAIN calls
  PROVE  /\ ThereAfter(S)' <=> ThereAfter(S)
         /\ S # {} => Max(S) \in S /\ calls'[Max(S)] = calls[Max(S)]
<1>1. S # {} => Max(S) \in S
  BY LastOfSome
<1>2. S # {} => calls'[Max(S)] = calls[Max(S)]
  BY <1>1
<1>3. QED
  BY <1>1, <1>2 DEF ThereAfter

LEMMA NamesUntouched ==
  ASSUME CallsListed, CheckpointsKept, NEW n \in CheckpointNames,
         \A i \in DOMAIN calls : calls'[i] = calls[i],
         NamedCalls(n)' = NamedCalls(n), Row(checkpoints, n)' = Row(checkpoints, n),
         n \in DOMAIN checkpoints' <=> n \in DOMAIN checkpoints
  PROVE  /\ n \in DOMAIN checkpoints' <=> ThereAfter(NamedCalls(n))'
         /\ Row(checkpoints, n)' = (IF NamedCalls(n) = {} THEN None ELSE calls[Max(NamedCalls(n))].about)'
         /\ \A i \in NamedCalls(n)' : Told(n, i)'
<1>1. PICK S : S = NamedCalls(n)
  OBVIOUS
<1>2. S \in SUBSET DOMAIN calls /\ S = NamedCalls(n)'
  BY <1>1 DEF NamedCalls, CallsAbout
<1>3. /\ n \in DOMAIN checkpoints <=> ThereAfter(S)
      /\ Row(checkpoints, n) = IF S = {} THEN None ELSE calls[Max(S)].about
      /\ \A i \in S : Told(n, i)
  BY <1>1 DEF CheckpointsKept
<1>4. /\ ThereAfter(S)' <=> ThereAfter(S)
      /\ S # {} => Max(S) \in S /\ calls'[Max(S)] = calls[Max(S)]
  BY <1>2, StillThere
<1>5. ThereAfter(NamedCalls(n))' <=> ThereAfter(S)'
  BY <1>2 DEF ThereAfter
<1>6. ASSUME NEW i \in S
      PROVE  Told(n, i)'
  <2>1. PICK T : T = Earlier(n, i)
    OBVIOUS
  <2>2. T \in SUBSET DOMAIN calls /\ T = Earlier(n, i)'
    BY <1>1, <1>2, <2>1 DEF Earlier
  <2>3. ThereAfter(T)' <=> ThereAfter(T)
    BY <2>2, StillThere
  <2>4. calls'[i] = calls[i]
    BY <1>2
  <2>5. (calls[i].said <=> (calls[i].op = "delete") = ThereAfter(T))
    BY <1>3, <2>1, Zenon DEF Told
  <2>6. ThereAfter(Earlier(n, i))' <=> ThereAfter(T)'
    BY <2>2 DEF ThereAfter
  <2>7. (calls'[i].said <=> (calls'[i].op = "delete") = ThereAfter(Earlier(n, i))')
    BY <2>3, <2>4, <2>5, <2>6, Zenon DEF ThereAfter
  <2>8. QED
    BY <2>7, Zenon DEF Told
<1>7. QED
  BY <1>2, <1>3, <1>4, <1>5, <1>6

LEMMA CheckpointsStay ==
  ASSUME CallsListed, CheckpointsKept, checkpoints' = checkpoints, Others({"checkpoint", "delete"})
  PROVE  CheckpointsKept'
<1>1. /\ \A n : NamedCalls(n)' = NamedCalls(n)
      /\ \A i \in DOMAIN calls : calls'[i] = calls[i]
  BY OthersCalled DEF NamedCalls
<1>2. ASSUME NEW n \in CheckpointNames
      PROVE  /\ n \in DOMAIN checkpoints' <=> ThereAfter(NamedCalls(n))'
             /\ Row(checkpoints, n)' = (IF NamedCalls(n) = {} THEN None ELSE calls[Max(NamedCalls(n))].about)'
             /\ \A i \in NamedCalls(n)' : Told(n, i)'
  <2>1. NamedCalls(n)' = NamedCalls(n) /\ Row(checkpoints, n)' = Row(checkpoints, n)
    BY <1>1 DEF Row
  <2>2. QED
    BY <1>1, <2>1, NamesUntouched
<1>3. QED
  BY <1>2 DEF CheckpointsKept

(* A name that was put or deleted.                                         *)
LEMMA NameTouched ==
  ASSUME CallsListed, CheckpointsKept, NEW n \in CheckpointNames,
         NEW op \in {"checkpoint", "delete"}, NEW about, NEW said,
         Answered(op, n, about, said), said <=> (op = "delete") = (n \in DOMAIN checkpoints),
         n \in DOMAIN checkpoints' <=> op = "checkpoint",
         Row(checkpoints, n)' = about
  PROVE  /\ n \in DOMAIN checkpoints' <=> ThereAfter(NamedCalls(n))'
         /\ Row(checkpoints, n)' = (IF NamedCalls(n) = {} THEN None ELSE calls[Max(NamedCalls(n))].about)'
         /\ \A i \in NamedCalls(n)' : Told(n, i)'
<1>1. /\ Len(calls) \in Nat /\ DOMAIN calls = 1..Len(calls)
      /\ \A i \in DOMAIN calls : calls'[i] = calls[i]
      /\ calls'[Len(calls) + 1] = [op |-> op, key |-> n, about |-> about, said |-> said]
  BY CallsAre, Called
<1> DEFINE last == Len(calls) + 1
<1>2. PICK S : S = NamedCalls(n)
  OBVIOUS
<1>3. NamedCalls(n)' = S \union {last} /\ S \in SUBSET DOMAIN calls
  <2>1. \A ops, k : CallsAbout(ops, k)' =
          CallsAbout(ops, k) \union (IF op \in ops /\ k = n THEN {Len(calls) + 1} ELSE {})
    BY CalledAmong
  <2>2. CallsAbout({"checkpoint", "delete"}, n)' = CallsAbout({"checkpoint", "delete"}, n) \union {last}
    BY <2>1
  <2>3. QED
    BY <1>2, <2>2 DEF NamedCalls, CallsAbout
<1>4. Max(NamedCalls(n)') = last /\ NamedCalls(n)' # {}
  <2>1. PICK T : T = NamedCalls(n)'
    OBVIOUS
  <2>2. T \in SUBSET Nat /\ last \in T /\ \A i \in T : i <= last
    BY <1>1, <1>3, <2>1
  <2> HIDE DEF last
  <2>3. Max(T) = last
    BY <2>2, MaxFacts
  <2>4. QED
    BY <2>1, <2>2, <2>3
<1>5. calls'[last].op = op /\ calls'[last].about = about /\ calls'[last].said = said
  BY <1>1
<1>6. ThereAfter(NamedCalls(n))' <=> op = "checkpoint"
  BY <1>4, <1>5 DEF ThereAfter
<1>7. Row(checkpoints, n)' = (IF NamedCalls(n) = {} THEN None ELSE calls[Max(NamedCalls(n))].about)'
  BY <1>4, <1>5
<1>8. /\ n \in DOMAIN checkpoints <=> ThereAfter(S)
      /\ \A i \in S : Told(n, i)
  BY <1>2 DEF CheckpointsKept
<1>9. ASSUME NEW i \in NamedCalls(n)'
      PROVE  Told(n, i)'
  <2>1. PICK T : T = IF i = last THEN S ELSE Earlier(n, i)
    OBVIOUS
  <2>2. T \in SUBSET DOMAIN calls /\ T = Earlier(n, i)'
    <3>1. CASE i = last
      <4>1. \A j \in S : j < last
        BY <1>1, <1>3
      <4>2. Earlier(n, i)' = S
        BY <1>1, <1>3, <3>1, <4>1 DEF Earlier
      <4>3. QED
        BY <1>3, <2>1, <3>1, <4>2
    <3>2. CASE i # last
      <4>1. i \in S /\ ~ last < i
        BY <1>1, <1>3, <3>2
      <4>2. Earlier(n, i)' = Earlier(n, i)
        BY <1>2, <1>3, <4>1 DEF Earlier
      <4>3. Earlier(n, i) \subseteq S
        BY <1>2 DEF Earlier
      <4>4. QED
        BY <1>3, <2>1, <3>2, <4>2, <4>3
    <3>3. QED
      BY <3>1, <3>2
  <2>3. ThereAfter(T)' <=> ThereAfter(T)
    BY <1>1, <2>2, StillThere
  <2>4. ThereAfter(Earlier(n, i))' <=> ThereAfter(T)'
    BY <2>2 DEF ThereAfter
  <2>5. (calls'[i].said <=> (calls'[i].op = "delete") = ThereAfter(T))
    <3>1. CASE i = last
      <4>1. calls'[i].said = said /\ calls'[i].op = op /\ T = S
        BY <1>5, <2>1, <3>1
      <4>2. n \in DOMAIN checkpoints <=> ThereAfter(T)
        BY <1>8, <4>1
      <4>3. (n \in DOMAIN checkpoints) = ThereAfter(T)
        BY <4>2 DEF ThereAfter
      <4>4. said <=> (op = "delete") = ThereAfter(T)
        BY <4>3, Zenon
      <4>5. QED
        BY <4>1, <4>4, Zenon
    <3>2. CASE i # last
      <4>1. i \in S /\ T = Earlier(n, i)
        BY <1>3, <2>1, <3>2
      <4>2. calls'[i] = calls[i]
        BY <1>1, <1>3, <4>1
      <4>3. Told(n, i)
        BY <1>8, <4>1
      <4>4. QED
        BY <4>1, <4>2, <4>3, Zenon DEF Told
    <3>3. QED
      BY <3>1, <3>2
  <2>6. (calls'[i].said <=> (calls'[i].op = "delete") = ThereAfter(Earlier(n, i))')
    BY <2>3, <2>4, <2>5, Zenon DEF ThereAfter
  <2>7. QED
    BY <2>6, Zenon DEF Told
<1>10. QED
  BY <1>6, <1>7, <1>9

LEMMA OtherNames ==
  ASSUME CallsListed, CheckpointsKept, NEW name, NEW op, NEW about, NEW said,
         Answered(op, name, about, said),
         NEW n \in CheckpointNames, n # name, Row(checkpoints, n)' = Row(checkpoints, n),
         n \in DOMAIN checkpoints' <=> n \in DOMAIN checkpoints
  PROVE  /\ n \in DOMAIN checkpoints' <=> ThereAfter(NamedCalls(n))'
         /\ Row(checkpoints, n)' = (IF NamedCalls(n) = {} THEN None ELSE calls[Max(NamedCalls(n))].about)'
         /\ \A i \in NamedCalls(n)' : Told(n, i)'
<1>1. \A i \in DOMAIN calls : calls'[i] = calls[i]
  BY Called
<1>2. NamedCalls(n)' = NamedCalls(n)
  <2>1. \A ops, k : CallsAbout(ops, k)' =
          CallsAbout(ops, k) \union (IF op \in ops /\ k = name THEN {Len(calls) + 1} ELSE {})
    BY CalledAmong
  <2>2. CallsAbout({"checkpoint", "delete"}, n)' = CallsAbout({"checkpoint", "delete"}, n)
    BY <2>1
  <2>3. QED
    BY <2>2 DEF NamedCalls
<1>3. QED
  BY <1>1, <1>2, NamesUntouched

LEMMA PutCheckpointStep ==
  ASSUME CallsListed, CheckpointsKept, NEW name \in CheckpointNames, NEW document,
         PutCheckpoint(name, document)
  PROVE  CheckpointsKept'
<1> DEFINE said == name \notin DOMAIN checkpoints
<1>1. /\ checkpoints' = Stored(checkpoints, name, document)
      /\ Answered("checkpoint", name, document, said)
  BY DEF PutCheckpoint
<1>2. /\ DOMAIN checkpoints' = DOMAIN checkpoints \union {name} /\ checkpoints'[name] = document
      /\ \A n \in DOMAIN checkpoints : n # name => checkpoints'[n] = checkpoints[n]
  BY <1>1 DEF Stored
<1>3. said <=> ("checkpoint" = "delete") = (name \in DOMAIN checkpoints)
  <2>1. "checkpoint" # "delete"
    OBVIOUS
  <2>2. QED
    BY <2>1
<1> HIDE DEF said
<1>4. ASSUME NEW n \in CheckpointNames
      PROVE  /\ n \in DOMAIN checkpoints' <=> ThereAfter(NamedCalls(n))'
             /\ Row(checkpoints, n)' = (IF NamedCalls(n) = {} THEN None ELSE calls[Max(NamedCalls(n))].about)'
             /\ \A i \in NamedCalls(n)' : Told(n, i)'
  <2>1. CASE n = name
    <3>1. name \in DOMAIN checkpoints' <=> "checkpoint" = "checkpoint"
      BY <1>2
    <3>2. Row(checkpoints, name)' = document
      BY <1>2 DEF Row
    <3>3. QED
      BY <1>1, <1>3, <2>1, <3>1, <3>2, NameTouched
  <2>2. CASE n # name
    <3>1. Row(checkpoints, n)' = Row(checkpoints, n)
      BY <1>2, <2>2 DEF Row
    <3>2. n \in DOMAIN checkpoints' <=> n \in DOMAIN checkpoints
      BY <1>2, <2>2
    <3>3. QED
      BY <1>1, <2>2, <3>1, <3>2, OtherNames
  <2>3. QED
    BY <2>1, <2>2
<1>5. DOMAIN checkpoints' \subseteq CheckpointNames /\ IsFiniteSet(DOMAIN checkpoints')
  BY <1>2, FS_AddElement DEF CheckpointsKept
<1>6. QED
  BY <1>4, <1>5 DEF CheckpointsKept

LEMMA DeleteCheckpointStep ==
  ASSUME CallsListed, CheckpointsKept, NEW name \in CheckpointNames, DeleteCheckpoint(name)
  PROVE  CheckpointsKept'
<1> DEFINE said == name \in DOMAIN checkpoints
<1>1. /\ checkpoints' = [n \in DOMAIN checkpoints \ {name} |-> checkpoints[n]]
      /\ Answered("delete", name, None, said)
  BY DEF DeleteCheckpoint
<1>2. /\ DOMAIN checkpoints' = DOMAIN checkpoints \ {name}
      /\ \A n \in DOMAIN checkpoints : n # name => checkpoints'[n] = checkpoints[n]
  BY <1>1
<1>3. said <=> ("delete" = "delete") = (name \in DOMAIN checkpoints)
  <2>1. ("delete" = "delete") = TRUE
    OBVIOUS
  <2>2. QED
    BY <2>1, Zenon
<1> HIDE DEF said
<1>4. ASSUME NEW n \in CheckpointNames
      PROVE  /\ n \in DOMAIN checkpoints' <=> ThereAfter(NamedCalls(n))'
             /\ Row(checkpoints, n)' = (IF NamedCalls(n) = {} THEN None ELSE calls[Max(NamedCalls(n))].about)'
             /\ \A i \in NamedCalls(n)' : Told(n, i)'
  <2>1. CASE n = name
    <3>1. name \in DOMAIN checkpoints' <=> "delete" = "checkpoint"
      BY <1>2
    <3>2. Row(checkpoints, name)' = None
      BY <1>2 DEF Row
    <3>3. QED
      BY <1>1, <1>3, <2>1, <3>1, <3>2, NameTouched
  <2>2. CASE n # name
    <3>1. Row(checkpoints, n)' = Row(checkpoints, n)
      BY <1>2, <2>2 DEF Row
    <3>2. n \in DOMAIN checkpoints' <=> n \in DOMAIN checkpoints
      BY <1>2, <2>2
    <3>3. QED
      BY <1>1, <2>2, <3>1, <3>2, OtherNames
  <2>3. QED
    BY <2>1, <2>2
<1>5. DOMAIN checkpoints' \subseteq CheckpointNames /\ IsFiniteSet(DOMAIN checkpoints')
  BY <1>2, FS_Subset DEF CheckpointsKept
<1>6. QED
  BY <1>4, <1>5 DEF CheckpointsKept

-----------------------------------------------------------------------------
(* The tables together.                                                    *)
TablesKept == CallsListed /\ FailuresKept /\ DecisionsKept /\ LabelsKept /\ CheckpointsKept

LEMMA TablesInitially == TablesInit => TablesKept
<1> SUFFICES ASSUME TablesInit PROVE TablesKept
  OBVIOUS
<1>1. /\ calls = <<>> /\ quarantined = NoRows /\ decided = NoRows /\ checkpoints = NoRows
      /\ labels = NoRows
  BY DEF TablesInit
<1>2. DOMAIN NoRows = {}
  BY DEF NoRows
<1>3. CallsListed
  BY <1>1 DEF CallsListed
<1>4. \A op : CallsOf(op) = {}
  BY <1>1 DEF CallsOf
<1>5. \A ops, k : CallsAbout(ops, k) = {}
  BY <1>1 DEF CallsAbout
<1>6. FailuresKept
  <2>1. Times = {}
    BY <1>1, <1>2 DEF Times
  <2>2. QED
    BY <1>1, <1>2, <1>4, <2>1, FS_EmptySet DEF FailuresKept
<1>7. DecisionsKept
  BY <1>1, <1>2, <1>4 DEF DecisionsKept
<1>8. LabelsKept
  <2>1. IsFiniteSet(DOMAIN labels) /\ Cardinality(DOMAIN labels) = 0
    BY <1>1, <1>2, FS_EmptySet
  <2>2. QED
    BY <1>1, <1>2, <1>4, <2>1 DEF LabelsKept, MaxLabelCardinality
<1>9. CheckpointsKept
  <2>1. IsFiniteSet(DOMAIN checkpoints)
    BY <1>1, <1>2, FS_EmptySet
  <2>2. \A n : NamedCalls(n) = {} /\ Row(checkpoints, n) = None /\ ~ ThereAfter({})
    BY <1>1, <1>2, <1>5 DEF NamedCalls, Row, ThereAfter
  <2>3. QED
    BY <1>1, <1>2, <2>1, <2>2 DEF CheckpointsKept
<1>10. QED
  BY <1>3, <1>6, <1>7, <1>8, <1>9 DEF TablesKept

LEMMA StillListed ==
  ASSUME CallsListed, Others({})
  PROVE  CallsListed'
BY OthersCalled

LEMMA TablesStep == TablesKept /\ [TablesNext]_tablesVars => TablesKept'
<1> SUFFICES ASSUME TablesKept, [TablesNext]_tablesVars PROVE TablesKept'
  OBVIOUS
<1> USE DEF TablesKept
<1>1. CASE UNCHANGED tablesVars
  <2>1. /\ UNCHANGED <<quarantined, decided, checkpoints, labels, calls>>
        /\ \A ops : Others(ops) /\ CallsListed'
    BY <1>1 DEF tablesVars, Others, CallsListed
  <2>2. QED
    BY <2>1, FailuresStay, DecisionsStay, LabelsStay, CheckpointsStay
<1>2. ASSUME NEW e \in Entries, Quarantine(e)
      PROVE  TablesKept'
  <2>1. FailuresKept' /\ CallsListed'
    BY <1>2, FailuresStep
  <2>2. /\ \A ops : "quarantine" \notin ops => Others(ops) /\ Others({})
        /\ UNCHANGED <<decided, checkpoints, labels>>
    BY <1>2 DEF Quarantine, Others
  <2>3. QED
    BY <2>1, <2>2, DecisionsStay, LabelsStay, CheckpointsStay
<1>3. ASSUME NEW d \in Decisions, RecordGraphDecision(d)
      PROVE  TablesKept'
  <2>1. DecisionsKept'
    BY <1>3, DecisionsStep
  <2>2. /\ \A ops : "decide" \notin ops => Others(ops) /\ Others({})
        /\ UNCHANGED <<quarantined, checkpoints, labels>>
    BY <1>3 DEF RecordGraphDecision, Others
  <2>3. CallsListed'
    BY <2>2, StillListed
  <2>4. QED
    BY <2>1, <2>2, <2>3, FailuresStay, LabelsStay, CheckpointsStay
<1>4. ASSUME NEW n \in CheckpointNames, NEW document, PutCheckpoint(n, document)
      PROVE  TablesKept'
  <2>1. CheckpointsKept'
    BY <1>4, PutCheckpointStep
  <2>2. /\ \A ops : "checkpoint" \notin ops => Others(ops) /\ Others({})
        /\ UNCHANGED <<quarantined, decided, labels>>
    BY <1>4 DEF PutCheckpoint, Others
  <2>3. CallsListed'
    BY <2>2, StillListed
  <2>4. QED
    BY <2>1, <2>2, <2>3, FailuresStay, LabelsStay, DecisionsStay
<1>5. ASSUME NEW n \in CheckpointNames, DeleteCheckpoint(n)
      PROVE  TablesKept'
  <2>1. CheckpointsKept'
    BY <1>5, DeleteCheckpointStep
  <2>2. /\ \A ops : "delete" \notin ops => Others(ops) /\ Others({})
        /\ UNCHANGED <<quarantined, decided, labels>>
    BY <1>5 DEF DeleteCheckpoint, Others
  <2>3. CallsListed'
    BY <2>2, StillListed
  <2>4. QED
    BY <2>1, <2>2, <2>3, FailuresStay, LabelsStay, DecisionsStay
<1>6. ASSUME NEW n, NEW document, UpsertSourceObject(n, document)
      PROVE  TablesKept'
  <2>1. /\ \A ops : "source" \notin ops => Others(ops) /\ Others({})
        /\ UNCHANGED <<quarantined, decided, checkpoints, labels>>
    BY <1>6 DEF UpsertSourceObject, Others
  <2>2. CallsListed'
    BY <2>1, StillListed
  <2>3. QED
    BY <2>1, <2>2, FailuresStay, LabelsStay, DecisionsStay, CheckpointsStay
<1>7. ASSUME NEW n, NEW document, PutConnectorCursor(n, document)
      PROVE  TablesKept'
  <2>1. /\ \A ops : "cursor" \notin ops => Others(ops) /\ Others({})
        /\ UNCHANGED <<quarantined, decided, checkpoints, labels>>
    BY <1>7 DEF PutConnectorCursor, Others
  <2>2. CallsListed'
    BY <2>1, StillListed
  <2>3. QED
    BY <2>1, <2>2, FailuresStay, LabelsStay, DecisionsStay, CheckpointsStay
<1>8. ASSUME NEW v, ObserveLabel(v)
      PROVE  TablesKept'
  <2>1. LabelsKept'
    BY <1>8, LabelsStep
  <2>2. /\ \A ops : "label" \notin ops => Others(ops) /\ Others({})
        /\ UNCHANGED <<quarantined, decided, checkpoints>>
    BY <1>8 DEF ObserveLabel, Others
  <2>3. CallsListed'
    BY <2>2, StillListed
  <2>4. QED
    BY <2>1, <2>2, <2>3, FailuresStay, DecisionsStay, CheckpointsStay
<1>9. QED
  BY <1>1, <1>2, <1>3, <1>4, <1>5, <1>6, <1>7, <1>8 DEF TablesNext

LEMMA TablesAnswerWell ==
  ASSUME TablesKept
  PROVE  FailuresAddUp /\ DecisionsKeepTheirActors /\ LabelsStayBounded /\ CheckpointsByName
BY FailuresAdd, DecisionsStand, LabelsBounded, CheckpointsListed DEF TablesKept

-----------------------------------------------------------------------------
(* A blob is read as it was filed, or not at all.                          *)
LEMMA BlobsRead == Sampled("blob") /\ Filed(sample.blob) => BlobsAreTheirs
<1> SUFFICES ASSUME Filed(sample.blob) PROVE BlobsAreTheirs
  BY DEF BlobsAreTheirs
<1> DEFINE blob == sample.blob
           own == EncodeBytes(blob)
           Got(row, codec) == GetSourceBlob(blob.content, [codec |-> codec, original_length |-> blob.length], row)
<1>1. own.of = blob /\ own.stored <= blob.length
  BY DEF EncodeBytes, Filed
<1>2. Got(own, own.codec) = blob
  <2>1. DecodeBytes(own.codec, own) = blob
    BY <1>1 DEF DecodeBytes
  <2>2. IntegrityHolds(blob.content, [codec |-> own.codec, original_length |-> blob.length], blob)
    BY DEF IntegrityHolds
  <2>3. QED
    BY <2>1, <2>2 DEF GetSourceBlob, Filed
<1>3. ASSUME NEW row, NEW codec
      PROVE  LET got == Got(row, codec) IN
             got # None => got.content = blob.content /\ got.length = blob.length
  BY DEF GetSourceBlob, IntegrityHolds
<1>4. QED
  BY <1>1, <1>2, <1>3 DEF BlobsAreTheirs

-----------------------------------------------------------------------------
(* The pages of a listing.                                                 *)
Clamped(limit) == IF limit = 0 THEN 1 ELSE IF limit > MaxLimit THEN MaxLimit ELSE limit

LEMMA PageNumberIs ==
  ASSUME NEW limit \in Nat, NEW n \in Nat
  PROVE  PageNumber(limit, n) = [limit |-> Clamped(limit), offset |-> n * Clamped(limit)]
<1> DEFINE L == Clamped(limit)
           Equation(f) == f = [k \in 0..n |-> IF k = 0 THEN First(limit) ELSE NextPage(f[k - 1])]
           chosen == CHOOSE f : Equation(f)
           At(k) == [limit |-> L, offset |-> k * L]
           g == [k \in 0..n |-> At(k)]
<1>1. PageNumber(limit, n) = chosen[n]
  BY DEF PageNumber
<1>2. L \in 1..4
  BY DEF Clamped, MaxLimit
<1>3. First(limit) = At(0)
  BY <1>2 DEF First, Page, Clamped
<1> HIDE DEF L
<1>4. \A k \in 1..n : NextPage(At(k - 1)) = At(k)
  <2> TAKE k \in 1..n
  <2>1. (k - 1) * L + L = k * L
    BY <1>2
  <2>2. NextPage(At(k - 1)) = [limit |-> L, offset |-> (k - 1) * L + L]
    BY DEF NextPage
  <2>3. QED
    BY <2>1, <2>2
<1> HIDE DEF At
<1>5. Equation(g)
  <2>1. \A k \in 0..n : g[k] = IF k = 0 THEN First(limit) ELSE NextPage(g[k - 1])
    <3> TAKE k \in 0..n
    <3>1. CASE k = 0
      BY <1>3, <3>1
    <3>2. CASE k # 0
      <4>1. k \in 1..n /\ k - 1 \in 0..n
        BY <3>2
      <4>2. g[k] = At(k) /\ g[k - 1] = At(k - 1)
        BY <4>1
      <4>3. QED
        BY <1>4, <3>2, <4>1, <4>2
    <3>3. QED
      BY <3>1, <3>2
  <2>2. QED
    BY <2>1
<1> HIDE DEF g
<1>6. Equation(chosen)
  <2> HIDE DEF Equation
  <2>1. QED
    BY <1>5
<1> HIDE DEF chosen
<1>7. chosen = [k \in 0..n |-> IF k = 0 THEN First(limit) ELSE NextPage(chosen[k - 1])]
  BY <1>6
<1> DEFINE S == {k \in Nat : k <= n => chosen[k] = At(k)}
<1>8. 0 \in S
  BY <1>3, <1>7
<1>9. ASSUME NEW k \in Nat, k \in S
      PROVE  k + 1 \in S
  <2> SUFFICES ASSUME k + 1 <= n PROVE chosen[k + 1] = At(k + 1)
    OBVIOUS
  <2>1. k + 1 \in 1..n /\ k + 1 \in 0..n /\ (k + 1) - 1 = k /\ k + 1 # 0
    OBVIOUS
  <2>2. chosen[k] = At(k)
    BY <1>9
  <2>3. chosen[k + 1] = NextPage(chosen[(k + 1) - 1])
    BY <1>7, <2>1
  <2>4. NextPage(At((k + 1) - 1)) = At(k + 1)
    BY <1>4, <2>1
  <2>5. QED
    BY <2>1, <2>2, <2>3, <2>4
<1>10. n \in S
  <2> HIDE DEF S
  <2>1. QED
    BY <1>8, <1>9, InductionBySet
<1>11. QED
  BY <1>1, <1>10 DEF At, L

LEMMA FetchedPage ==
  ASSUME NEW S, NEW rows \in Seq(S), NEW o \in Nat, NEW l \in Nat \ {0}
  PROVE  LET got == Fetched(rows, [limit |-> l, offset |-> o]) IN
         /\ got \in Seq(S)
         /\ Len(got) = IF o >= Len(rows) THEN 0
                       ELSE IF o + l < Len(rows) THEN l ELSE Len(rows) - o
         /\ \A k \in 1..Len(got) : got[k] = rows[o + k]
<1> DEFINE last == IF o + l < Len(rows) THEN o + l ELSE Len(rows)
           got == SubSeq(rows, o + 1, last)
<1>1. Fetched(rows, [limit |-> l, offset |-> o]) = got
  BY DEF Fetched
<1>2. Len(rows) \in Nat /\ last \in Nat /\ last <= Len(rows)
  OBVIOUS
<1>3. last = IF o + l < Len(rows) THEN o + l ELSE Len(rows)
  OBVIOUS
<1> HIDE DEF last
<1>4. /\ got \in Seq(S)
      /\ Len(got) = IF o + 1 <= last THEN last - (o + 1) + 1 ELSE 0
  BY <1>2
<1>5. \A k \in 1..Len(got) : got[k] = rows[o + k]
  BY <1>2, <1>4
<1> HIDE DEF got
<1>6. Len(got) = IF o >= Len(rows) THEN 0
                 ELSE IF o + l < Len(rows) THEN l ELSE Len(rows) - o
  BY <1>2, <1>3, <1>4
<1>7. QED
  BY <1>1, <1>4, <1>5, <1>6

(* The first rows, as many as there are up to a number.                    *)
UpTo(rows, m) == [k \in 1..(IF m < Len(rows) THEN m ELSE Len(rows)) |-> rows[k]]

LEMMA UpToFacts ==
  ASSUME NEW S, NEW rows \in Seq(S), NEW m \in Nat
  PROVE  /\ UpTo(rows, m) \in Seq(S)
         /\ Len(UpTo(rows, m)) = IF m < Len(rows) THEN m ELSE Len(rows)
         /\ \A k \in 1..Len(UpTo(rows, m)) : UpTo(rows, m)[k] = rows[k]
<1> DEFINE many == IF m < Len(rows) THEN m ELSE Len(rows)
<1>1. many \in Nat /\ \A k \in 1..many : rows[k] \in S
  OBVIOUS
<1>2. UpTo(rows, m) = [k \in 1..many |-> rows[k]]
  BY DEF UpTo
<1> HIDE DEF many
<1>3. UpTo(rows, m) \in Seq(S) /\ Len(UpTo(rows, m)) = many
  BY <1>1, <1>2
<1>4. \A k \in 1..many : UpTo(rows, m)[k] = rows[k]
  BY <1>2
<1>5. QED
  BY <1>3, <1>4 DEF many

(* Two sequences of one length with the same entries are the same.        *)
LEMMA SameEntries ==
  ASSUME NEW S, NEW s \in Seq(S), NEW t \in Seq(S), Len(s) = Len(t),
         \A k \in 1..Len(t) : s[k] = t[k]
  PROVE  s = t
<1>1. /\ s = [k \in 1..Len(s) |-> s[k]]
      /\ t = [k \in 1..Len(t) |-> t[k]]
  OBVIOUS
<1> DEFINE n == Len(t)
           f == [k \in 1..n |-> s[k]]
           g == [k \in 1..n |-> t[k]]
<1>2. s = f /\ t = g
  BY <1>1
<1>3. f = g
  OBVIOUS
<1> HIDE DEF n, f, g
<1>4. QED
  BY <1>2, <1>3

LEMMA OnePageMore ==
  ASSUME NEW S, NEW rows \in Seq(S), NEW o \in Nat, NEW l \in Nat \ {0}
  PROVE  UpTo(rows, o) \o Fetched(rows, [limit |-> l, offset |-> o]) = UpTo(rows, o + l)
<1> DEFINE s == UpTo(rows, o)
           t == Fetched(rows, [limit |-> l, offset |-> o])
           u == UpTo(rows, o + l)
<1>1. /\ s \in Seq(S) /\ Len(s) = IF o < Len(rows) THEN o ELSE Len(rows)
      /\ \A k \in 1..Len(s) : s[k] = rows[k]
  BY UpToFacts
<1>2. /\ u \in Seq(S) /\ Len(u) = IF o + l < Len(rows) THEN o + l ELSE Len(rows)
      /\ \A k \in 1..Len(u) : u[k] = rows[k]
  <2>1. o + l \in Nat
    OBVIOUS
  <2>2. QED
    BY <2>1, UpToFacts
<1>3. /\ t \in Seq(S)
      /\ Len(t) = IF o >= Len(rows) THEN 0 ELSE IF o + l < Len(rows) THEN l ELSE Len(rows) - o
      /\ \A k \in 1..Len(t) : t[k] = rows[o + k]
  BY FetchedPage
<1> HIDE DEF s, t, u
<1>9. Len(rows) \in Nat
  OBVIOUS
<1>4. /\ Len(rows) \in Nat /\ Len(s) \in Nat /\ Len(t) \in Nat
      /\ s \o t \in Seq(S) /\ Len(s \o t) = Len(s) + Len(t)
  <2>1. s \in Seq(S) /\ t \in Seq(S)
    BY <1>1, <1>3
  <2>2. Len(s) \in Nat /\ Len(t) \in Nat /\ s \o t \in Seq(S) /\ Len(s \o t) = Len(s) + Len(t)
    BY <2>1
  <2>3. QED
    BY <1>9, <2>2
<1>5. Len(s \o t) = Len(u)
  <2> DEFINE m == Len(rows)  a == Len(s)  b == Len(t)  c == Len(u)
  <2>1. /\ m \in Nat /\ a = (IF o < m THEN o ELSE m)
        /\ b = (IF o >= m THEN 0 ELSE IF o + l < m THEN l ELSE m - o)
        /\ c = (IF o + l < m THEN o + l ELSE m)
    BY <1>1, <1>2, <1>3, <1>4
  <2> HIDE DEF m, a, b, c
  <2>2. a + b = c
    BY <2>1
  <2>3. QED
    BY <1>4, <2>2 DEF a, b, c
<1>6. ASSUME NEW k \in 1..Len(u)
      PROVE  (s \o t)[k] = u[k]
  <2>1. CASE k <= Len(s)
    <3>1. k \in 1..Len(s)
      BY <2>1
    <3>2. (s \o t)[k] = s[k]
      BY <1>1, <1>3, <3>1
    <3>3. QED
      BY <1>1, <1>2, <3>1, <3>2
  <2>2. CASE k > Len(s)
    <3>6. Len(s) \in Nat /\ Len(t) \in Nat /\ Len(u) = Len(s) + Len(t)
      BY <1>4, <1>5, Zenon
    <3>1. k - Len(s) \in 1..Len(t)
      BY <2>2, <3>6
    <3>2. (s \o t)[k] = t[k - Len(s)]
      BY <1>1, <1>3, <3>1
    <3>3. Len(s) = o
      BY <1>1, <1>3, <3>1
    <3>4. o + (k - Len(s)) = k
      BY <3>3
    <3>5. QED
      BY <1>2, <1>3, <3>1, <3>2, <3>4
  <2>5. k \in Int /\ Len(s) \in Int
    <3>1. Len(u) \in Nat
      BY <1>2
    <3>2. k \in Int
      BY <3>1
    <3>3. QED
      BY <1>4, <3>2
  <2>3. k <= Len(s) \/ k > Len(s)
    BY <2>5
  <2>4. QED
    BY <2>1, <2>2, <2>3, Zenon
<1>7. s \o t = u
  <2> DEFINE v == s \o t
  <2>1. v \in Seq(S) /\ Len(v) = Len(u) /\ \A k \in 1..Len(u) : v[k] = u[k]
    BY <1>4, <1>5, <1>6
  <2> HIDE DEF v
  <2>2. v = u
    <3>1. u \in Seq(S)
      BY <1>2
    <3>2. QED
      BY <2>1, <3>1, SameEntries
  <2>3. QED
    BY <2>2 DEF v
<1>8. QED
  BY <1>7 DEF s, t, u

(* One more page than there are rows is enough of them.                    *)
LEMMA PagesAreWhole ==
  ASSUME NEW S, NEW rows \in Seq(S), NEW N \in Nat, Len(rows) <= N, NEW limit \in Nat
  PROVE  FlattenSeq([n \in 1..N + 1 |-> Fetched(rows, PageNumber(limit, n - 1))]) = rows
<1> DEFINE L == Clamped(limit)
           M == N + 1
           pages == [n \in 1..M |-> Fetched(rows, PageNumber(limit, n - 1))]
           Equation(f) == f = [i \in 1..Len(pages) |-> IF i = 1 THEN pages[i] ELSE f[i - 1] \o pages[i]]
           chosen == CHOOSE f : Equation(f)
           g == [i \in 1..M |-> UpTo(rows, i * L)]
<1>1. L \in Nat \ {0} /\ M \in Nat \ {0} /\ L \in 1..4
  BY DEF Clamped, MaxLimit
<1>2. Len(pages) = M
  BY <1>1
<1>3. FlattenSeq(pages) = chosen[M]
  BY <1>1, <1>2 DEF FlattenSeq
<1>4. \A i \in 1..M : pages[i] = Fetched(rows, [limit |-> L, offset |-> (i - 1) * L])
  <2> TAKE i \in 1..M
  <2>1. i - 1 \in Nat
    OBVIOUS
  <2>2. PageNumber(limit, i - 1) = [limit |-> L, offset |-> (i - 1) * L]
    BY <2>1, PageNumberIs
  <2>3. QED
    BY <2>2
<1> HIDE DEF L, M, pages
<1>5. ASSUME NEW i \in 1..M
      PROVE  /\ i * L \in Nat
             /\ i = 1 => pages[i] = UpTo(rows, i * L)
             /\ i # 1 => UpTo(rows, (i - 1) * L) \o pages[i] = UpTo(rows, i * L)
  <2> DEFINE o == (i - 1) * L
  <2>1. o \in Nat /\ o + L = i * L /\ (i = 1 => o = 0)
    BY <1>1
  <2>2. pages[i] = Fetched(rows, [limit |-> L, offset |-> o])
    BY <1>4
  <2> HIDE DEF o
  <2>3. UpTo(rows, o) \o pages[i] = UpTo(rows, o + L)
    BY <1>1, <2>1, <2>2, OnePageMore
  <2>4. pages[i] \in Seq(S)
    BY <1>1, <2>1, <2>2, FetchedPage
  <2>5. ASSUME i = 1
        PROVE  UpTo(rows, o) = <<>>
    <3>1. UpTo(rows, 0) = <<>>
      <4>1. UpTo(rows, 0) \in Seq(S) /\ Len(UpTo(rows, 0)) = 0
        <5>1. 0 \in Nat /\ Len(rows) \in Nat
          OBVIOUS
        <5>2. UpTo(rows, 0) \in Seq(S) /\ Len(UpTo(rows, 0)) = IF 0 < Len(rows) THEN 0 ELSE Len(rows)
          BY <5>1, UpToFacts
        <5>3. QED
          BY <5>1, <5>2
      <4>2. QED
        BY <4>1
    <3>2. QED
      BY <2>1, <2>5, <3>1
  <2>6. i = 1 => pages[i] = UpTo(rows, o + L)
    <3>1. <<>> \o pages[i] = pages[i]
      BY <2>4
    <3>2. QED
      BY <2>3, <2>5, <3>1
  <2>7. o + L = i * L
    BY <2>1
  <2>8. i * L \in Nat
    BY <1>1, <2>1
  <2>9. QED
    BY <2>3, <2>6, <2>7, <2>8 DEF o
<1>6. Equation(g)
  <2>1. \A i \in 1..M : g[i] = IF i = 1 THEN pages[i] ELSE g[i - 1] \o pages[i]
    <3> TAKE i \in 1..M
    <3>1. CASE i = 1
      <4>1. g[i] = UpTo(rows, i * L)
        OBVIOUS
      <4>2. QED
        BY <1>5, <3>1, <4>1
    <3>2. CASE i # 1
      <4>1. i - 1 \in 1..M
        BY <1>1, <3>2
      <4>2. g[i] = UpTo(rows, i * L) /\ g[i - 1] = UpTo(rows, (i - 1) * L)
        BY <4>1
      <4>3. UpTo(rows, (i - 1) * L) \o pages[i] = UpTo(rows, i * L)
        BY <1>5, <3>2
      <4>4. QED
        BY <3>2, <4>2, <4>3, Zenon
    <3>3. QED
      BY <3>1, <3>2
  <2>2. QED
    BY <1>2, <2>1
<1> HIDE DEF g
<1>7. Equation(chosen)
  <2> HIDE DEF Equation
  <2>1. QED
    BY <1>6
<1> HIDE DEF chosen
<1>8. \A i \in 1..M : chosen[i] = IF i = 1 THEN pages[i] ELSE chosen[i - 1] \o pages[i]
  BY <1>2, <1>7
<1> DEFINE T == {k \in Nat : k + 1 <= M => chosen[k + 1] = UpTo(rows, (k + 1) * L)}
<1>9. 0 \in T
  <2>1. 0 + 1 \in 1..M /\ 0 + 1 = 1
    BY <1>1
  <2>2. chosen[0 + 1] = pages[0 + 1]
    BY <1>8, <2>1
  <2>3. pages[0 + 1] = UpTo(rows, (0 + 1) * L)
    BY <1>5, <2>1
  <2>4. QED
    BY <2>2, <2>3
<1>10. ASSUME NEW k \in Nat, k \in T
       PROVE  k + 1 \in T
  <2> DEFINE i == (k + 1) + 1
  <2> SUFFICES ASSUME i <= M PROVE chosen[i] = UpTo(rows, i * L)
    OBVIOUS
  <2>1. i \in 1..M /\ i # 1 /\ i - 1 = k + 1 /\ k + 1 <= M
    BY <1>1
  <2>2. chosen[i - 1] = UpTo(rows, (i - 1) * L)
    BY <1>10, <2>1
  <2> HIDE DEF i
  <2>3. chosen[i] = chosen[i - 1] \o pages[i]
    BY <1>8, <2>1
  <2>4. UpTo(rows, (i - 1) * L) \o pages[i] = UpTo(rows, i * L)
    BY <1>5, <2>1
  <2>5. QED
    BY <2>2, <2>3, <2>4
<1>11. chosen[M] = UpTo(rows, M * L)
  <2>1. N \in T
    <3> HIDE DEF T
    <3>1. QED
      BY <1>9, <1>10, InductionBySet
  <2>2. N + 1 = M
    BY DEF M
  <2>3. QED
    BY <1>1, <2>1, <2>2
<1>12. UpTo(rows, M * L) = rows
  <2>1. M * L \in Nat /\ M * L >= M
    BY <1>1
  <2>2. Len(rows) \in Nat /\ Len(rows) < M
    BY DEF M
  <2>3. ~ (M * L < Len(rows))
    <3> DEFINE all == M * L
    <3>1. all \in Nat /\ all >= M
      BY <2>1
    <3> HIDE DEF all
    <3>2. ~ (all < Len(rows))
      BY <1>1, <2>2, <3>1
    <3>3. QED
      BY <3>2 DEF all
  <2>4. /\ UpTo(rows, M * L) \in Seq(S) /\ Len(UpTo(rows, M * L)) = Len(rows)
        /\ \A k \in 1..Len(rows) : UpTo(rows, M * L)[k] = rows[k]
    BY <2>1, <2>3, UpToFacts
  <2>5. QED
    BY <2>4
<1>13. QED
  BY <1>3, <1>11, <1>12 DEF pages, M

(* A listing has each row it is of once, and so do its pages.              *)
PagedOnce(D, T, limit, listed) ==
  /\ FlattenSeq([n \in 1..Cardinality(D) + 1 |-> Fetched(listed, PageNumber(limit, n - 1))]) = listed
  /\ listed \in Seq(T) /\ ListsOnce(listed, T)

LEMMA ListedOnce ==
  ASSUME NEW D, IsFiniteSet(D), NEW T \in SUBSET D, NEW earlier, Orders(earlier, T),
         NEW limit \in Nat
  PROVE  /\ PagedOnce(D, T, limit, Ranked(T, earlier))
         /\ \A i, j \in DOMAIN Ranked(T, earlier) :
              i < j => <<Ranked(T, earlier)[i], Ranked(T, earlier)[j]>> \in earlier
<1> DEFINE listed == Ranked(T, earlier)
<1>1. IsFiniteSet(T) /\ Cardinality(T) <= Cardinality(D) /\ Cardinality(D) \in Nat
  BY FS_Subset, FS_CardinalityType
<1>2. /\ listed \in Seq(T) /\ Len(listed) = Cardinality(T) /\ Cardinality(T) \in Nat
      /\ \A i \in T : \E n \in 1..Len(listed) : listed[n] = i
      /\ \A m, n \in 1..Len(listed) : m < n => <<listed[m], listed[n]>> \in earlier
  BY <1>1, RankedFacts
<1> HIDE DEF listed
<1>3. DOMAIN listed = 1..Len(listed) /\ Len(listed) \in Nat /\ \A n \in 1..Len(listed) : listed[n] \in T
  BY <1>2
<1>4. IsInjective(listed)
  <2>1. ASSUME NEW m \in 1..Len(listed), NEW n \in 1..Len(listed), listed[m] = listed[n]
        PROVE  m = n
    <3>1. ~ m < n /\ ~ n < m
      BY <1>2, <1>3, <2>1 DEF Orders
    <3>2. m \in Nat /\ n \in Nat
      BY <1>3
    <3>3. QED
      BY <3>1, <3>2
  <2>2. QED
    BY <1>3, <2>1 DEF IsInjective
<1>5. Range(listed) = T
  BY <1>2, <1>3 DEF Range
<1>6. FlattenSeq([n \in 1..Cardinality(D) + 1 |-> Fetched(listed, PageNumber(limit, n - 1))]) = listed
  BY <1>1, <1>2, PagesAreWhole
<1>7. QED
  BY <1>2, <1>3, <1>4, <1>5, <1>6 DEF ListsOnce, PagedOnce, listed

(* Listings by id.                                                         *)
LEMMA ListedById ==
  ASSUME NEW D \in SUBSET Nat, IsFiniteSet(D), NEW T \in SUBSET D, NEW limit \in Nat
  PROVE  PagedOnce(D, T, limit, ById(T))
<1> DEFINE earlier == {p \in T \X T : p[1] < p[2]}
<1>1. T \in SUBSET Nat
  OBVIOUS
<1>2. Orders(earlier, T)
  BY <1>1, NumbersOrder
<1>3. ById(T) = Ranked(T, earlier)
  BY DEF ById
<1> HIDE DEF earlier
<1>4. QED
  BY <1>2, <1>3, ListedOnce

(* Newest first tells every two rows apart.                                *)
LEMMA NewerOrders ==
  ASSUME NEW table, DOMAIN table \subseteq Nat, NEW T \in SUBSET DOMAIN table,
         \A i \in DOMAIN table : table[i].last_seen \in Nat \union {None}
  PROVE  Orders({p \in T \X T : Newer(table, p[1], p[2])}, T)
<1> DEFINE earlier == {p \in T \X T : Newer(table, p[1], p[2])}
           seen(i) == table[i].last_seen
<1>1. \A i, j \in T : <<i, j>> \in earlier <=> Newer(table, i, j)
  OBVIOUS
<1>2. \A i \in T : i \in Nat /\ seen(i) \in Nat \union {None}
  OBVIOUS
<1>3. \A i, j : Newer(table, i, j) <=>
        IF seen(i) = seen(j) THEN i < j
        ELSE seen(i) # None /\ (seen(j) = None \/ seen(i) > seen(j))
  BY DEF Newer
<1> HIDE DEF earlier, seen
<1>4. \A i \in T : <<i, i>> \notin earlier
  BY <1>1, <1>2, <1>3
<1>5. ASSUME NEW i \in T, NEW j \in T, i # j
      PROVE  <<i, j>> \in earlier \/ <<j, i>> \in earlier
  <2>1. Newer(table, i, j) \/ Newer(table, j, i)
    BY <1>2, <1>3, <1>5
  <2>2. QED
    BY <1>1, <2>1
<1>6. ASSUME NEW i \in T, NEW j \in T, NEW k \in T, <<i, j>> \in earlier, <<j, k>> \in earlier
      PROVE  <<i, k>> \in earlier
  <2>1. Newer(table, i, j) /\ Newer(table, j, k)
    BY <1>1, <1>6
  <2>2. Newer(table, i, k)
    BY <1>2, <1>3, <2>1
  <2>3. QED
    BY <1>1, <2>2
<1>7. QED
  BY <1>4, <1>5, <1>6 DEF Orders, earlier

LEMMA ListedByNewest ==
  ASSUME NEW table, DOMAIN table \subseteq Nat, IsFiniteSet(DOMAIN table),
         NEW T \in SUBSET DOMAIN table,
         \A i \in DOMAIN table : table[i].last_seen \in Nat \union {None},
         NEW limit \in Nat
  PROVE  LET listed == ByNewest(table, T) IN
         /\ PagedOnce(DOMAIN table, T, limit, listed)
         /\ \A i, j \in DOMAIN listed : i < j => Newer(table, listed[i], listed[j])
<1> DEFINE earlier == {p \in T \X T : Newer(table, p[1], p[2])}
           listed == ByNewest(table, T)
           D == DOMAIN table
<1>1. Orders(earlier, T)
  BY NewerOrders
<1>2. listed = Ranked(T, earlier)
  BY DEF ByNewest
<1>3. \A i, j : <<i, j>> \in earlier => Newer(table, i, j)
  OBVIOUS
<1> HIDE DEF earlier, listed
<1>4. /\ PagedOnce(D, T, limit, listed)
      /\ \A i, j \in DOMAIN listed : i < j => <<listed[i], listed[j]>> \in earlier
  <2> HIDE DEF D
  <2>1. IsFiniteSet(D) /\ T \in SUBSET D
    BY DEF D
  <2>2. QED
    BY <1>1, <1>2, <2>1, ListedOnce
<1>5. QED
  BY <1>3, <1>4 DEF listed

(* Two listings of different rows, one after the other, list them all.     *)
LEMMA OneThenTheOther ==
  ASSUME NEW A, NEW B, A \cap B = {}, NEW s \in Seq(A), NEW t \in Seq(B),
         ListsOnce(s, A), ListsOnce(t, B)
  PROVE  ListsOnce(s \o t, A \union B)
<1> DEFINE u == s \o t
<1>1. /\ Len(s) \in Nat /\ Len(t) \in Nat /\ DOMAIN s = 1..Len(s) /\ DOMAIN t = 1..Len(t)
      /\ s \in Seq(A \union B) /\ t \in Seq(A \union B)
  OBVIOUS
<1>2. /\ u \in Seq(A \union B) /\ Len(u) = Len(s) + Len(t) /\ DOMAIN u = 1..(Len(s) + Len(t))
  BY <1>1
<1>3. \A k \in 1..Len(s) : u[k] = s[k] /\ u[k] \in A
  BY <1>1
<1>4. \A k \in 1..Len(t) : u[Len(s) + k] = t[k] /\ t[k] \in B
  BY <1>1
<1> HIDE DEF u
<1>5. /\ \A m, n \in 1..Len(s) : s[m] = s[n] => m = n
      /\ \A m, n \in 1..Len(t) : t[m] = t[n] => m = n
      /\ \A a \in A : \E n \in 1..Len(s) : s[n] = a
      /\ \A b \in B : \E n \in 1..Len(t) : t[n] = b
  BY <1>1 DEF ListsOnce, IsInjective, Range
<1>6. \A k \in 1..(Len(s) + Len(t)) :
        k \in 1..Len(s) \/ (k - Len(s) \in 1..Len(t) /\ Len(s) + (k - Len(s)) = k)
  BY <1>1
<1>7. \A k \in 1..(Len(s) + Len(t)) :
        \/ k \in 1..Len(s) /\ u[k] = s[k] /\ u[k] \in A
        \/ k - Len(s) \in 1..Len(t) /\ u[k] = t[k - Len(s)] /\ u[k] \in B
  BY <1>3, <1>4, <1>6
<1>8. ASSUME NEW m \in DOMAIN u, NEW n \in DOMAIN u, u[m] = u[n]
      PROVE  m = n
  <2>1. \/ m \in 1..Len(s) /\ n \in 1..Len(s) /\ s[m] = s[n]
        \/ /\ m - Len(s) \in 1..Len(t) /\ n - Len(s) \in 1..Len(t)
           /\ t[m - Len(s)] = t[n - Len(s)]
    BY <1>2, <1>7, <1>8
  <2>2. m \in 1..Len(s) /\ n \in 1..Len(s) /\ s[m] = s[n] => m = n
    BY <1>5
  <2>3. m - Len(s) \in 1..Len(t) /\ n - Len(s) \in 1..Len(t) /\ t[m - Len(s)] = t[n - Len(s)]
          => m - Len(s) = n - Len(s)
    BY <1>5
  <2>4. m \in Int /\ n \in Int
    BY <1>2
  <2>5. m - Len(s) = n - Len(s) => m = n
    BY <1>1, <2>4
  <2>6. QED
    BY <2>1, <2>2, <2>3, <2>5
<1>9. \A k \in DOMAIN u : u[k] \in A \union B
  BY <1>2, <1>7
<1>10. ASSUME NEW x \in A \union B
       PROVE  \E k \in DOMAIN u : u[k] = x
  <2>1. CASE x \in A
    <3>1. PICK n \in 1..Len(s) : s[n] = x
      BY <1>5, <2>1
    <3>2. n \in DOMAIN u /\ u[n] = x
      BY <1>1, <1>2, <1>3, <3>1
    <3>3. QED
      BY <3>2
  <2>2. CASE x \in B
    <3>1. PICK n \in 1..Len(t) : t[n] = x
      BY <1>5, <2>2
    <3>2. Len(s) + n \in DOMAIN u /\ u[Len(s) + n] = x
      BY <1>1, <1>2, <1>4, <3>1
    <3>3. QED
      BY <3>2
  <2>3. QED
    BY <2>1, <2>2
<1>11. IsInjective(u)
  BY <1>8 DEF IsInjective
<1>12. Range(u) = A \union B
  BY <1>9, <1>10 DEF Range
<1>13. QED
  BY <1>11, <1>12 DEF ListsOnce, u

LEMMA ListingsHold == Sampled("listing") /\ Listable(sample) => ListingsAreWhole
<1> SUFFICES ASSUME Listable(sample) PROVE ListingsAreWhole
  BY DEF ListingsAreWhole
<1> DEFINE table == sample.rows
           limit == sample.limit
           day == sample.day
           D == DOMAIN table
           any == [kinds |-> {}, statuses |-> {}, last_seen_from |-> None, last_seen_before |-> None]
           Found(query) == InPages(LAMBDA p : SearchEntities(table, query, p), table, limit)
           newest == InPages(LAMBDA p : ListEntities(table, p), table, limit)
           from == Found([any EXCEPT !.last_seen_from = day])
           before == Found([any EXCEPT !.last_seen_before = day])
           claims == InPages(LAMBDA p : ClaimsAbout(table, 1, p), table, limit)
           sightings == InPages(LAMBDA p : SightingsOf(table, 1, p), table, limit)
           edges == InPages(LAMBDA p : RelationshipsTouching(table, 1, p), table, limit)
<1>1. /\ D \in SUBSET Nat /\ IsFiniteSet(D) /\ limit \in Nat /\ day \in Nat /\ day # None
      /\ \A i \in D : table[i].last_seen \in Nat \union {None}
  BY DEF Listable
<1>2. ASSUME NEW query
      PROVE  LET ids == {i \in D : EntityMatches(query, table[i])} IN
             Found(query) = ById(ids) /\ ListsOnce(Found(query), ids) /\ Found(query) \in Seq(ids)
  <2> DEFINE ids == {i \in D : EntityMatches(query, table[i])}
  <2>1. Found(query) = FlattenSeq([n \in 1..Cardinality(D) + 1 |-> Fetched(ById(ids), PageNumber(limit, n - 1))])
    BY DEF InPages, SearchEntities, IdsMatching
  <2>2. ids \in SUBSET D
    OBVIOUS
  <2> HIDE DEF ids, D, limit, table
  <2>3. PagedOnce(D, ids, limit, ById(ids))
    BY <1>1, <2>2, ListedById
  <2>4. QED
    BY <2>1, <2>3 DEF PagedOnce, ids
<1>3. ListsOnce(newest, D) /\ \A i, j \in DOMAIN newest : i < j => Newer(table, newest[i], newest[j])
  <2> DEFINE listed == ByNewest(table, D)
  <2>1. newest = FlattenSeq([n \in 1..Cardinality(D) + 1 |-> Fetched(listed, PageNumber(limit, n - 1))])
    BY DEF InPages, ListEntities
  <2>2. /\ PagedOnce(D, D, limit, listed)
        /\ \A i, j \in DOMAIN listed : i < j => Newer(table, listed[i], listed[j])
    <3> HIDE DEF table, limit
    <3>1. QED
      BY <1>1, ListedByNewest
  <2> HIDE DEF listed, newest
  <2>3. newest = listed /\ ListsOnce(listed, D)
    BY <2>1, <2>2 DEF PagedOnce
  <2>4. QED
    BY <2>2, <2>3
<1>4. \A i, j \in DOMAIN newest : i < j =>
         \/ table[newest[j]].last_seen = None
         \/ table[newest[i]].last_seen # None /\ table[newest[i]].last_seen >= table[newest[j]].last_seen
  <2> HIDE DEF newest
  <2> TAKE i, j \in DOMAIN newest
  <2> HAVE i < j
  <2>1. Newer(table, newest[i], newest[j])
    BY <1>3
  <2>2. newest[i] \in D /\ newest[j] \in D
    BY <1>3 DEF ListsOnce, Range
  <2> DEFINE a == table[newest[i]].last_seen
             b == table[newest[j]].last_seen
  <2>3. a \in Nat \union {None} /\ b \in Nat \union {None}
    BY <1>1, <2>2
  <2>4. a = b \/ (a # None /\ (b = None \/ a > b))
    BY <2>1 DEF Newer
  <2> HIDE DEF a, b
  <2>5. b = None \/ (a # None /\ a >= b)
    BY <2>3, <2>4
  <2>6. QED
    BY <2>5 DEF a, b
<1>5. ListsOnce(Found(OnlyCurrent(any)), {i \in D : table[i].status \in CurrentStatuses})
  <2> DEFINE query == OnlyCurrent(any)
  <2>1. /\ query.kinds = {} /\ query.statuses = {} \union CurrentStatuses
        /\ query.last_seen_from = None /\ query.last_seen_before = None
    BY DEF OnlyCurrent
  <2>2. query.statuses = CurrentStatuses /\ CurrentStatuses # {}
    BY <2>1 DEF CurrentStatuses
  <2>3. \A e : EntityMatches(query, e) <=> e.status \in CurrentStatuses
    <3> HIDE DEF query
    <3>1. QED
      BY <2>1, <2>2 DEF EntityMatches, Selects, OnOrAfter, Before
  <2>4. {i \in D : EntityMatches(query, table[i])} = {i \in D : table[i].status \in CurrentStatuses}
    BY <2>3
  <2>5. ListsOnce(Found(query), {i \in D : EntityMatches(query, table[i])})
    BY <1>2
  <2>6. QED
    BY <2>4, <2>5
<1>6. ListsOnce(from \o before, {i \in D : table[i].last_seen # None})
  <2> DEFINE since == [any EXCEPT !.last_seen_from = day]
             until == [any EXCEPT !.last_seen_before = day]
             A == {i \in D : EntityMatches(since, table[i])}
             B == {i \in D : EntityMatches(until, table[i])}
             seen(i) == table[i].last_seen
  <2>1. /\ since.kinds = {} /\ since.statuses = {}
        /\ since.last_seen_from = day /\ since.last_seen_before = None
        /\ until.kinds = {} /\ until.statuses = {}
        /\ until.last_seen_from = None /\ until.last_seen_before = day
    OBVIOUS
  <2>2. Day(day) \in Nat
    BY <1>1 DEF Day, SlotsPerDay
  <2>3. \A i \in D : /\ i \in A <=> seen(i) # None /\ seen(i) >= Day(day)
                     /\ i \in B <=> seen(i) # None /\ seen(i) < Day(day)
    <3> HIDE DEF since, until, day, D
    <3>1. \A e : /\ EntityMatches(since, e) <=> e.last_seen # None /\ e.last_seen >= Day(day)
                 /\ EntityMatches(until, e) <=> e.last_seen # None /\ e.last_seen < Day(day)
      BY <1>1, <2>1 DEF EntityMatches, Selects, OnOrAfter, Before
    <3>2. QED
      BY <3>1
  <2>4. A \union B = {i \in D : table[i].last_seen # None} /\ A \cap B = {}
    <3>1. \A i \in D : seen(i) # None => (seen(i) >= Day(day) <=> ~ seen(i) < Day(day))
      BY <1>1, <2>2
    <3>2. A \subseteq D /\ B \subseteq D
      OBVIOUS
    <3> HIDE DEF A, B, D, day
    <3>3. QED
      BY <2>3, <3>1, <3>2
  <2>5. /\ from \in Seq(A) /\ ListsOnce(from, A)
        /\ before \in Seq(B) /\ ListsOnce(before, B)
    BY <1>2
  <2> HIDE DEF A, B, from, before
  <2>6. ListsOnce(from \o before, A \union B)
    BY <2>4, <2>5, OneThenTheOther
  <2>7. QED
    BY <2>4, <2>6
<1>7. ListsOnce(claims, {i \in D : table[i].subject = 1})
  <2> DEFINE ids == {i \in D : table[i].subject = 1}
  <2>1. claims = FlattenSeq([n \in 1..Cardinality(D) + 1 |-> Fetched(ById(ids), PageNumber(limit, n - 1))])
    BY DEF InPages, ClaimsAbout, IdsMatching
  <2>2. ids \in SUBSET D
    OBVIOUS
  <2> HIDE DEF ids, D, limit, table
  <2>3. PagedOnce(D, ids, limit, ById(ids))
    BY <1>1, <2>2, ListedById
  <2>4. QED
    BY <2>1, <2>3 DEF PagedOnce, ids
<1>8. ListsOnce(sightings, {i \in D : table[i].subject = 1})
  <2> DEFINE ids == {i \in D : table[i].subject = 1}
             listed == ByNewest(table, ids)
  <2>1. sightings = FlattenSeq([n \in 1..Cardinality(D) + 1 |-> Fetched(listed, PageNumber(limit, n - 1))])
    BY DEF InPages, SightingsOf
  <2>2. ids \in SUBSET D
    OBVIOUS
  <2>3. PagedOnce(D, ids, limit, listed)
    <3> HIDE DEF ids, table, limit
    <3>1. QED
      BY <1>1, <2>2, ListedByNewest
  <2> HIDE DEF ids, D, limit, table, listed
  <2>4. QED
    BY <2>1, <2>3 DEF PagedOnce, ids
<1>9. ListsOnce(edges, {i \in D : 1 \in {table[i].source, table[i].target}})
  <2> DEFINE ids == {i \in D : 1 \in {table[i].source, table[i].target}}
  <2>1. edges = FlattenSeq([n \in 1..Cardinality(D) + 1 |-> Fetched(ById(ids), PageNumber(limit, n - 1))])
    BY DEF InPages, RelationshipsTouching, IdsMatching
  <2>2. ids \in SUBSET D
    OBVIOUS
  <2> HIDE DEF ids, D, limit, table
  <2>3. PagedOnce(D, ids, limit, ById(ids))
    BY <1>1, <2>2, ListedById
  <2>4. QED
    BY <2>1, <2>3 DEF PagedOnce, ids
<1>10. QED
  BY <1>3, <1>4, <1>5, <1>6, <1>7, <1>8, <1>9, Zenon DEF ListingsAreWhole

LEMMA TablesOfSamples == SampleTaken => BlobsAreTheirs /\ ListingsAreWhole
<1> SUFFICES ASSUME SampleTaken PROVE BlobsAreTheirs /\ ListingsAreWhole
  OBVIOUS
<1>1. BlobsAreTheirs
  <2>1. CASE Sampled("blob")
    <3>1. Filed(sample.blob)
      BY <2>1, SamplesAssumption DEF SampleTaken, Sampled
    <3>2. QED
      BY <2>1, <3>1, BlobsRead
  <2>2. CASE ~Sampled("blob")
    BY <2>2 DEF BlobsAreTheirs
  <2>3. QED
    BY <2>1, <2>2
<1>2. ListingsAreWhole
  <2>1. CASE Sampled("listing")
    <3>1. Listable(sample)
      BY <2>1, SamplesAssumption DEF SampleTaken, Sampled
    <3>2. QED
      BY <2>1, <3>1, ListingsHold
  <2>2. CASE ~Sampled("listing")
    BY <2>2 DEF ListingsAreWhole
  <2>3. QED
    BY <2>1, <2>2
<1>3. QED
  BY <1>1, <1>2

LEMMA TablesStayKept ==
  /\ LawsInit => TablesKept
  /\ TablesKept /\ [LawsNext]_lawVars => TablesKept'
<1>1. LawsInit => TablesKept
  BY TablesInitially DEF LawsInit
<1>2. [LawsNext]_lawVars => [TablesNext]_tablesVars
  BY DEF LawsNext, lawVars, TakeSample, Identifies, Tabulates, Guarding, Builds, Walks
<1>3. QED
  BY <1>1, <1>2, TablesStep

(* However many calls there were, about whatever was called: a failure met *)
(* again is one row that adds up (sqlite.rs:1664), no actor's decision is  *)
(* another's to overwrite (decision.rs:55), a metric counts a bounded      *)
(* number of values and each of those every time (audit.rs:316), and a     *)
(* checkpoint is the last put under its name (sqlite.rs:1711).  Of any     *)
(* blob: what is read is what was filed, or nothing (sqlite.rs:676).  Of   *)
(* any table and any limit of a page: the pages of a listing are of every  *)
(* row it has to list, once (store.rs:171).                                *)
THEOREM TablesAnswer == LawsSpec => []TablesAnswerForCalls
<1>1. TablesKept /\ SampleTaken => TablesAnswerForCalls
  BY TablesAnswerWell, TablesOfSamples DEF TablesAnswerForCalls
<1>2. QED
  BY <1>1, TablesStayKept, SamplesStay, PTL DEF LawsSpec
-----------------------------------------------------------------------------
(* The text of a number: digits, and another text for another number.      *)
Digits == {"0", "1", "2", "3", "4", "5", "6", "7", "8", "9"}
DigitOf(k) == <<"0", "1", "2", "3", "4", "5", "6", "7", "8", "9">>[k + 1]

IsText(n, f) ==
  f = [k \in 0..n |-> IF k < 10 THEN <<DigitOf(k)>> ELSE Append(f[k \div 10], DigitOf(k % 10))]

LEMMA DigitFacts ==
  /\ \A k \in 0..9 : DigitOf(k) \in Digits
  /\ \A j, k \in 0..9 : DigitOf(j) = DigitOf(k) => j = k
<1>1. /\ DigitOf(0) = "0" /\ DigitOf(1) = "1" /\ DigitOf(2) = "2" /\ DigitOf(3) = "3"
      /\ DigitOf(4) = "4" /\ DigitOf(5) = "5" /\ DigitOf(6) = "6" /\ DigitOf(7) = "7"
      /\ DigitOf(8) = "8" /\ DigitOf(9) = "9"
  BY DEF DigitOf
<1>2. \A k \in 0..9 : k \in {0, 1, 2, 3, 4, 5, 6, 7, 8, 9}
  OBVIOUS
<1>3. \A k \in 0..9 : DigitOf(k) \in Digits
  BY <1>1, <1>2 DEF Digits
<1>4. \A j, k \in 0..9 : DigitOf(j) = DigitOf(k) => j = k
  BY <1>1, <1>2
<1>5. QED
  BY <1>3, <1>4

LEMMA Division ==
  ASSUME NEW n \in Nat
  PROVE  /\ n \div 10 \in Nat /\ n % 10 \in 0..9 /\ n = 10 * (n \div 10) + (n % 10)
         /\ n >= 10 => n \div 10 < n
         /\ n < 10 => n % 10 = n
OBVIOUS

LEMMA TextThere ==
  ASSUME NEW n \in Nat
  PROVE  \E f : IsText(n, f)
<1> DEFINE S == {k \in Nat : \E f : IsText(k, f)}
<1>1. 0 \in S
  <2> DEFINE f == [k \in 0..0 |-> <<DigitOf(k)>>]
  <2>1. IsText(0, f)
    <3>1. \A k \in 0..0 : f[k] = IF k < 10 THEN <<DigitOf(k)>> ELSE Append(f[k \div 10], DigitOf(k % 10))
      OBVIOUS
    <3>2. QED
      BY <3>1 DEF IsText
  <2>2. QED
    BY <2>1
<1>2. ASSUME NEW m \in Nat, m \in S
      PROVE  m + 1 \in S
  <2>1. PICK f : IsText(m, f)
    BY <1>2
  <2> DEFINE Next1(g, k) == IF k < 10 THEN <<DigitOf(k)>> ELSE Append(g[k \div 10], DigitOf(k % 10))
             g == [k \in 0..(m + 1) |-> IF k = m + 1 THEN Next1(f, m + 1) ELSE f[k]]
  <2>2. \A k \in 0..m : g[k] = f[k]
    OBVIOUS
  <2>3. \A k \in 0..m : f[k] = Next1(f, k)
    BY <2>1 DEF IsText
  <2>4. ASSUME NEW k \in 0..(m + 1)
        PROVE  g[k] = Next1(g, k)
    <3>1. CASE k < 10
      <4>1. CASE k = m + 1
        BY <3>1, <4>1
      <4>2. CASE k # m + 1
        <5>1. k \in 0..m
          BY <4>2
        <5>2. g[k] = f[k] /\ f[k] = Next1(f, k)
          BY <2>2, <2>3, <5>1
        <5>3. QED
          BY <3>1, <5>2
      <4>3. QED
        BY <4>1, <4>2
    <3>2. CASE ~(k < 10)
      <4>1. k \div 10 \in 0..m
        BY <3>2, Division
      <4>2. g[k \div 10] = f[k \div 10]
        BY <2>2, <4>1
      <4>3. Next1(g, k) = Next1(f, k)
        BY <4>2
      <4>4. g[k] = Next1(f, k)
        <5>1. CASE k = m + 1
          BY <5>1
        <5>2. CASE k # m + 1
          <6>1. k \in 0..m
            BY <5>2
          <6>2. QED
            BY <2>2, <2>3, <6>1
        <5>3. QED
          BY <5>1, <5>2
      <4>5. QED
        BY <4>3, <4>4
    <3>3. QED
      BY <3>1, <3>2
  <2>5. g = [k \in 0..(m + 1) |-> Next1(g, k)]
    <3> DEFINE h == [k \in 0..(m + 1) |-> Next1(g, k)]
    <3>1. g = [k \in 0..(m + 1) |-> g[k]]
      OBVIOUS
    <3>2. \A k \in 0..(m + 1) : g[k] = h[k]
      BY <2>4
    <3>3. h = [k \in 0..(m + 1) |-> h[k]]
      OBVIOUS
    <3> HIDE DEF g, h
    <3>4. g = h
      BY <3>1, <3>2, <3>3
    <3>5. QED
      BY <3>4 DEF h
  <2>6. IsText(m + 1, g)
    <3> HIDE DEF g
    <3>1. QED
      BY <2>5 DEF IsText
  <2>7. QED
    <3> HIDE DEF g
    <3>1. QED
      BY <2>6
<1>3. n \in S
  <2> HIDE DEF S
  <2>1. QED
    BY <1>1, <1>2, InductionBySet
<1>4. QED
  BY <1>3

LEMMA TextsAgree ==
  ASSUME NEW m \in Nat, NEW n \in Nat, NEW f, NEW g, IsText(m, f), IsText(n, g), m <= n
  PROVE  f[m] = g[m]
<1> DEFINE S == {k \in 0..m : f[k] # g[k]}
<1>1. ASSUME S # {} PROVE FALSE
  <2>1. S \subseteq Nat
    OBVIOUS
  <2>2. PICK k \in S : \A j \in S : k <= j
    <3> HIDE DEF S
    <3>1. QED
      BY <1>1, <2>1, LeastNumber
  <2>3. k \in 0..m /\ k \in 0..n /\ f[k] # g[k]
    OBVIOUS
  <2>4. /\ f[k] = IF k < 10 THEN <<DigitOf(k)>> ELSE Append(f[k \div 10], DigitOf(k % 10))
        /\ g[k] = IF k < 10 THEN <<DigitOf(k)>> ELSE Append(g[k \div 10], DigitOf(k % 10))
    <3>1. \A i \in 0..m : f[i] = IF i < 10 THEN <<DigitOf(i)>> ELSE Append(f[i \div 10], DigitOf(i % 10))
      BY DEF IsText
    <3>2. \A i \in 0..n : g[i] = IF i < 10 THEN <<DigitOf(i)>> ELSE Append(g[i \div 10], DigitOf(i % 10))
      BY DEF IsText
    <3>3. QED
      BY <2>3, <3>1, <3>2
  <2>5. ~(k < 10)
    BY <2>3, <2>4
  <2>6. k \div 10 \in 0..m /\ k \div 10 < k
    BY <2>3, <2>5, Division
  <2>7. k \div 10 \notin S
    BY <2>2, <2>3, <2>6
  <2>8. f[k \div 10] = g[k \div 10]
    BY <2>6, <2>7
  <2>9. QED
    BY <2>3, <2>4, <2>5, <2>8
<1>2. m \in 0..m
  OBVIOUS
<1>3. QED
  BY <1>1, <1>2

(* The text of a number is that of its tenth and a digit.                  *)
LEMMA DecimalIs ==
  ASSUME NEW n \in Nat
  PROVE  Decimal(n) = IF n < 10 THEN <<DigitOf(n)>>
                      ELSE Append(Decimal(n \div 10), DigitOf(n % 10))
<1> DEFINE Text(m) == CHOOSE f : IsText(m, f)
<1>1. ASSUME NEW m \in Nat
      PROVE  IsText(m, Text(m)) /\ Decimal(m) = Text(m)[m]
  <2>1. IsText(m, Text(m))
    BY TextThere
  <2>2. Decimal(m) = Text(m)[m]
    BY DEF Decimal, IsText, DigitOf
  <2>3. QED
    BY <2>1, <2>2
<1> HIDE DEF Text
<1>2. Text(n)[n] = IF n < 10 THEN <<DigitOf(n)>> ELSE Append(Text(n)[n \div 10], DigitOf(n % 10))
  <2> DEFINE f == Text(n)
  <2>1. f = [k \in 0..n |-> IF k < 10 THEN <<DigitOf(k)>> ELSE Append(f[k \div 10], DigitOf(k % 10))]
    BY <1>1 DEF IsText
  <2>2. n \in 0..n
    OBVIOUS
  <2> HIDE DEF f
  <2>3. f[n] = IF n < 10 THEN <<DigitOf(n)>> ELSE Append(f[n \div 10], DigitOf(n % 10))
    BY <2>1, <2>2
  <2>4. QED
    BY <2>3 DEF f
<1>3. CASE n < 10
  BY <1>1, <1>2, <1>3
<1>4. CASE ~(n < 10)
  <2>1. n \div 10 \in Nat /\ n \div 10 <= n
    BY <1>4, Division
  <2> DEFINE m == n \div 10
  <2>2. m \in Nat /\ m <= n
    BY <2>1
  <2> HIDE DEF m
  <2>3. Text(m)[m] = Text(n)[m]
    BY <1>1, <2>2, TextsAgree
  <2>4. Decimal(m) = Text(n)[m]
    BY <1>1, <2>2, <2>3
  <2>5. Decimal(n \div 10) = Text(n)[n \div 10]
    BY <2>4 DEF m
  <2>6. QED
    BY <1>1, <1>2, <1>4, <2>5
<1>5. QED
  BY <1>3, <1>4

LEMMA DecimalOfOne ==
  ASSUME NEW n \in Nat, n < 10
  PROVE  Decimal(n) = <<DigitOf(n)>>
BY DecimalIs

LEMMA DecimalFacts ==
  ASSUME NEW n \in Nat
  PROVE  Decimal(n) \in Seq(Digits) /\ Len(Decimal(n)) > 0 /\ (n >= 10 => Len(Decimal(n)) > 1)
<1> DEFINE Good(k) == Decimal(k) \in Seq(Digits) /\ Len(Decimal(k)) > 0
           S == {k \in Nat : ~Good(k)}
<1>1. ASSUME S # {} PROVE FALSE
  <2>1. PICK k \in S : \A j \in S : k <= j
    <3>1. S \subseteq Nat
      OBVIOUS
    <3> HIDE DEF S
    <3>2. QED
      BY <1>1, <3>1, LeastNumber
  <2>2. CASE k < 10
    <3>1. Decimal(k) = <<DigitOf(k)>>
      BY <2>2, DecimalIs
    <3>2. DigitOf(k) \in Digits
      BY <2>2, DigitFacts
    <3>3. Good(k)
      BY <3>1, <3>2
    <3>4. QED
      BY <3>3
  <2>3. CASE ~(k < 10)
    <3>1. Decimal(k) = Append(Decimal(k \div 10), DigitOf(k % 10))
      BY <2>3, DecimalIs
    <3>2. k \div 10 \in Nat /\ k \div 10 < k /\ k % 10 \in 0..9
      BY <2>3, Division
    <3>3. Good(k \div 10)
      BY <2>1, <3>2
    <3>4. DigitOf(k % 10) \in Digits
      BY <3>2, DigitFacts
    <3>5. Good(k)
      BY <3>1, <3>3, <3>4
    <3>6. QED
      BY <3>5
  <2>4. QED
    BY <2>2, <2>3
<1>2. Good(n)
  BY <1>1
<1>3. ASSUME n >= 10
      PROVE  Len(Decimal(n)) > 1
  <2>1. Decimal(n) = Append(Decimal(n \div 10), DigitOf(n % 10)) /\ n \div 10 \in Nat
    BY <1>3, DecimalIs, Division
  <2>2. Good(n \div 10)
    BY <1>1, <2>1
  <2>3. QED
    BY <2>1, <2>2
<1>4. QED
  BY <1>2, <1>3

LEMMA SameAppended ==
  ASSUME NEW s \in Seq(Digits), NEW t \in Seq(Digits), NEW x, NEW y, Append(s, x) = Append(t, y)
  PROVE  s = t /\ x = y
<1>1. Len(Append(s, x)) = Len(s) + 1 /\ Len(Append(t, y)) = Len(t) + 1
  OBVIOUS
<1>2. Len(s) = Len(t)
  BY <1>1
<1>3. x = Append(s, x)[Len(s) + 1] /\ y = Append(t, y)[Len(t) + 1]
  OBVIOUS
<1>4. x = y
  BY <1>2, <1>3
<1>5. ASSUME NEW k \in 1..Len(t)
      PROVE  s[k] = t[k]
  <2>1. Append(s, x)[k] = s[k] /\ Append(t, y)[k] = t[k]
    BY <1>2
  <2>2. QED
    BY <2>1
<1>6. s = t
  BY <1>2, <1>5, SameEntries
<1>7. QED
  BY <1>4, <1>6

LEMMA DecimalTells ==
  ASSUME NEW n \in Nat, NEW m \in Nat, Decimal(n) = Decimal(m)
  PROVE  n = m
<1> DEFINE S == {k \in Nat : \E j \in Nat : j # k /\ Decimal(k) = Decimal(j)}
<1>1. ASSUME S # {} PROVE FALSE
  <2>1. PICK k \in Nat : k \in S /\ \A i \in S : k <= i
    <3>1. S \subseteq Nat
      OBVIOUS
    <3> HIDE DEF S
    <3>2. PICK i \in S : \A l \in S : i <= l
      BY <1>1, <3>1, LeastNumber
    <3>3. QED
      BY <3>1, <3>2
  <2>2. PICK j \in Nat : j # k /\ Decimal(k) = Decimal(j)
    BY <2>1
  <2>8. \A i \in Nat : i < k => i \notin S
    BY <2>1
  <2> DEFINE same == Decimal(k)
  <2>7. same = Decimal(k) /\ same = Decimal(j)
    BY <2>2
  <2> HIDE DEF S, same
  <2>6. k < 10 <=> j < 10
    <3>1. k < 10 => Len(same) = 1
      <4>1. ASSUME k < 10 PROVE Decimal(k) = <<DigitOf(k)>>
        BY <4>1, DecimalOfOne
      <4>2. QED
        BY <2>7, <4>1
    <3>2. j < 10 => Len(same) = 1
      <4>1. ASSUME j < 10 PROVE Decimal(j) = <<DigitOf(j)>>
        BY <4>1, DecimalOfOne
      <4>2. QED
        BY <2>7, <4>1
    <3>3. k >= 10 => Len(same) > 1
      BY <2>7, DecimalFacts
    <3>4. j >= 10 => Len(same) > 1
      BY <2>7, DecimalFacts
    <3> DEFINE l == Len(same)
    <3>5. /\ k < 10 => l = 1
          /\ j < 10 => l = 1
          /\ k >= 10 => l > 1
          /\ j >= 10 => l > 1
      BY <3>1, <3>2, <3>3, <3>4
    <3> HIDE DEF l
    <3>6. QED
      BY <3>5
  <2>3. CASE k < 10
    <3>1. j < 10
      BY <2>3, <2>6
    <3>2. Decimal(k) = <<DigitOf(k)>> /\ Decimal(j) = <<DigitOf(j)>>
      <4>1. Decimal(k) = <<DigitOf(k)>>
        BY <2>3, DecimalOfOne
      <4>2. Decimal(j) = <<DigitOf(j)>>
        BY <3>1, DecimalOfOne
      <4>3. QED
        BY <4>1, <4>2
    <3>3. DigitOf(k) = DigitOf(j)
      <4> DEFINE x == DigitOf(k)  y == DigitOf(j)
      <4>1. <<x>> = <<y>>
        BY <2>2, <3>2
      <4> HIDE DEF x, y
      <4>2. x = y
        BY <4>1
      <4>3. QED
        BY <4>2 DEF x, y
    <3>4. k \in 0..9 /\ j \in 0..9
      BY <2>3, <3>1
    <3>5. QED
      BY <2>2, <3>3, <3>4, DigitFacts
  <2>4. CASE ~(k < 10)
    <3>1. ~(j < 10)
      BY <2>4, <2>6
    <3> DEFINE a == k \div 10  b == j \div 10
    <3>2. /\ a \in Nat /\ b \in Nat /\ a < k
          /\ k = 10 * a + (k % 10) /\ j = 10 * b + (j % 10) /\ k % 10 \in 0..9 /\ j % 10 \in 0..9
      BY <2>4, <3>1, Division
    <3>3. Append(Decimal(a), DigitOf(k % 10)) = Append(Decimal(b), DigitOf(j % 10))
      <4>1. Decimal(k) = Append(Decimal(a), DigitOf(k % 10))
        BY <2>4, DecimalIs
      <4>2. Decimal(j) = Append(Decimal(b), DigitOf(j % 10))
        BY <3>1, DecimalIs
      <4>3. QED
        BY <2>2, <4>1, <4>2
    <3> HIDE DEF a, b
    <3>4. Decimal(a) \in Seq(Digits) /\ Decimal(b) \in Seq(Digits)
      BY <3>2, DecimalFacts
    <3>5. Decimal(a) = Decimal(b) /\ DigitOf(k % 10) = DigitOf(j % 10)
      BY <3>3, <3>4, SameAppended
    <3>6. a \notin S
      BY <2>8, <3>2
    <3>7. a = b
      BY <3>2, <3>5, <3>6 DEF S
    <3>8. k % 10 = j % 10
      BY <3>2, <3>5, DigitFacts
    <3>9. QED
      BY <2>2, <3>2, <3>7, <3>8
  <2>5. QED
    BY <2>3, <2>4
<1>2. QED
  BY <1>1

-----------------------------------------------------------------------------
(* Names: what is before the colon says how long what is after it is.      *)
LEMMA JoinedFacts ==
  ASSUME NEW S, NEW s \in Seq(S), NEW t \in Seq(S)
  PROVE  /\ s \o t \in Seq(S) /\ Len(s \o t) = Len(s) + Len(t)
         /\ \A k \in 1..Len(s) : (s \o t)[k] = s[k]
         /\ \A k \in 1..Len(t) : (s \o t)[Len(s) + k] = t[k]
<1>1. s \o t \in Seq(S) /\ Len(s \o t) = Len(s) + Len(t)
  OBVIOUS
<1>2. ASSUME NEW k \in 1..Len(s)
      PROVE  (s \o t)[k] = s[k]
  OBVIOUS
<1>3. ASSUME NEW k \in 1..Len(t)
      PROVE  (s \o t)[Len(s) + k] = t[k]
  OBVIOUS
<1>4. QED
  BY <1>1, <1>2, <1>3

Marks(C) == C \union Digits \union {":"}

LEMMA PrefixedFacts ==
  ASSUME NEW C, NEW p \in Seq(C)
  PROVE  LET d == Decimal(Len(p)) IN
         /\ Prefixed(p) \in Seq(Marks(C)) /\ Len(Prefixed(p)) = Len(d) + 1 + Len(p)
         /\ \A k \in 1..Len(d) : Prefixed(p)[k] = d[k]
         /\ Prefixed(p)[Len(d) + 1] = ":"
         /\ \A k \in 1..Len(p) : Prefixed(p)[Len(d) + 1 + k] = p[k]
<1> DEFINE d == Decimal(Len(p))
           M == Marks(C)
           colon == <<":">>
           front == d \o colon
           whole == front \o p
<1>1. d \in Seq(Digits) /\ Len(p) \in Nat
  BY DecimalFacts
<1>2. d \in Seq(M) /\ colon \in Seq(M) /\ p \in Seq(M) /\ Len(colon) = 1 /\ colon[1] = ":"
  <2>1. Digits \subseteq M /\ C \subseteq M /\ ":" \in M
    BY DEF Marks
  <2> HIDE DEF d, M
  <2>2. QED
    BY <1>1, <2>1
<1>3. Prefixed(p) = whole
  BY DEF Prefixed
<1> HIDE DEF d, M, colon, front, whole
<1>4. /\ front \in Seq(M) /\ Len(front) = Len(d) + 1
      /\ \A k \in 1..Len(d) : front[k] = d[k]
      /\ front[Len(d) + 1] = ":"
  <2>1. /\ front \in Seq(M) /\ Len(front) = Len(d) + Len(colon)
        /\ \A k \in 1..Len(d) : front[k] = d[k]
        /\ \A k \in 1..Len(colon) : front[Len(d) + k] = colon[k]
    <3>1. d \in Seq(M) /\ colon \in Seq(M)
      BY <1>2
    <3>2. /\ d \o colon \in Seq(M) /\ Len(d \o colon) = Len(d) + Len(colon)
          /\ \A k \in 1..Len(d) : (d \o colon)[k] = d[k]
          /\ \A k \in 1..Len(colon) : (d \o colon)[Len(d) + k] = colon[k]
      BY ONLY <3>1, JoinedFacts
    <3>3. QED
      BY <3>2, Zenon DEF front
  <2>2. 1 \in 1..Len(colon)
    BY <1>2
  <2>3. QED
    BY <1>2, <2>1, <2>2
<1>5. /\ whole \in Seq(M) /\ Len(whole) = Len(front) + Len(p)
      /\ \A k \in 1..Len(front) : whole[k] = front[k]
      /\ \A k \in 1..Len(p) : whole[Len(front) + k] = p[k]
  <2>1. front \in Seq(M) /\ p \in Seq(M)
    BY <1>2, <1>4
  <2>2. /\ front \o p \in Seq(M) /\ Len(front \o p) = Len(front) + Len(p)
        /\ \A k \in 1..Len(front) : (front \o p)[k] = front[k]
        /\ \A k \in 1..Len(p) : (front \o p)[Len(front) + k] = p[k]
    BY ONLY <2>1, JoinedFacts
  <2>3. QED
    BY <2>2, Zenon DEF whole
<1>6. Len(d) \in Nat
  BY <1>1
<1>7. whole \in Seq(M) /\ Len(whole) = Len(d) + 1 + Len(p)
  BY <1>1, <1>4, <1>5
<1>8. ASSUME NEW k \in 1..Len(d)
      PROVE  whole[k] = d[k]
  <2>1. k \in 1..Len(front)
    BY <1>4, <1>6
  <2>2. QED
    BY <1>4, <1>5, <2>1
<1>9. whole[Len(d) + 1] = ":"
  <2>1. Len(d) + 1 \in 1..Len(front)
    BY <1>4, <1>6
  <2>2. QED
    BY <1>4, <1>5, <2>1
<1>10. ASSUME NEW k \in 1..Len(p)
       PROVE  whole[Len(d) + 1 + k] = p[k]
  BY <1>4, <1>5
<1>11. QED
  BY <1>3, <1>7, <1>8, <1>9, <1>10 DEF d, M

(* As far as two prefixed parts go together they are the same.             *)
LEMMA PrefixesTell ==
  ASSUME NEW C, NEW p \in Seq(C), NEW q \in Seq(C),
         \A k \in Nat \ {0} : k <= Len(Prefixed(p)) /\ k <= Len(Prefixed(q)) => Prefixed(p)[k] = Prefixed(q)[k]
  PROVE  p = q
<1> DEFINE d == Decimal(Len(p))  e == Decimal(Len(q))
           b == Prefixed(p)  c == Prefixed(q)
           m == Len(d)  n == Len(e)
<1>1. d \in Seq(Digits) /\ e \in Seq(Digits) /\ Len(p) \in Nat /\ Len(q) \in Nat
  <2>1. Len(p) \in Nat /\ Len(q) \in Nat
    OBVIOUS
  <2>2. d \in Seq(Digits)
    BY <2>1, DecimalFacts
  <2>3. e \in Seq(Digits)
    BY <2>1, DecimalFacts
  <2>4. QED
    BY <2>1, <2>2, <2>3
<1>2. /\ Len(b) = m + 1 + Len(p) /\ b[m + 1] = ":"
      /\ \A k \in 1..m : b[k] = d[k]
      /\ \A k \in 1..Len(p) : b[m + 1 + k] = p[k]
  BY PrefixedFacts
<1>3. /\ Len(c) = n + 1 + Len(q) /\ c[n + 1] = ":"
      /\ \A k \in 1..n : c[k] = e[k]
      /\ \A k \in 1..Len(q) : c[n + 1 + k] = q[k]
  BY PrefixedFacts
<1>4. \A k \in Nat \ {0} : k <= Len(b) /\ k <= Len(c) => b[k] = c[k]
  OBVIOUS
<1>5. m \in Nat /\ n \in Nat
  BY <1>1
<1>6. (\A k \in 1..m : d[k] # ":") /\ (\A k \in 1..n : e[k] # ":")
  <2>1. (\A k \in 1..m : d[k] \in Digits) /\ (\A k \in 1..n : e[k] \in Digits)
    BY <1>1
  <2>2. ":" \notin Digits
    BY DEF Digits
  <2> HIDE DEF d, e, m, n
  <2>3. QED
    BY <2>1, <2>2
<1> HIDE DEF b, c, d, e, m, n
<1>7. ~(m < n)
  <2> SUFFICES ASSUME m < n PROVE FALSE
    OBVIOUS
  <2>1. m + 1 \in 1..n /\ m + 1 \in Nat \ {0} /\ m + 1 <= Len(b) /\ m + 1 <= Len(c)
    BY <1>1, <1>2, <1>3, <1>5
  <2>2. b[m + 1] = c[m + 1]
    BY <1>4, <2>1
  <2>3. c[m + 1] = e[m + 1] /\ e[m + 1] # ":"
    BY <1>3, <1>6, <2>1
  <2>4. QED
    BY <1>2, <2>2, <2>3
<1>8. ~(n < m)
  <2> SUFFICES ASSUME n < m PROVE FALSE
    OBVIOUS
  <2>1. n + 1 \in 1..m /\ n + 1 \in Nat \ {0} /\ n + 1 <= Len(b) /\ n + 1 <= Len(c)
    BY <1>1, <1>2, <1>3, <1>5
  <2>2. b[n + 1] = c[n + 1]
    BY <1>4, <2>1
  <2>3. b[n + 1] = d[n + 1] /\ d[n + 1] # ":"
    BY <1>2, <1>6, <2>1
  <2>4. QED
    BY <1>3, <2>2, <2>3
<1>9. m = n
  BY <1>5, <1>7, <1>8
<1>10. ASSUME NEW k \in 1..n
       PROVE  d[k] = e[k]
  <2>1. k \in Nat \ {0} /\ k <= Len(b) /\ k <= Len(c) /\ k \in 1..m
    BY <1>1, <1>2, <1>3, <1>5, <1>9
  <2>2. b[k] = c[k]
    BY <1>4, <2>1
  <2>3. QED
    BY <1>2, <1>3, <2>1, <2>2
<1>11. d = e
  <2>1. Len(d) = Len(e) /\ \A k \in 1..Len(e) : d[k] = e[k]
    BY <1>9, <1>10 DEF m, n
  <2>2. QED
    BY <1>1, <2>1, SameEntries
<1>12. Len(p) = Len(q)
  <2>1. Decimal(Len(p)) = Decimal(Len(q))
    BY <1>11 DEF d, e
  <2>2. QED
    BY <1>1, <2>1, DecimalTells
<1>13. ASSUME NEW k \in 1..Len(q)
       PROVE  p[k] = q[k]
  <2> DEFINE o == m + 1 + k
  <2>1. o \in Nat \ {0} /\ o <= Len(b) /\ o <= Len(c) /\ k \in 1..Len(p)
    BY <1>1, <1>2, <1>3, <1>5, <1>9, <1>12
  <2>2. b[o] = p[k] /\ c[o] = q[k]
    BY <1>2, <1>3, <1>9, <2>1
  <2> HIDE DEF o
  <2>3. QED
    BY <1>4, <2>1, <2>2
<1>14. QED
  BY <1>12, <1>13, SameEntries

(* A sequence of sequences one after the other, and each beginning of it.  *)
Flattens(F, seqs) ==
  /\ F[0] = <<>> /\ \A k \in 1..Len(seqs) : F[k] = F[k - 1] \o seqs[k]
  /\ F[Len(seqs)] = FlattenSeq(seqs)

LEMMA FlattenFacts ==
  ASSUME NEW S, NEW seqs \in Seq(Seq(S))
  PROVE  \E F \in [0..Len(seqs) -> Seq(S)] : Flattens(F, seqs)
<1> DEFINE N == Len(seqs)
           step == [x \in Seq(S) \X (1..N) |-> x[1] \o seqs[x[2]]]
           Equation(f) == f = [i \in 1..N |-> IF i = 1 THEN seqs[i] ELSE f[i - 1] \o seqs[i]]
           chosen == CHOOSE f : Equation(f)
<1>1. N \in Nat /\ \A k \in 1..N : seqs[k] \in Seq(S)
  OBVIOUS
<1>2. step \in [Seq(S) \X (1..N) -> Seq(S)]
  <2>1. ASSUME NEW x \in Seq(S) \X (1..N)
        PROVE  x[1] \o seqs[x[2]] \in Seq(S)
    <3>1. x[1] \in Seq(S) /\ seqs[x[2]] \in Seq(S)
      BY <1>1
    <3>2. QED
      BY <3>1
  <2>2. QED
    BY <2>1
<1>3. <<>> \in Seq(S)
  OBVIOUS
<1>4. PICK F \in [0..N -> Seq(S)] : Iterates(F, N, <<>>, step)
  <2> HIDE DEF N, step
  <2>1. QED
    BY <1>1, <1>2, <1>3, Recursion
<1>5. ASSUME NEW k \in 1..N
      PROVE  F[k] = F[k - 1] \o seqs[k]
  <2>1. F[k - 1] \in Seq(S)
    <3>1. k - 1 \in 0..N
      BY <1>1
    <3>2. QED
      BY <3>1
  <2> DEFINE x == <<F[k - 1], k>>
  <2>2. x \in Seq(S) \X (1..N) /\ x[1] = F[k - 1] /\ x[2] = k
    BY <2>1
  <2>3. F[k] = step[x]
    BY <1>4 DEF Iterates
  <2> HIDE DEF x
  <2>4. step[x] = x[1] \o seqs[x[2]]
    BY <2>2
  <2>5. QED
    BY <2>2, <2>3, <2>4
<1>6. F[0] = <<>>
  BY <1>4 DEF Iterates
<1>7. FlattenSeq(seqs) = IF N = 0 THEN seqs ELSE chosen[N]
  BY DEF FlattenSeq
<1> HIDE DEF step, N
<1> DEFINE g == [i \in 1..N |-> F[i]]
<1>8. Equation(g)
  <2>1. ASSUME NEW i \in 1..N
        PROVE  g[i] = IF i = 1 THEN seqs[i] ELSE g[i - 1] \o seqs[i]
    <3>1. g[i] = F[i - 1] \o seqs[i]
      BY <1>5
    <3>2. CASE i = 1
      <4>1. F[i - 1] = <<>> /\ seqs[i] \in Seq(S)
        BY <1>1, <1>6, <3>2
      <4>2. <<>> \o seqs[i] = seqs[i]
        BY <4>1
      <4>3. QED
        BY <3>1, <3>2, <4>1, <4>2
    <3>3. CASE i # 1
      <4>1. i - 1 \in 1..N
        BY <1>1, <3>3
      <4>2. g[i - 1] = F[i - 1]
        BY <4>1
      <4>3. QED
        BY <3>1, <3>3, <4>2
    <3>4. QED
      BY <3>2, <3>3
  <2> DEFINE h == [i \in 1..N |-> IF i = 1 THEN seqs[i] ELSE g[i - 1] \o seqs[i]]
  <2>2. \A i \in 1..N : g[i] = h[i]
    BY <2>1
  <2>3. g = [i \in 1..N |-> g[i]] /\ h = [i \in 1..N |-> h[i]]
    OBVIOUS
  <2>4. g = h
    <3> HIDE DEF g, h
    <3>1. QED
      BY <2>2, <2>3
  <2>5. QED
    BY <2>4
<1> HIDE DEF g
<1>9. Equation(chosen)
  <2> HIDE DEF Equation
  <2>1. QED
    BY <1>8
<1> HIDE DEF chosen
<1>10. \A i \in 1..N : chosen[i] = IF i = 1 THEN seqs[i] ELSE chosen[i - 1] \o seqs[i]
  BY <1>9
<1> DEFINE T == {k \in Nat : k + 1 <= N => chosen[k + 1] = F[k + 1]}
<1>11. 0 \in T
  <2> SUFFICES ASSUME 1 <= N PROVE chosen[1] = F[1]
    OBVIOUS
  <2>1. 1 \in 1..N
    BY <1>1
  <2>2. chosen[1] = seqs[1]
    BY <1>10, <2>1
  <2>3. F[1] = F[0] \o seqs[1] /\ seqs[1] \in Seq(S)
    <3>1. F[1] = F[1 - 1] \o seqs[1] /\ seqs[1] \in Seq(S)
      BY <1>1, <1>5, <2>1, Zenon
    <3>2. 1 - 1 = 0
      OBVIOUS
    <3>3. QED
      BY <3>1, <3>2
  <2>4. <<>> \o seqs[1] = seqs[1]
    BY <2>3
  <2>5. QED
    BY <1>6, <2>2, <2>3, <2>4
<1>12. ASSUME NEW k \in Nat, k \in T
       PROVE  k + 1 \in T
  <2> DEFINE i == (k + 1) + 1
  <2> SUFFICES ASSUME i <= N PROVE chosen[i] = F[i]
    OBVIOUS
  <2>1. i \in 1..N /\ i # 1 /\ i - 1 = k + 1 /\ k + 1 <= N
    BY <1>1
  <2>2. chosen[i - 1] = F[i - 1]
    BY <1>12, <2>1
  <2> HIDE DEF i
  <2>3. chosen[i] = chosen[i - 1] \o seqs[i]
    BY <1>10, <2>1
  <2>4. F[i] = F[i - 1] \o seqs[i]
    BY <1>5, <2>1
  <2>5. QED
    BY <2>2, <2>3, <2>4
<1>13. F[N] = FlattenSeq(seqs)
  <2>1. CASE N = 0
    <3>1. seqs = <<>>
      BY <2>1 DEF N
    <3>2. QED
      BY <1>6, <1>7, <2>1, <3>1
  <2>2. CASE N # 0
    <3> DEFINE k == N - 1
    <3>1. k \in Nat /\ k + 1 = N
      BY <1>1, <2>2
    <3> HIDE DEF k
    <3>2. k \in T
      <4> HIDE DEF T
      <4>1. QED
        BY <1>11, <1>12, <3>1, InductionBySet
    <3>3. chosen[k + 1] = F[k + 1]
      BY <1>1, <3>1, <3>2
    <3>4. QED
      BY <1>7, <2>2, <3>1, <3>3
  <2>3. QED
    BY <2>1, <2>2
<1>14. Flattens(F, seqs)
  BY <1>5, <1>6, <1>13 DEF Flattens, N
<1>15. QED
  BY <1>14 DEF N

(* What has been written stays at the beginning of what is written.        *)
LEMMA FlattenGrows ==
  ASSUME NEW S, NEW seqs \in Seq(Seq(S)), NEW F \in [0..Len(seqs) -> Seq(S)], Flattens(F, seqs),
         NEW i \in 0..Len(seqs)
  PROVE  /\ Len(F[i]) <= Len(FlattenSeq(seqs))
         /\ \A k \in 1..Len(F[i]) : FlattenSeq(seqs)[k] = F[i][k]
<1> DEFINE N == Len(seqs)
           Begins(j) == Len(F[i]) <= Len(F[j]) /\ \A k \in 1..Len(F[i]) : F[j][k] = F[i][k]
           T == {n \in Nat : i + n <= N => Begins(i + n)}
<1>1. N \in Nat /\ i \in Nat /\ i <= N
  OBVIOUS
<1>2. \A j \in 0..N : F[j] \in Seq(S)
  OBVIOUS
<1>3. ASSUME NEW j \in 1..N
      PROVE  j - 1 \in 0..N /\ j \in 0..N /\ seqs[j] \in Seq(S) /\ F[j] = F[j - 1] \o seqs[j]
  <2>1. seqs[j] \in Seq(S)
    OBVIOUS
  <2>2. F[j] = F[j - 1] \o seqs[j]
    <3>1. \A k \in 1..N : F[k] = F[k - 1] \o seqs[k]
      BY Zenon DEF Flattens
    <3> HIDE DEF N
    <3>2. QED
      BY <3>1
  <2> HIDE DEF N
  <2>3. j - 1 \in 0..N /\ j \in 0..N
    BY <1>1
  <2>4. QED
    BY <2>1, <2>2, <2>3
<1>4. 0 \in T
  <2>1. i + 0 = i
    BY <1>1
  <2>2. Len(F[i]) \in Nat
    BY <1>1, <1>2
  <2>3. Begins(i)
    BY <2>2
  <2>4. QED
    BY <2>1, <2>3
<1>5. ASSUME NEW n \in Nat, n \in T
      PROVE  n + 1 \in T
  <2> DEFINE j == i + (n + 1)
  <2> SUFFICES ASSUME j <= N PROVE Begins(j)
    OBVIOUS
  <2>1. j \in 1..N /\ j - 1 = i + n /\ i + n <= N
    BY <1>1
  <2>2. Begins(i + n)
    BY <1>5, <2>1
  <2> DEFINE a == F[i]  b == F[j - 1]
  <2>3. a \in Seq(S) /\ b \in Seq(S) /\ seqs[j] \in Seq(S) /\ F[j] = b \o seqs[j]
    BY <1>1, <1>2, <1>3, <2>1
  <2>4. Len(a) <= Len(b) /\ \A k \in 1..Len(a) : b[k] = a[k]
    BY <2>1, <2>2
  <2> HIDE DEF a, b, j
  <2>5. Len(F[j]) = Len(b) + Len(seqs[j]) /\ \A k \in 1..Len(b) : F[j][k] = b[k]
    BY <2>3, JoinedFacts
  <2>6. Len(a) \in Nat /\ Len(b) \in Nat /\ Len(seqs[j]) \in Nat
    BY <2>3
  <2>7. Len(a) <= Len(F[j])
    BY <2>4, <2>5, <2>6
  <2>8. ASSUME NEW k \in 1..Len(a)
        PROVE  F[j][k] = a[k]
    <3>1. k \in 1..Len(b)
      BY <2>4, <2>6
    <3>2. QED
      BY <2>4, <2>5, <3>1
  <2>9. QED
    BY <2>7, <2>8 DEF a
<1>6. Begins(N)
  <2> DEFINE n == N - i
  <2>1. n \in Nat /\ i + n = N
    BY <1>1
  <2> HIDE DEF n
  <2>2. n \in T
    <3> HIDE DEF T
    <3>1. QED
      BY <1>4, <1>5, <2>1, InductionBySet
  <2>3. i + n <= N => Begins(i + n)
    BY <2>2
  <2> HIDE DEF Begins
  <2>4. N <= N => Begins(N)
    BY <2>1, <2>3, Zenon
  <2> HIDE DEF N
  <2>5. N <= N
    BY <1>1
  <2>6. QED
    BY <2>4, <2>5, Zenon
<1>7. F[N] = FlattenSeq(seqs)
  BY DEF Flattens
<1>8. QED
  BY <1>6, <1>7

PrefixedParts(parts) == [n \in DOMAIN parts |-> Prefixed(parts[n])]

(* Two lists of parts that spell one name: as far as the one goes, so does *)
(* the other.                                                              *)
Spells(C, parts, F) ==
  /\ F \in [0..Len(parts) -> Seq(Marks(C))] /\ F[0] = <<>>
  /\ \A k \in 1..Len(parts) :
       /\ F[k] = F[k - 1] \o Prefixed(parts[k])
       /\ Len(F[k]) = Len(F[k - 1]) + Len(Prefixed(parts[k])) /\ Len(F[k]) > Len(F[k - 1])
       /\ \A i \in 1..Len(Prefixed(parts[k])) : F[k][Len(F[k - 1]) + i] = Prefixed(parts[k])[i]
  /\ F[Len(parts)] = FlattenSeq(PrefixedParts(parts))
  /\ \A k \in 0..Len(parts) :
       /\ Len(F[k]) <= Len(FlattenSeq(PrefixedParts(parts)))
       /\ \A i \in 1..Len(F[k]) : FlattenSeq(PrefixedParts(parts))[i] = F[k][i]

LEMMA SpellingFacts ==
  ASSUME NEW C, NEW parts \in Seq(Seq(C))
  PROVE  \E F : Spells(C, parts, F)
<1> DEFINE M == Marks(C)
           N == Len(parts)
           seqs == PrefixedParts(parts)
<1>1. N \in Nat /\ \A n \in 1..N : parts[n] \in Seq(C)
  OBVIOUS
<1>2. \A n \in 1..N : Prefixed(parts[n]) \in Seq(M)
  <2> TAKE n \in 1..N
  <2>1. parts[n] \in Seq(C)
    BY <1>1
  <2>2. QED
    BY <2>1, PrefixedFacts
<1>3. /\ seqs \in Seq(Seq(M)) /\ Len(seqs) = N
      /\ \A n \in 1..N : seqs[n] = Prefixed(parts[n])
  <2>1. seqs = [n \in 1..N |-> Prefixed(parts[n])]
    BY DEF PrefixedParts
  <2> HIDE DEF seqs, M, N
  <2>2. QED
    BY <1>1, <1>2, <2>1
<1> HIDE DEF seqs, M, N
<1>4. PICK F \in [0..Len(seqs) -> Seq(M)] : Flattens(F, seqs)
  BY <1>3, FlattenFacts
<1>5. F[0] = <<>> /\ F[N] = FlattenSeq(seqs) /\ F \in [0..N -> Seq(M)]
  BY <1>3, <1>4 DEF Flattens
<1>6. ASSUME NEW k \in 1..N
      PROVE  /\ F[k] = F[k - 1] \o Prefixed(parts[k])
             /\ Len(F[k]) = Len(F[k - 1]) + Len(Prefixed(parts[k])) /\ Len(F[k]) > Len(F[k - 1])
             /\ \A i \in 1..Len(Prefixed(parts[k])) : F[k][Len(F[k - 1]) + i] = Prefixed(parts[k])[i]
  <2> DEFINE a == F[k - 1]  b == Prefixed(parts[k])
  <2>1. F[k] = a \o b
    BY <1>3, <1>4 DEF Flattens
  <2>2. a \in Seq(M) /\ b \in Seq(M)
    <3>1. k - 1 \in 0..N
      BY <1>1
    <3>2. QED
      BY <1>2, <1>5, <3>1
  <2>3. Len(b) > 0
    <3>1. parts[k] \in Seq(C)
      BY <1>1
    <3>2. Len(b) = Len(Decimal(Len(parts[k]))) + 1 + Len(parts[k])
      BY <3>1, PrefixedFacts
    <3>3. Len(parts[k]) \in Nat
      BY <3>1
    <3>4. Decimal(Len(parts[k])) \in Seq(Digits)
      BY <3>3, DecimalFacts
    <3>5. Len(Decimal(Len(parts[k]))) \in Nat
      BY <3>4
    <3> DEFINE l == Len(Decimal(Len(parts[k])))  p == Len(parts[k])  w == Len(b)
    <3>6. l \in Nat /\ p \in Nat /\ w = l + 1 + p
      BY <3>2, <3>3, <3>5, Zenon
    <3> HIDE DEF l, p, w
    <3>7. w > 0
      BY <3>6
    <3>8. QED
      BY <3>7 DEF w
  <2> HIDE DEF a, b
  <2>4. Len(F[k]) = Len(a) + Len(b) /\ \A i \in 1..Len(b) : F[k][Len(a) + i] = b[i]
    BY <2>1, <2>2, JoinedFacts
  <2>5. Len(F[k]) > Len(a)
    <3>1. Len(a) \in Nat /\ Len(b) \in Nat
      BY <2>2
    <3>2. QED
      BY <2>3, <2>4, <3>1
  <2>6. QED
    BY <2>1, <2>4, <2>5 DEF a, b
<1>7. ASSUME NEW k \in 0..N
      PROVE  /\ Len(F[k]) <= Len(FlattenSeq(seqs))
             /\ \A i \in 1..Len(F[k]) : FlattenSeq(seqs)[i] = F[k][i]
  <2>1. seqs \in Seq(Seq(M)) /\ k \in 0..Len(seqs)
    BY <1>3
  <2>2. F \in [0..Len(seqs) -> Seq(M)] /\ Flattens(F, seqs)
    BY <1>4
  <2>3. QED
    BY <2>1, <2>2, FlattenGrows
<1>8. Spells(C, parts, F)
  BY <1>5, <1>6, <1>7 DEF Spells, seqs, M, N
<1>9. QED
  BY <1>8

LEMMA SpelledFurther ==
  ASSUME NEW C, NEW ps \in Seq(Seq(C)), NEW qs \in Seq(Seq(C)),
         FlattenSeq(PrefixedParts(ps)) = FlattenSeq(PrefixedParts(qs))
  PROVE  Len(ps) <= Len(qs) /\ \A k \in 1..Len(ps) : ps[k] = qs[k]
<1> DEFINE m == Len(ps)  n == Len(qs)
           name == FlattenSeq(PrefixedParts(ps))
<1>1. PICK F : Spells(C, ps, F)
  BY SpellingFacts
<1>2. PICK G : Spells(C, qs, G)
  BY SpellingFacts
<1> DEFINE Same(i) == i <= n /\ F[i] = G[i] /\ \A k \in 1..i : ps[k] = qs[k]
           T == {i \in Nat : i <= m => Same(i)}
<1>3. m \in Nat /\ n \in Nat
  OBVIOUS
<1>4. 0 \in T
  BY <1>1, <1>2, <1>3 DEF Spells
<1>5. ASSUME NEW i \in Nat, i \in T
      PROVE  i + 1 \in T
  <2> DEFINE j == i + 1
  <2> SUFFICES ASSUME j <= m PROVE Same(j)
    OBVIOUS
  <2>1. j \in 1..m /\ j - 1 = i /\ i <= m /\ i \in 0..m /\ j \in 0..m
    BY <1>3
  <2>2. Same(i)
    BY <1>5, <2>1
  <2> DEFINE o == Len(F[i])  p == ps[j]  b == Prefixed(p)
  <2>3. /\ F[j] = F[i] \o b /\ Len(F[j]) = o + Len(b) /\ Len(F[j]) > o
        /\ \A k \in 1..Len(b) : F[j][o + k] = b[k]
    <3>1. /\ F[j] = F[j - 1] \o b /\ Len(F[j]) = Len(F[j - 1]) + Len(b) /\ Len(F[j]) > Len(F[j - 1])
          /\ \A k \in 1..Len(b) : F[j][Len(F[j - 1]) + k] = b[k]
      BY <1>1, <2>1 DEF Spells
    <3> HIDE DEF b, j
    <3>2. QED
      BY <2>1, <3>1
  <2>4. Len(F[j]) <= Len(name) /\ \A k \in 1..Len(F[j]) : name[k] = F[j][k]
    BY <1>1, <2>1 DEF Spells
  <2>5. F[i] \in Seq(Marks(C)) /\ F[j] \in Seq(Marks(C)) /\ p \in Seq(C)
    <3>1. F \in [0..m -> Seq(Marks(C))]
      BY <1>1, Zenon DEF Spells
    <3>2. \A k \in 1..m : ps[k] \in Seq(C)
      OBVIOUS
    <3> HIDE DEF m, j
    <3>3. F[i] \in Seq(Marks(C)) /\ F[j] \in Seq(Marks(C))
      BY <2>1, <3>1
    <3>4. ps[j] \in Seq(C)
      BY <2>1, <3>2
    <3>5. QED
      BY <3>3, <3>4
  <2>6. o \in Nat /\ b \in Seq(Marks(C)) /\ Len(b) \in Nat
    <3>1. b \in Seq(Marks(C))
      BY <2>5, PrefixedFacts
    <3> HIDE DEF b
    <3>2. QED
      BY <2>5, <3>1
  <2>7. j <= n
    <3> SUFFICES ASSUME ~(j <= n) PROVE FALSE
      OBVIOUS
    <3>1. i = n
      BY <1>3, <2>2
    <3>2. G[n] = name
      BY <1>2 DEF Spells
    <3>3. F[i] = name
      BY <2>2, <3>1, <3>2
    <3>4. Len(name) = o
      BY <3>3
    <3>5. Len(F[j]) \in Nat
      BY <2>5
    <3> HIDE DEF o, name, j
    <3>6. QED
      BY <2>3, <2>4, <2>6, <3>4, <3>5
  <2>8. j \in 1..n /\ j \in 0..n
    BY <2>1, <2>7
  <2> DEFINE q == qs[j]  c == Prefixed(q)
  <2>9. /\ G[j] = F[i] \o c /\ Len(G[j]) = o + Len(c)
        /\ \A k \in 1..Len(c) : G[j][o + k] = c[k]
    <3>1. /\ G[j] = G[j - 1] \o c /\ Len(G[j]) = Len(G[j - 1]) + Len(c)
          /\ \A k \in 1..Len(c) : G[j][Len(G[j - 1]) + k] = c[k]
      BY <1>2, <2>8 DEF Spells
    <3>2. G[j - 1] = F[i]
      BY <2>1, <2>2
    <3> HIDE DEF c, j
    <3>3. QED
      BY <3>1, <3>2
  <2>10. \A k \in 1..Len(G[j]) : name[k] = G[j][k]
    BY <1>2, <2>8 DEF Spells
  <2>11. q \in Seq(C)
    BY <2>8
  <2>12. Len(c) \in Nat
    <3>1. c \in Seq(Marks(C))
      BY <2>11, PrefixedFacts
    <3> HIDE DEF c
    <3>2. QED
      BY <3>1
  <2>13. p = q
    <3>1. ASSUME NEW k \in Nat \ {0}, k <= Len(b), k <= Len(c)
          PROVE  b[k] = c[k]
      <4> HIDE DEF b, c, o, name, j
      <4>1. k \in 1..Len(b) /\ k \in 1..Len(c) /\ o + k \in 1..Len(F[j]) /\ o + k \in 1..Len(G[j])
        BY <2>3, <2>6, <2>9, <2>12, <3>1
      <4>2. F[j][o + k] = b[k] /\ G[j][o + k] = c[k]
        BY <2>3, <2>9, <4>1
      <4>3. name[o + k] = F[j][o + k] /\ name[o + k] = G[j][o + k]
        BY <2>4, <2>10, <4>1
      <4>4. QED
        BY <4>2, <4>3
    <3> HIDE DEF p, q
    <3>2. \A k \in Nat \ {0} : k <= Len(Prefixed(p)) /\ k <= Len(Prefixed(q)) => Prefixed(p)[k] = Prefixed(q)[k]
      BY <3>1
    <3>3. QED
      BY <2>5, <2>11, <3>2, PrefixesTell
  <2>14. F[j] = G[j]
    BY <2>3, <2>9, <2>13
  <2>15. \A k \in 1..j : ps[k] = qs[k]
    <3> TAKE k \in 1..j
    <3>1. CASE k = j
      BY <2>13, <3>1
    <3>2. CASE k # j
      <4>1. k \in 1..i
        BY <3>2
      <4>2. QED
        BY <2>2, <4>1
    <3>3. QED
      BY <3>1, <3>2
  <2>16. QED
    BY <2>7, <2>14, <2>15
<1>6. m \in T
  <2> HIDE DEF T
  <2>1. QED
    BY <1>3, <1>4, <1>5, InductionBySet
<1>7. Same(m)
  BY <1>3, <1>6
<1>8. QED
  BY <1>7

(* Different lists of parts have different names (id.rs:79).               *)
LEMMA NamesTell ==
  ASSUME NEW C, NEW ps \in Seq(Seq(C)), NEW qs \in Seq(Seq(C)), NEW kind
  PROVE  (Derive(kind, ps) = Derive(kind, qs)) <=> (ps = qs)
<1>1. ASSUME Derive(kind, ps) = Derive(kind, qs)
      PROVE  ps = qs
  <2> DEFINE x == FlattenSeq(PrefixedParts(ps))  y == FlattenSeq(PrefixedParts(qs))
  <2>1. <<kind, x>> = <<kind, y>>
    BY <1>1 DEF Derive, PrefixedParts
  <2> HIDE DEF x, y
  <2>2. x = y
    BY <2>1
  <2>3. FlattenSeq(PrefixedParts(ps)) = FlattenSeq(PrefixedParts(qs))
    BY <2>2 DEF x, y
  <2>4. Len(ps) <= Len(qs) /\ \A k \in 1..Len(ps) : ps[k] = qs[k]
    BY <2>3, SpelledFurther
  <2>5. Len(qs) <= Len(ps)
    BY <2>3, SpelledFurther
  <2>6. Len(ps) = Len(qs)
    <3>1. Len(ps) \in Nat /\ Len(qs) \in Nat
      OBVIOUS
    <3>2. QED
      BY <2>4, <2>5, <3>1
  <2>7. QED
    BY <2>4, <2>6, SameEntries
<1>2. QED
  BY <1>1

-----------------------------------------------------------------------------
(* A provenance that is being built: what it is, beside what the reader    *)
(* demands of it.                                                          *)
Fields == {"name", "value", "kind"}
Originals == UNION {[F -> {"raw", "other"}] : F \in SUBSET Fields}
ReferencesOf == [source : SourceIds, locator : LocatorsOf \union {[kind |-> "whole"]}]

Built(p) ==
  p \in [sources : Seq(SourceIds), chain : Seq(StepsOf), original : Originals,
         evidence : Seq(ReferencesOf), generated : {None}]

(* Without generated content only its own evidence is cited.               *)
Cites(p) == \A r \in ToSet(p.evidence) : r.source \in ToSet(p.sources) /\ LocatorValid(r.locator)

BuildKept == provenance # None => Built(provenance) /\ ProvenanceReadable(provenance)

LEMMA StagesAre ==
  ASSUME NEW step \in StepsOf
  PROVE  StageAt(step.stage) \in Nat
<1> DEFINE stage == step.stage
<1>1. stage \in {"retrieval", "parsing", "normalisation"}
  BY DEF StepsOf
<1>2. \E n \in DOMAIN PipelineStages : PipelineStages[n] = stage
  <2>1. DOMAIN PipelineStages = 1..11
    BY DEF PipelineStages
  <2>2. PipelineStages[1] = "retrieval" /\ PipelineStages[3] = "parsing" /\ PipelineStages[5] = "normalisation"
    BY DEF PipelineStages
  <2> HIDE DEF stage
  <2>3. QED
    BY <1>1, <2>1, <2>2
<1>3. DOMAIN PipelineStages \subseteq Nat
  BY DEF PipelineStages
<1> HIDE DEF stage
<1>4. StageAt(stage) \in Nat
  BY <1>2, <1>3 DEF StageAt
<1>5. QED
  BY <1>4 DEF stage

LEMMA OriginalsAreFew ==
  ASSUME NEW o \in Originals
  PROVE  DOMAIN o \subseteq Fields /\ IsFiniteSet(DOMAIN o)
<1>1. DOMAIN o \subseteq Fields
  BY DEF Originals
<1>2. IsFiniteSet(Fields)
  <2>1. IsFiniteSet({"name"})
    BY FS_Singleton
  <2>2. IsFiniteSet({"name"} \union {"value"})
    BY <2>1, FS_AddElement
  <2>3. IsFiniteSet(({"name"} \union {"value"}) \union {"kind"})
    BY <2>2, FS_AddElement
  <2>4. Fields = ({"name"} \union {"value"}) \union {"kind"}
    BY DEF Fields
  <2>5. QED
    BY <2>3, <2>4
<1>3. QED
  BY <1>1, <1>2, FS_Subset

(* What the reader demands of one that has no generated content.           *)
LEMMA ReadableIs ==
  ASSUME NEW p, p.generated = None
  PROVE  ProvenanceReadable(p) <=>
           /\ Len(p.sources) \in 1..64 /\ Len(p.evidence) <= MaxReferences
           /\ Cites(p) /\ ChainValid(p.chain) /\ Cardinality(DOMAIN p.original) <= MaxOriginals
<1> DEFINE cited == ToSet(p.evidence) \union (IF p.generated = None THEN {} ELSE ToSet(p.generated.evidence))
<1>1. cited = ToSet(p.evidence)
  OBVIOUS
<1>2. ProvenanceReadable(p) <=>
        /\ Len(p.sources) \in 1..64 /\ Len(p.evidence) <= MaxReferences
        /\ \A r \in cited : r.source \in ToSet(p.sources) /\ LocatorValid(r.locator)
        /\ p.generated # None => GeneratedValid(p.generated)
        /\ ChainValid(p.chain) /\ Cardinality(DOMAIN p.original) <= MaxOriginals
  BY Zenon DEF ProvenanceReadable
<1> HIDE DEF cited
<1>3. QED
  BY <1>1, <1>2, Zenon DEF Cites

LEMMA BeginKept ==
  ASSUME NEW source \in SourceIds, NEW step \in StepsOf, Begin(source, step)
  PROVE  BuildKept'
<1> DEFINE p == [sources |-> <<source>>, chain |-> <<step>>, original |-> [f \in {} |-> 0],
                 evidence |-> <<Whole(source)>>, generated |-> None]
<1>1. provenance' = IF ProvenanceReadable(p) THEN p ELSE None
  BY Zenon DEF Begin, FromSource
<1>2. Built(p)
  <2>1. [f \in {} |-> 0] \in Originals
    <3>1. [f \in {} |-> 0] \in [{} -> {"raw", "other"}]
      OBVIOUS
    <3>2. QED
      BY <3>1 DEF Originals
  <2>2. Whole(source) \in ReferencesOf
    BY DEF Whole, ReferencesOf
  <2>3. <<source>> \in Seq(SourceIds) /\ <<step>> \in Seq(StepsOf)
    OBVIOUS
  <2> DEFINE o == [f \in {} |-> 0]  w == Whole(source)
  <2> HIDE DEF o, w
  <2>4. <<w>> \in Seq(ReferencesOf)
    BY <2>2 DEF w
  <2>5. [sources |-> <<source>>, chain |-> <<step>>, original |-> o, evidence |-> <<w>>, generated |-> None]
          \in [sources : Seq(SourceIds), chain : Seq(StepsOf), original : Originals,
               evidence : Seq(ReferencesOf), generated : {None}]
    BY <2>1, <2>3, <2>4 DEF o
  <2>6. QED
    BY <2>5 DEF Built, o, w
<1> HIDE DEF p
<1>3. QED
  BY <1>1, <1>2, Zenon DEF BuildKept

LEMMA AdvanceKept ==
  ASSUME BuildKept, NEW step \in StepsOf, Advance(step)
  PROVE  BuildKept'
<1> DEFINE p == provenance
           chain == p.chain
           pushed == Push(chain, step)
           q == [p EXCEPT !.chain = pushed]
<1>1. Built(p) /\ ProvenanceReadable(p) /\ p # None /\ provenance' = q
  BY DEF BuildKept, Advance
<1>2. p.generated = None /\ chain \in Seq(StepsOf)
  BY <1>1 DEF Built
<1>3. ChainValid(chain)
  BY <1>1, <1>2, ReadableIs
<1>4. pushed \in Seq(StepsOf) /\ ChainValid(pushed)
  <2>1. CASE Len(chain) >= MaxSteps \/ StageAt(step.stage) < StageAt(CurrentStage(chain))
    BY <1>2, <1>3, <2>1 DEF Push
  <2>2. CASE ~(Len(chain) >= MaxSteps \/ StageAt(step.stage) < StageAt(CurrentStage(chain)))
    <3> DEFINE m == Len(chain)  last == chain[m]
    <3>1. pushed = Append(chain, step)
      BY <2>2 DEF Push
    <3>2. m \in Nat /\ m \in 1..MaxSteps /\ MaxSteps \in Nat
      BY <1>2, <1>3, RecordsAssumption DEF ChainValid
    <3>3. last \in StepsOf
      BY <1>2, <3>2
    <3>4. CurrentStage(chain) = last.stage
      <4>1. chain # <<>>
        BY <1>2, <3>2
      <4>2. QED
        BY <4>1 DEF CurrentStage, Last
    <3>5. StageAt(last.stage) <= StageAt(step.stage)
      <4>1. ~(StageAt(step.stage) < StageAt(last.stage))
        BY <2>2, <3>4
      <4>2. StageAt(step.stage) \in Nat
        BY StagesAre
      <4>3. StageAt(last.stage) \in Nat
        BY <3>3, StagesAre
      <4> HIDE DEF last
      <4>4. QED
        BY <4>1, <4>2, <4>3
    <3>6. /\ pushed \in Seq(StepsOf) /\ Len(pushed) = m + 1 /\ pushed[m + 1] = step
          /\ \A n \in 1..m : pushed[n] = chain[n]
      <4> HIDE DEF pushed
      <4>1. QED
        BY <1>2, <3>1
    <3>7. m + 1 \in 1..MaxSteps
      <4>1. m < MaxSteps
        BY <2>2, <3>2
      <4> HIDE DEF m
      <4>2. QED
        BY <3>2, <4>1
    <3>8. \A n \in 1..m - 1 : StageAt(chain[n].stage) <= StageAt(chain[n + 1].stage)
      BY <1>3 DEF ChainValid
    <3> HIDE DEF m, pushed, chain
    <3>9. ASSUME NEW n \in 1..(m + 1) - 1
          PROVE  StageAt(pushed[n].stage) <= StageAt(pushed[n + 1].stage)
      <4>1. CASE n = m
        <5>1. pushed[n] = last /\ pushed[n + 1] = step
          BY <3>2, <3>6, <4>1
        <5> HIDE DEF last
        <5>2. QED
          BY <3>5, <5>1
      <4>2. CASE n # m
        <5>1. n \in 1..m - 1 /\ n \in 1..m /\ n + 1 \in 1..m
          BY <3>2, <4>2
        <5>2. pushed[n] = chain[n] /\ pushed[n + 1] = chain[n + 1]
          BY <3>6, <5>1
        <5>3. QED
          BY <3>8, <5>1, <5>2
      <4>3. QED
        BY <4>1, <4>2
    <3>10. QED
      BY <3>6, <3>7, <3>9 DEF ChainValid
  <2>3. QED
    BY <2>1, <2>2
<1> HIDE DEF pushed
<1>5. /\ Built(q) /\ q.chain = pushed /\ q.sources = p.sources /\ q.evidence = p.evidence
      /\ q.original = p.original /\ q.generated = None
  <2> HIDE DEF p, chain
  <2>1. QED
    BY <1>1, <1>4 DEF Built
<1>6. ProvenanceReadable(q)
  <2>1. /\ Len(p.sources) \in 1..64 /\ Len(p.evidence) <= MaxReferences /\ Cites(p)
        /\ Cardinality(DOMAIN p.original) <= MaxOriginals
    BY <1>1, <1>2, ReadableIs
  <2> HIDE DEF p, q
  <2>2. Cites(q)
    BY <1>5, <2>1 DEF Cites
  <2>3. QED
    BY <1>4, <1>5, <2>1, <2>2, ReadableIs
<1> HIDE DEF q, p
<1>7. QED
  BY <1>1, <1>5, <1>6 DEF BuildKept

LEMMA CiteKept ==
  ASSUME BuildKept, NEW source \in SourceIds, NEW locator \in LocatorsOf, CiteAt(source, locator)
  PROVE  BuildKept'
<1> DEFINE p == provenance
           r == [source |-> source, locator |-> locator]
           q == [p EXCEPT !.evidence = Append(@, r)]
<1>1. /\ Built(p) /\ ProvenanceReadable(p) /\ p # None
      /\ ReferenceAt(source, locator) # None /\ provenance' = Cite(p, ReferenceAt(source, locator))
  BY DEF BuildKept, CiteAt
<1>2. LocatorValid(locator) /\ ReferenceAt(source, locator) = r
  BY <1>1 DEF ReferenceAt
<1>3. p.generated = None /\ p.evidence \in Seq(ReferencesOf)
  BY <1>1 DEF Built
<1>4. CASE source \notin ToSet(p.sources) \/ Len(p.evidence) >= MaxReferences
  <2>1. provenance' = p
    BY <1>1, <1>2, <1>4 DEF Cite
  <2> HIDE DEF p
  <2>2. QED
    BY <1>1, <2>1 DEF BuildKept
<1>5. CASE ~(source \notin ToSet(p.sources) \/ Len(p.evidence) >= MaxReferences)
  <2>1. provenance' = q
    <3>1. r.source = source
      OBVIOUS
    <3> HIDE DEF p, r
    <3>2. Cite(p, r) = q
      BY <1>5, <3>1 DEF Cite
    <3>3. QED
      BY <1>1, <1>2, <3>2
  <2>2. r \in ReferencesOf
    BY DEF ReferencesOf
  <2>3. r.source \in ToSet(p.sources) /\ LocatorValid(r.locator)
    BY <1>2, <1>5
  <2> HIDE DEF r
  <2> DEFINE e == p.evidence  longer == Append(e, r)
  <2>4. longer \in Seq(ReferencesOf) /\ Len(longer) = Len(e) + 1 /\ ToSet(longer) = ToSet(e) \union {r}
    <3> HIDE DEF e
    <3>1. e \in Seq(ReferencesOf)
      BY <1>3 DEF e
    <3>2. longer \in Seq(ReferencesOf) /\ Len(longer) = Len(e) + 1 /\ DOMAIN longer = 1..Len(e) + 1
      BY <2>2, <3>1
    <3>3. longer[Len(e) + 1] = r /\ \A n \in 1..Len(e) : longer[n] = e[n]
      BY <3>1
    <3>4. DOMAIN e = 1..Len(e) /\ Len(e) \in Nat
      BY <3>1
    <3> HIDE DEF longer
    <3>5. ToSet(longer) = ToSet(e) \union {r}
      BY <3>2, <3>3, <3>4 DEF ToSet
    <3>6. QED
      BY <3>2, <3>5
  <2> HIDE DEF longer
  <2>5. /\ Built(q) /\ q.evidence = longer /\ q.chain = p.chain /\ q.sources = p.sources
        /\ q.original = p.original /\ q.generated = None
    <3>1. q = [p EXCEPT !.evidence = longer]
      BY DEF longer
    <3> HIDE DEF p, q
    <3>2. QED
      BY <1>1, <2>4, <3>1 DEF Built
  <2>6. /\ Len(p.sources) \in 1..64 /\ Len(p.evidence) <= MaxReferences /\ Cites(p)
        /\ ChainValid(p.chain) /\ Cardinality(DOMAIN p.original) <= MaxOriginals
    BY <1>1, <1>3, ReadableIs
  <2>7. Len(longer) <= MaxReferences
    <3>1. Len(e) \in Nat /\ MaxReferences \in Nat
      BY <1>3, RecordsAssumption
    <3>2. ~(Len(e) >= MaxReferences)
      BY <1>5
    <3> HIDE DEF e
    <3>3. QED
      BY <2>4, <3>1, <3>2
  <2> HIDE DEF q, p
  <2>8. Cites(q)
    BY <2>3, <2>4, <2>5, <2>6 DEF Cites
  <2>9. ProvenanceReadable(q)
    BY <2>5, <2>6, <2>7, <2>8, ReadableIs
  <2>10. QED
    BY <2>1, <2>5, <2>9 DEF BuildKept
<1>6. QED
  BY <1>4, <1>5

LEMMA OriginalKept ==
  ASSUME BuildKept, NEW field \in Fields, NEW value \in {"raw", "other"}, KeepOriginal(field, value)
  PROVE  BuildKept'
<1> DEFINE p == provenance
           o == p.original
           said == [f \in DOMAIN o \union {field} |-> IF f = field THEN value ELSE o[f]]
           q == [p EXCEPT !.original = said]
<1>1. Built(p) /\ ProvenanceReadable(p) /\ p # None /\ provenance' = RecordOriginal(p, field, value)
  BY DEF BuildKept, KeepOriginal
<1>2. p.generated = None /\ o \in Originals
  BY <1>1 DEF Built
<1>3. /\ Len(p.sources) \in 1..64 /\ Len(p.evidence) <= MaxReferences /\ Cites(p)
      /\ ChainValid(p.chain) /\ Cardinality(DOMAIN o) <= MaxOriginals
  BY <1>1, <1>2, ReadableIs
<1>4. CASE field \notin DOMAIN o /\ Cardinality(DOMAIN o) >= MaxOriginals
  <2>1. provenance' = p
    BY <1>1, <1>4 DEF RecordOriginal
  <2> HIDE DEF p
  <2>2. QED
    BY <1>1, <2>1 DEF BuildKept
<1>5. CASE ~(field \notin DOMAIN o /\ Cardinality(DOMAIN o) >= MaxOriginals)
  <2>1. provenance' = q
    <3>1. ~(field \notin DOMAIN p.original /\ Cardinality(DOMAIN p.original) >= MaxOriginals)
      BY <1>5
    <3> HIDE DEF p
    <3>2. QED
      BY <1>1, <3>1 DEF RecordOriginal
  <2>2. DOMAIN o \subseteq Fields /\ IsFiniteSet(DOMAIN o)
    BY <1>2, OriginalsAreFew
  <2>3. o \in [DOMAIN o -> {"raw", "other"}]
    BY <1>2 DEF Originals
  <2> HIDE DEF o
  <2>4. DOMAIN said = DOMAIN o \union {field} /\ said \in Originals
    <3>1. said \in [DOMAIN o \union {field} -> {"raw", "other"}]
      BY <2>3
    <3>2. DOMAIN o \union {field} \in SUBSET Fields
      BY <2>2
    <3> HIDE DEF said
    <3>3. QED
      BY <3>1, <3>2 DEF Originals
  <2> HIDE DEF said
  <2>5. Cardinality(DOMAIN said) <= MaxOriginals
    <3>1. CASE field \in DOMAIN o
      <4>1. DOMAIN said = DOMAIN o
        BY <2>4, <3>1
      <4>2. QED
        BY <1>3, <4>1
    <3>2. CASE field \notin DOMAIN o
      <4>1. Cardinality(DOMAIN o \union {field}) = Cardinality(DOMAIN o) + 1
        BY <2>2, <3>2, FS_AddElement
      <4>2. Cardinality(DOMAIN o) \in Nat /\ MaxOriginals \in Nat
        BY <2>2, FS_CardinalityType, RecordsAssumption
      <4> DEFINE c == Cardinality(DOMAIN o)
      <4>3. ~(c >= MaxOriginals) /\ Cardinality(DOMAIN said) = c + 1 /\ c \in Nat
        BY <1>5, <2>4, <3>2, <4>1, <4>2
      <4> HIDE DEF c
      <4>4. QED
        BY <4>2, <4>3
    <3>3. QED
      BY <3>1, <3>2
  <2> HIDE DEF p
  <2>6. /\ Built(q) /\ q.original = said /\ q.chain = p.chain /\ q.sources = p.sources
        /\ q.evidence = p.evidence /\ q.generated = None
    BY <1>1, <2>4 DEF Built
  <2> HIDE DEF q
  <2>7. Cites(q)
    BY <1>3, <2>6 DEF Cites
  <2>8. ProvenanceReadable(q)
    BY <1>3, <2>5, <2>6, <2>7, ReadableIs
  <2>9. QED
    BY <2>1, <2>6, <2>8 DEF BuildKept
<1>6. QED
  BY <1>4, <1>5

LEMMA BuildStep == BuildKept /\ [RecordsNext]_provenance => BuildKept'
<1> SUFFICES ASSUME BuildKept, [RecordsNext]_provenance PROVE BuildKept'
  OBVIOUS
<1>1. ASSUME NEW source \in SourceIds, NEW step \in StepsOf, Begin(source, step)
      PROVE  BuildKept'
  BY <1>1, BeginKept
<1>2. ASSUME NEW step \in StepsOf, Advance(step)
      PROVE  BuildKept'
  BY <1>2, AdvanceKept
<1>3. ASSUME NEW source \in SourceIds, NEW locator \in LocatorsOf, CiteAt(source, locator)
      PROVE  BuildKept'
  BY <1>3, CiteKept
<1>4. ASSUME NEW field \in Fields, NEW value \in {"raw", "other"}, KeepOriginal(field, value)
      PROVE  BuildKept'
  BY <1>4, OriginalKept
<1>5. CASE UNCHANGED provenance
  BY <1>5 DEF BuildKept
<1>6. RecordsNext => BuildKept'
  BY <1>1, <1>2, <1>3, <1>4 DEF RecordsNext, Fields
<1>7. QED
  BY <1>5, <1>6

-----------------------------------------------------------------------------
(* What a relation's identity stands for: its kind and its ends, both ways *)
(* where it has none (relationship.rs).                                    *)
EndsOf(kind, source, target) ==
  {<<source, target>>} \union (IF IsSymmetric(kind) THEN {<<target, source>>} ELSE {})

LEMMA RelationTells ==
  ASSUME NEW k, NEW l, NEW s \in Nat, NEW t \in Nat, NEW u \in Nat, NEW v \in Nat
  PROVE  (RelationshipId(k, s, t) = RelationshipId(l, u, v))
           <=> (<<k, EndsOf(k, s, t)>> = <<l, EndsOf(l, u, v)>>)
<1>1. /\ RelationshipId(k, s, t) = IF IsSymmetric(k) /\ t < s THEN <<k, t, s>> ELSE <<k, s, t>>
      /\ RelationshipId(l, u, v) = IF IsSymmetric(l) /\ v < u THEN <<l, v, u>> ELSE <<l, u, v>>
  BY DEF RelationshipId
<1>2. CASE k # l
  <2>1. RelationshipId(k, s, t)[1] = k /\ RelationshipId(l, u, v)[1] = l
    BY <1>1
  <2>2. RelationshipId(k, s, t) # RelationshipId(l, u, v)
    BY <1>2, <2>1
  <2> DEFINE e == EndsOf(k, s, t)  f == EndsOf(l, u, v)
  <2> HIDE DEF e, f
  <2>3. <<k, e>> # <<l, f>>
    BY <1>2
  <2>4. QED
    BY <2>2, <2>3 DEF e, f
<1>3. CASE k = l /\ ~IsSymmetric(k)
  <2>1. EndsOf(k, s, t) = {<<s, t>>} /\ EndsOf(l, u, v) = {<<u, v>>}
    BY <1>3 DEF EndsOf
  <2>2. RelationshipId(k, s, t) = <<k, s, t>> /\ RelationshipId(l, u, v) = <<k, u, v>>
    BY <1>1, <1>3
  <2>3. (<<k, s, t>> = <<k, u, v>>) <=> (s = u /\ t = v)
    OBVIOUS
  <2>4. ({<<s, t>>} = {<<u, v>>}) <=> (s = u /\ t = v)
    <3>1. ASSUME {<<s, t>>} = {<<u, v>>} PROVE s = u /\ t = v
      <4>1. <<s, t>> \in {<<u, v>>}
        BY <3>1
      <4>2. QED
        BY <4>1
    <3>2. QED
      BY <3>1
  <2> DEFINE e == EndsOf(k, s, t)  f == EndsOf(l, u, v)
  <2>5. (e = f) <=> (s = u /\ t = v)
    BY <2>1, <2>4
  <2> HIDE DEF e, f
  <2>6. (<<k, e>> = <<l, f>>) <=> (e = f)
    BY <1>3
  <2>7. QED
    BY <2>2, <2>3, <2>5, <2>6 DEF e, f
<1>4. CASE k = l /\ IsSymmetric(k)
  <2> DEFINE Same == (s = u /\ t = v) \/ (s = v /\ t = u)
  <2>1. EndsOf(k, s, t) = {<<s, t>>, <<t, s>>} /\ EndsOf(l, u, v) = {<<u, v>>, <<v, u>>}
    BY <1>4 DEF EndsOf
  <2>2. (RelationshipId(k, s, t) = RelationshipId(l, u, v)) <=> Same
    <3> DEFINE a == IF t < s THEN t ELSE s  b == IF t < s THEN s ELSE t
               c == IF v < u THEN v ELSE u  d == IF v < u THEN u ELSE v
    <3>1. RelationshipId(k, s, t) = <<k, a, b>> /\ RelationshipId(l, u, v) = <<k, c, d>>
      BY <1>1, <1>4
    <3>2. (a = c /\ b = d) <=> Same
      OBVIOUS
    <3> HIDE DEF a, b, c, d, Same
    <3>3. (<<k, a, b>> = <<k, c, d>>) <=> (a = c /\ b = d)
      OBVIOUS
    <3>4. QED
      BY <3>1, <3>2, <3>3
  <2>3. ({<<s, t>>, <<t, s>>} = {<<u, v>>, <<v, u>>}) <=> Same
    <3>1. ASSUME {<<s, t>>, <<t, s>>} = {<<u, v>>, <<v, u>>} PROVE Same
      <4>1. <<s, t>> \in {<<u, v>>, <<v, u>>}
        BY <3>1
      <4>2. QED
        BY <4>1
    <3>2. ASSUME Same PROVE {<<s, t>>, <<t, s>>} = {<<u, v>>, <<v, u>>}
      BY <3>2
    <3>3. QED
      BY <3>1, <3>2
  <2> DEFINE e == EndsOf(k, s, t)  f == EndsOf(l, u, v)
  <2>4. (e = f) <=> Same
    BY <2>1, <2>3
  <2> HIDE DEF e, f, Same
  <2>5. (<<k, e>> = <<l, f>>) <=> (e = f)
    BY <1>4
  <2>6. QED
    BY <2>2, <2>4, <2>5 DEF e, f
<1>5. QED
  BY <1>2, <1>3, <1>4

(* A claim's identity has four parts or three.                             *)
LEMMA ClaimIs ==
  ASSUME NEW s, NEW a
  PROVE  ClaimId(s, a) = IF a.kind = "attribute" THEN <<s, a.kind, a.name, a.value>>
                         ELSE <<s, a.kind, a.value>>
<1> DEFINE k == a.kind  n == a.name  v == a.value
<1>1. ClaimId(s, a) = <<s, k>> \o (IF k = "attribute" THEN <<n, v>> ELSE <<v>>)
  BY DEF ClaimId, DerivationParts
<1> HIDE DEF k, n, v
<1>2. CASE k = "attribute"
  <2>1. <<s, k>> \o <<n, v>> = <<s, k, n, v>>
    <3> DEFINE S == {s, k, n, v}  front == <<s, k>>  back == <<n, v>>
               joined == front \o back  whole == <<s, k, n, v>>
    <3>1. front \in Seq(S) /\ back \in Seq(S) /\ whole \in Seq(S)
      OBVIOUS
    <3>2. Len(front) = 2 /\ Len(back) = 2 /\ Len(whole) = 4
      OBVIOUS
    <3>3. joined \in Seq(S) /\ Len(joined) = 4
          /\ (\A i \in 1..2 : joined[i] = front[i])
          /\ \A i \in 1..2 : joined[2 + i] = back[i]
      <4> HIDE DEF S, front, back
      <4>1. joined \in Seq(S) /\ Len(joined) = Len(front) + Len(back)
            /\ (\A i \in 1..Len(front) : joined[i] = front[i])
            /\ \A i \in 1..Len(back) : joined[Len(front) + i] = back[i]
        BY <3>1, JoinedFacts
      <4> HIDE DEF joined
      <4>2. QED
        BY <3>2, <4>1
    <3>4. \A i \in 1..4 : joined[i] = whole[i]
      <4> HIDE DEF joined
      <4>1. QED
        BY <3>3
    <3> HIDE DEF S, joined, whole
    <3>5. joined = whole
      BY <3>1, <3>2, <3>3, <3>4, SameEntries
    <3>6. QED
      BY <3>5 DEF joined, whole
  <2>2. QED
    BY <1>1, <1>2, <2>1 DEF k, n, v
<1>3. CASE k # "attribute"
  <2>1. <<s, k>> \o <<v>> = <<s, k, v>>
    <3> DEFINE S == {s, k, n, v}  front == <<s, k>>  back == <<v>>
               joined == front \o back  whole == <<s, k, v>>
    <3>1. front \in Seq(S) /\ back \in Seq(S) /\ whole \in Seq(S)
      OBVIOUS
    <3>2. Len(front) = 2 /\ Len(back) = 1 /\ Len(whole) = 3
      OBVIOUS
    <3>3. joined \in Seq(S) /\ Len(joined) = 3
          /\ (\A i \in 1..2 : joined[i] = front[i])
          /\ \A i \in 1..1 : joined[2 + i] = back[i]
      <4> HIDE DEF S, front, back
      <4>1. joined \in Seq(S) /\ Len(joined) = Len(front) + Len(back)
            /\ (\A i \in 1..Len(front) : joined[i] = front[i])
            /\ \A i \in 1..Len(back) : joined[Len(front) + i] = back[i]
        BY <3>1, JoinedFacts
      <4> HIDE DEF joined
      <4>2. QED
        BY <3>2, <4>1
    <3>4. \A i \in 1..3 : joined[i] = whole[i]
      <4> HIDE DEF joined
      <4>1. QED
        BY <3>3
    <3> HIDE DEF S, joined, whole
    <3>5. joined = whole
      BY <3>1, <3>2, <3>3, <3>4, SameEntries
    <3>6. QED
      BY <3>5 DEF joined, whole
  <2>2. QED
    BY <1>1, <1>3, <2>1 DEF k, n, v
<1>4. QED
  BY <1>2, <1>3

LEMMA ClaimTells ==
  ASSUME NEW s, NEW t, NEW a, NEW b, Asserted(a), Asserted(b)
  PROVE  (ClaimId(s, a) = ClaimId(t, b)) <=> (<<s, a.kind, <<a>>>> = <<t, b.kind, <<b>>>>)
<1> DEFINE k == a.kind  l == b.kind  Equal == s = t /\ a = b
<1>1. (<<s, k, <<a>>>> = <<t, l, <<b>>>>) <=> Equal
  <2>1. a = b => k = l
    OBVIOUS
  <2>2. (<<a>> = <<b>>) <=> (a = b)
    OBVIOUS
  <2> DEFINE x == <<a>>  y == <<b>>
  <2> HIDE DEF k, l, x, y
  <2>3. (<<s, k, x>> = <<t, l, y>>) <=> (s = t /\ k = l /\ x = y)
    OBVIOUS
  <2>4. QED
    BY <2>1, <2>2, <2>3 DEF x, y
<1>2. ClaimId(s, a) = IF k = "attribute" THEN <<s, k, a.name, a.value>> ELSE <<s, k, a.value>>
  BY ClaimIs
<1>3. ClaimId(t, b) = IF l = "attribute" THEN <<t, l, b.name, b.value>> ELSE <<t, l, b.value>>
  BY ClaimIs
<1>4. a = b => k = l /\ a.name = b.name /\ a.value = b.value
  OBVIOUS
<1>5. CASE k = "attribute" /\ l = "attribute"
  <2> DEFINE m == a.name  n == b.name  x == a.value  y == b.value
  <2>1. a = [kind |-> "attribute", name |-> m, value |-> x] /\ b = [kind |-> "attribute", name |-> n, value |-> y]
    BY <1>5 DEF Asserted
  <2>2. ClaimId(s, a) = <<s, "attribute", m, x>> /\ ClaimId(t, b) = <<t, "attribute", n, y>>
    BY <1>2, <1>3, <1>5
  <2>3. a = b <=> m = n /\ x = y
    <3>1. a = b => m = n /\ x = y
      BY <1>4
    <3> HIDE DEF m, n, x, y
    <3>2. m = n /\ x = y => a = b
      BY <2>1
    <3>3. QED
      BY <3>1, <3>2
  <2> HIDE DEF m, n, x, y
  <2>4. (<<s, "attribute", m, x>> = <<t, "attribute", n, y>>) <=> (s = t /\ m = n /\ x = y)
    OBVIOUS
  <2>5. QED
    BY <1>1, <2>2, <2>3, <2>4
<1>6. CASE k # "attribute" /\ l # "attribute"
  <2> DEFINE x == a.value  y == b.value
  <2>1. a = [kind |-> k, value |-> x] /\ b = [kind |-> l, value |-> y]
    BY <1>6 DEF Asserted
  <2>2. ClaimId(s, a) = <<s, k, x>> /\ ClaimId(t, b) = <<t, l, y>>
    BY <1>2, <1>3, <1>6
  <2>3. a = b <=> k = l /\ x = y
    <3>1. a = b => k = l /\ x = y
      BY <1>4
    <3> HIDE DEF k, l, x, y
    <3>2. k = l /\ x = y => a = b
      BY <2>1
    <3>3. QED
      BY <3>1, <3>2
  <2> HIDE DEF k, l, x, y
  <2>4. (<<s, k, x>> = <<t, l, y>>) <=> (s = t /\ k = l /\ x = y)
    OBVIOUS
  <2>5. QED
    BY <1>1, <2>2, <2>3, <2>4 DEF k, l
<1>7. CASE (k = "attribute") # (l = "attribute")
  <2>1. k # l
    BY <1>7
  <2>2. a # b
    BY <1>4, <2>1
  <2>3. ClaimId(s, a)[2] = k
    <3> HIDE DEF k
    <3>1. QED
      BY <1>2
  <2>4. ClaimId(t, b)[2] = l
    <3> HIDE DEF l
    <3>1. QED
      BY <1>3
  <2>5. ClaimId(s, a) # ClaimId(t, b)
    BY <2>1, <2>3, <2>4
  <2>6. QED
    BY <1>1, <2>2, <2>5
<1>8. QED
  BY <1>5, <1>6, <1>7

(* Whoever observed it is named, or nobody is (sighting.rs).               *)
LEMMA SightingTells ==
  ASSUME NEW s, NEW t, NEW o, NEW p, NEW a, NEW b, NEW c, NEW d, o # "-", p # "-"
  PROVE  (SightingId(s, o, a, b) = SightingId(t, p, c, d)) <=> (<<s, o, a, b>> = <<t, p, c, d>>)
<1> DEFINE x == IF o = None THEN "-" ELSE o  y == IF p = None THEN "-" ELSE p
<1>1. SightingId(s, o, a, b) = <<s, x, a, b>> /\ SightingId(t, p, c, d) = <<t, y, c, d>>
  BY DEF SightingId
<1>2. x = y <=> o = p
  OBVIOUS
<1> HIDE DEF x, y
<1>3. (<<s, x, a, b>> = <<t, y, c, d>>) <=> (s = t /\ x = y /\ a = c /\ b = d)
  OBVIOUS
<1>4. (<<s, o, a, b>> = <<t, p, c, d>>) <=> (s = t /\ o = p /\ a = c /\ b = d)
  OBVIOUS
<1>5. QED
  BY <1>1, <1>2, <1>3, <1>4

(* A record that has been withdrawn was there before (temporal.rs).        *)
LEMMA ExpiredWasThere ==
  ASSUME NEW t, NEW now \in Int, {t.valid_from, t.valid_until} \subseteq Int \union {None},
         TemporalValid(t), IsExpiredAt(t, now)
  PROVE  t.valid_from = None \/ t.valid_from < now
<1> DEFINE f == t.valid_from  u == t.valid_until
<1>1. f \in Int \union {None} /\ u \in Int \union {None}
  OBVIOUS
<1>2. u # None /\ u < now
  BY DEF IsExpiredAt
<1>3. f = None \/ u = None \/ f <= u
  BY DEF TemporalValid, InOrder
<1> HIDE DEF f, u
<1>4. f = None \/ f < now
  BY <1>1, <1>2, <1>3
<1>5. QED
  BY <1>4 DEF f, u

(* Two records of any class have one identity when they state the same.    *)
LEMMA IdentityTells ==
  ASSUME NEW s, Recordable(s)
  PROVE  (IdOf(s.class, s.a) = IdOf(s.class, s.b)) <=> (Stated(s.class, s.a) = Stated(s.class, s.b))
<1> DEFINE a == s.a  b == s.b  class == s.class
<1>1. class \in {"relationship", "claim", "entity", "sighting", "source"}
  BY DEF Recordable
<1>2. CASE class = "relationship"
  <2>1. IdOf(class, a) = RelationshipId(a.kind, a.source, a.target)
        /\ IdOf(class, b) = RelationshipId(b.kind, b.source, b.target)
    <3> HIDE DEF a, b, class
    <3>1. QED
      BY <1>2 DEF IdOf
  <2>2. /\ Stated(class, a) = <<a.kind, EndsOf(a.kind, a.source, a.target)>>
        /\ Stated(class, b) = <<b.kind, EndsOf(b.kind, b.source, b.target)>>
    <3> HIDE DEF a, b, class
    <3>1. QED
      BY <1>2 DEF Stated, EndsOf
  <2>3. a.source \in Nat /\ a.target \in Nat /\ b.source \in Nat /\ b.target \in Nat
    BY <1>2 DEF Recordable
  <2> HIDE DEF a, b, class
  <2>4. (RelationshipId(a.kind, a.source, a.target) = RelationshipId(b.kind, b.source, b.target))
          <=> (<<a.kind, EndsOf(a.kind, a.source, a.target)>> = <<b.kind, EndsOf(b.kind, b.source, b.target)>>)
    BY <2>3, RelationTells
  <2>5. (IdOf(class, a) = IdOf(class, b)) <=> (Stated(class, a) = Stated(class, b))
    BY <2>1, <2>2, <2>4, Zenon
  <2>6. QED
    BY <2>5, Zenon DEF a, b, class
<1>3. CASE class = "claim"
  <2>1. IdOf(class, a) = ClaimId(a.subject, a.assertion) /\ IdOf(class, b) = ClaimId(b.subject, b.assertion)
    <3> HIDE DEF a, b, class
    <3>1. QED
      BY <1>3 DEF IdOf
  <2>2. /\ Stated(class, a) = <<a.subject, a.assertion.kind, <<a.assertion>>>>
        /\ Stated(class, b) = <<b.subject, b.assertion.kind, <<b.assertion>>>>
    <3> HIDE DEF a, b, class
    <3>1. QED
      BY <1>3 DEF Stated
  <2>3. Asserted(a.assertion) /\ Asserted(b.assertion)
    BY <1>3 DEF Recordable
  <2> HIDE DEF a, b, class
  <2>4. (ClaimId(a.subject, a.assertion) = ClaimId(b.subject, b.assertion))
          <=> (<<a.subject, a.assertion.kind, <<a.assertion>>>> = <<b.subject, b.assertion.kind, <<b.assertion>>>>)
    BY <2>3, ClaimTells
  <2>5. (IdOf(class, a) = IdOf(class, b)) <=> (Stated(class, a) = Stated(class, b))
    BY <2>1, <2>2, <2>4, Zenon
  <2>6. QED
    BY <2>5, Zenon DEF a, b, class
<1>4. CASE class = "entity"
  <2> HIDE DEF a, b, class
  <2>1. /\ IdOf(class, a) = <<a.kind, a.authority, a.external>>
        /\ IdOf(class, b) = <<b.kind, b.authority, b.external>>
    BY <1>4 DEF IdOf, EntityId
  <2>2. /\ Stated(class, a) = <<a.kind, a.authority, a.external>>
        /\ Stated(class, b) = <<b.kind, b.authority, b.external>>
    BY <1>4 DEF Stated
  <2>3. QED
    BY <2>1, <2>2, Zenon DEF a, b, class
<1>5. CASE class = "sighting"
  <2>1. /\ IdOf(class, a) = SightingId(a.subject, a.observer, a.first_seen, a.last_seen)
        /\ IdOf(class, b) = SightingId(b.subject, b.observer, b.first_seen, b.last_seen)
    <3> HIDE DEF a, b, class
    <3>1. QED
      BY <1>5 DEF IdOf
  <2>2. /\ Stated(class, a) = <<a.subject, a.observer, a.first_seen, a.last_seen>>
        /\ Stated(class, b) = <<b.subject, b.observer, b.first_seen, b.last_seen>>
    <3> HIDE DEF a, b, class
    <3>1. QED
      BY <1>5 DEF Stated
  <2>3. a.observer # "-" /\ b.observer # "-"
    BY <1>5 DEF Recordable
  <2> HIDE DEF a, b, class
  <2>4. (SightingId(a.subject, a.observer, a.first_seen, a.last_seen)
           = SightingId(b.subject, b.observer, b.first_seen, b.last_seen))
          <=> (<<a.subject, a.observer, a.first_seen, a.last_seen>>
                 = <<b.subject, b.observer, b.first_seen, b.last_seen>>)
    BY <2>3, SightingTells
  <2>5. (IdOf(class, a) = IdOf(class, b)) <=> (Stated(class, a) = Stated(class, b))
    BY <2>1, <2>2, <2>4, Zenon
  <2>6. QED
    BY <2>5, Zenon DEF a, b, class
<1>6. CASE class = "source"
  <2> HIDE DEF a, b, class
  <2>1. IdOf(class, a) = <<a.content_hash>> /\ IdOf(class, b) = <<b.content_hash>>
    BY <1>6 DEF IdOf, SourceObjectId
  <2>2. Stated(class, a) = <<a.content_hash>> /\ Stated(class, b) = <<b.content_hash>>
    BY <1>6 DEF Stated
  <2>3. QED
    BY <2>1, <2>2, Zenon DEF a, b, class
<1>7. QED
  BY <1>1, <1>2, <1>3, <1>4, <1>5, <1>6

LEMMA RecordsAreRight == Sampled("records") /\ Recordable(sample) => RecordsHold
<1> SUFFICES ASSUME Sampled("records"), Recordable(sample) PROVE RecordsHold
  OBVIOUS
<1> DEFINE a == sample.a  b == sample.b  class == sample.class  now == sample.now
<1>1. (IdOf(class, a) = IdOf(class, b)) <=> (Stated(class, a) = Stated(class, b))
  BY IdentityTells
<1>2. ASSUME class # "source", IsReadable(class, a), IsExpiredAt(a.temporal, now)
      PROVE  a.temporal.valid_from = None \/ a.temporal.valid_from < now
  <2>1. now \in Int /\ {a.temporal.valid_from, a.temporal.valid_until} \subseteq Int \union {None}
    BY <1>2 DEF Recordable
  <2>2. class \in {"relationship", "claim", "entity", "sighting"}
    BY <1>2 DEF Recordable
  <2> HIDE DEF a, class, now
  <2>3. TemporalValid(a.temporal)
    BY <1>2, <2>2 DEF IsReadable, RelationshipReadable, ClaimReadable, EntityReadable, SightingReadable
  <2>4. QED
    BY <1>2, <2>1, <2>3, ExpiredWasThere
<1>3. ASSUME class = "sighting", IsReadable(class, a)
      PROVE  a.first_seen <= a.last_seen /\ a.count > 0
  <2>1. a.count \in Nat
    BY <1>3 DEF Recordable
  <2> HIDE DEF a, class
  <2>2. a.first_seen <= a.last_seen /\ a.count # 0
    BY <1>3 DEF IsReadable, SightingReadable, SightingCountValid
  <2> DEFINE n == a.count
  <2>3. n \in Nat /\ n # 0
    BY <2>1, <2>2
  <2> HIDE DEF n
  <2>4. n > 0
    BY <2>3
  <2>5. QED
    BY <2>2, <2>4 DEF n
<1>4. ASSUME class = "source", IsReadable(class, a), IsReadable(class, b), a.id = b.id,
             NEW n \in 1..2
      PROVE  LET bytes == [hash |-> a.content_hash, length |-> n] IN
             MatchesBytes(a, bytes) /\ a.byte_length = b.byte_length => MatchesBytes(b, bytes)
  <2> HIDE DEF a, b, class
  <2>1. a.id = <<a.content_hash>> /\ b.id = <<b.content_hash>>
    BY <1>4 DEF IsReadable, SourceObjectReadable, SourceObjectId
  <2> DEFINE g == a.content_hash  h == b.content_hash
  <2>2. <<g>> = <<h>>
    BY <1>4, <2>1
  <2> HIDE DEF g, h
  <2>3. g = h
    BY <2>2
  <2>4. QED
    BY <2>3 DEF MatchesBytes, g, h
<1> HIDE DEF a, b, class, now
<1>5. ASSUME class = "source", IsReadable(class, a), IsReadable(class, b), a.id = b.id
      PROVE  \A n \in 1 .. 2 : LET bytes == [hash |-> a.content_hash, length |-> n] IN
               MatchesBytes(a, bytes) /\ a.byte_length = b.byte_length => MatchesBytes(b, bytes)
  BY <1>4, <1>5, Zenon
<1>6. QED
  BY <1>1, <1>2, <1>3, <1>5, Zenon DEF RecordsHold, a, b, class, now

LEMMA NamesOfSamples == Sampled("identities") /\ Spellable(sample) => IdsTellApart
<1> SUFFICES ASSUME Sampled("identities"), Spellable(sample) PROVE IdsTellApart
  OBVIOUS
<1> DEFINE C == UNION {Range(text) : text \in Range(sample[1]) \union Range(sample[2])}
<1>1. sample[1] \in Seq(Seq(C)) /\ sample[2] \in Seq(Seq(C))
  BY DEF Spellable
<1> HIDE DEF C
<1>2. (Derive("k", sample[1]) = Derive("k", sample[2])) <=> (sample[1] = sample[2])
  BY <1>1, NamesTell
<1>3. QED
  BY <1>2, Zenon DEF IdsTellApart

LEMMA RecordsOfSamples == SampleTaken => IdsTellApart /\ RecordsHold
<1> SUFFICES ASSUME SampleTaken PROVE IdsTellApart /\ RecordsHold
  OBVIOUS
<1>1. IdsTellApart
  <2>1. CASE Sampled("identities")
    <3>1. Spellable(sample)
      BY <2>1, SamplesAssumption DEF SampleTaken, Sampled
    <3>2. QED
      BY <2>1, <3>1, NamesOfSamples
  <2>2. CASE ~Sampled("identities")
    BY <2>2 DEF IdsTellApart
  <2>3. QED
    BY <2>1, <2>2
<1>2. RecordsHold
  <2>1. CASE Sampled("records")
    <3>1. Recordable(sample)
      BY <2>1, SamplesAssumption DEF SampleTaken, Sampled
    <3>2. QED
      BY <2>1, <3>1, RecordsAreRight
  <2>2. CASE ~Sampled("records")
    BY <2>2 DEF RecordsHold
  <2>3. QED
    BY <2>1, <2>2
<1>3. QED
  BY <1>1, <1>2

LEMMA BuildStaysKept ==
  /\ LawsInit => BuildKept
  /\ BuildKept /\ [LawsNext]_lawVars => BuildKept'
<1>1. LawsInit => BuildKept
  BY DEF LawsInit, RecordsInit, BuildKept
<1>2. [LawsNext]_lawVars => [RecordsNext]_provenance
  BY DEF LawsNext, lawVars, TakeSample, Identifies, Tabulates, Guarding, Builds, Walks
<1>3. QED
  BY <1>1, <1>2, BuildStep

(* Of any lists of parts: two have one name only where they are the same   *)
(* list, because each part is told from the next by its length (id.rs:85). *)
(* Of any two records of a class: they have one identity when, and only    *)
(* when, they state the same (relationship.rs:208), and what has expired   *)
(* had begun.  And whatever steps a provenance was built by, in any order  *)
(* and any number, the reader finds nothing to refuse: the stages run      *)
(* forwards, what is cited is listed and no bound is passed                *)
(* (provenance/mod.rs:159, transformation.rs:228).                         *)
THEOREM BuiltRecordsReadBack == LawsSpec => []BuiltReadsBack
<1>1. BuildKept /\ SampleTaken => BuiltReadsBack
  BY RecordsOfSamples DEF BuiltReadsBack, BuildKept, WhatIsBuiltReadsBack
<1>2. QED
  BY <1>1, BuildStaysKept, SamplesStay, PTL DEF LawsSpec
=============================================================================
