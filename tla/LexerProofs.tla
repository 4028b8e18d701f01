----------------------------- MODULE LexerProofs -----------------------------
(***************************************************************************)
(* What lex_next() returns for every line.  The lexer's automaton is a     *)
(* recursive function, so its facts are proved by induction on the         *)
(* position in the line: a set of positions that fails has a least one.    *)
(***************************************************************************)
EXTENDS Lexer, SequenceTheorems, WellFoundedInduction, TLAPS

-----------------------------------------------------------------------------
\* The least-number principle, for sets instead of predicates.
LEMMA LeastNumber ==
  ASSUME NEW S \in SUBSET Nat, S # {}
  PROVE  \E x \in S : \A y \in S : x <= y
<1>1. \E x \in S : \A y \in S : ~(<<y, x>> \in OpToRel(<, Nat))
  BY NatLessThanWellFounded, WFMin, Zenon
<1>2. PICK x \in S : \A y \in S : ~(<<y, x>> \in OpToRel(<, Nat))
  BY <1>1
<1>3. ASSUME NEW y \in S PROVE x <= y
  <2>1. x \in Nat /\ y \in Nat /\ ~(y < x)
    BY <1>2 DEF OpToRel
  <2>2. QED
    BY <2>1
<1>4. QED
  BY <1>3

\* Induction on a set of natural numbers.
LEMMA Induction ==
  ASSUME NEW S, 0 \in S, \A n \in Nat : n \in S => n + 1 \in S
  PROVE  \A n \in Nat : n \in S
<1>1. SUFFICES ASSUME Nat \ S # {} PROVE FALSE
  OBVIOUS
<1>2. PICK x \in Nat \ S : \A y \in Nat \ S : x <= y
  <2>1. Nat \ S \in SUBSET Nat
    OBVIOUS
  <2>2. QED
    BY <1>1, <2>1, LeastNumber, Zenon
<1>3. x # 0 /\ x \in Nat /\ x - 1 \in Nat
  BY <1>2
<1>4. x - 1 \in S
  BY <1>2, <1>3
<1>5. QED
  BY <1>2, <1>3, <1>4

\* Course-of-values induction on a set of natural numbers.
LEMMA StrongInduction ==
  ASSUME NEW S, \A n \in Nat : (\A m \in 0 .. n - 1 : m \in S) => n \in S
  PROVE  \A n \in Nat : n \in S
<1>1. SUFFICES ASSUME Nat \ S # {} PROVE FALSE
  OBVIOUS
<1>2. PICK x \in Nat \ S : \A y \in Nat \ S : x <= y
  <2>1. Nat \ S \in SUBSET Nat
    OBVIOUS
  <2>2. QED
    BY <1>1, <2>1, LeastNumber, Zenon
<1>3. \A m \in 0 .. x - 1 : m \in S
  BY <1>2
<1>4. QED
  BY <1>2, <1>3

\* What a recursion does at each number with the value it has there, and the
\* functions that follow it from the first value on.
Steps(S) == [Nat -> [S -> S]]
Follows(f, S, base, step) ==
  f \in [Nat -> S] /\ f[0] = base /\ \A n \in Nat : f[n + 1] = step[n][f[n]]

(***************************************************************************)
(* Primitive recursion: a function on the natural numbers can be given by  *)
(* its first value and the step from each value to the next.               *)
(***************************************************************************)
LEMMA PrimitiveRecursion ==
  ASSUME NEW S, NEW base, base \in S, NEW step, step \in Steps(S)
  PROVE  \E f : Follows(f, S, base, step)
<1>0. step \in [Nat -> [S -> S]]
  BY DEF Steps
<1> DEFINE Upto(n, g) == /\ g \in [0 .. n -> S] /\ g[0] = base
                         /\ \A m \in 0 .. n - 1 : g[m + 1] = step[m][g[m]]
           Good == {n \in Nat : \E g : Upto(n, g)}
<1>1. \A n \in Nat : n \in Good
  <2>1. 0 \in Good
    <3>1. Upto(0, [m \in 0 .. 0 |-> base])
      OBVIOUS
    <3>2. QED
      BY <3>1
  <2>2. ASSUME NEW n \in Nat, n \in Good PROVE n + 1 \in Good
    <3>1. PICK g : Upto(n, g)
      BY <2>2
    <3> DEFINE h == [m \in 0 .. n + 1 |-> IF m = n + 1 THEN step[n][g[n]] ELSE g[m]]
    <3>2. Upto(n + 1, h)
      BY <1>0, <3>1
    <3> HIDE DEF h, Upto
    <3>3. QED
      BY <3>2
  <2> HIDE DEF Good
  <2>3. QED
    BY <2>1, <2>2, Induction
<1>2. ASSUME NEW n \in Nat, NEW k \in Nat, NEW g, NEW h, Upto(n, g), Upto(k, h),
             NEW m \in Nat, m <= n, m <= k
      PROVE  g[m] = h[m]
  <2> DEFINE Same == {j \in Nat : j <= n /\ j <= k => g[j] = h[j]}
  <2>1. 0 \in Same
    BY <1>2
  <2>2. ASSUME NEW j \in Nat, j \in Same PROVE j + 1 \in Same
    <3>1. SUFFICES ASSUME j + 1 <= n, j + 1 <= k PROVE g[j + 1] = h[j + 1]
      OBVIOUS
    <3>2. j \in 0 .. n - 1 /\ j \in 0 .. k - 1 /\ g[j] = h[j]
      BY <2>2, <3>1
    <3>3. QED
      BY <1>2, <3>2
  <2>3. m \in Same
    <3> HIDE DEF Same
    <3>1. QED
      BY <2>1, <2>2, Induction
  <2>4. QED
    BY <1>2, <2>3
<1> DEFINE G(n) == CHOOSE g : Upto(n, g)
           f == [n \in Nat |-> G(n)[n]]
<1>3. ASSUME NEW n \in Nat PROVE Upto(n, G(n))
  BY <1>1
<1> HIDE DEF G
<1>4. f \in [Nat -> S]
  BY <1>3
<1>5. f[0] = base
  BY <1>3
<1>6. ASSUME NEW n \in Nat PROVE f[n + 1] = step[n][f[n]]
  <2>1. Upto(n, G(n)) /\ Upto(n + 1, G(n + 1))
    BY <1>3
  <2>2. G(n + 1)[n + 1] = step[n][G(n + 1)[n]]
    BY <2>1
  <2>3. G(n + 1)[n] = G(n)[n]
    <3> HIDE DEF Upto
    <3>1. n + 1 \in Nat /\ n <= n /\ n <= n + 1
      OBVIOUS
    <3>2. QED
      BY <1>2, <2>1, <3>1
  <2>4. QED
    BY <2>2, <2>3
<1>7. QED
  BY <1>4, <1>5, <1>6 DEF Follows
\* Each value as the earlier ones give it.
Defs(S) ==
  {step \in [Nat -> [[Nat -> S] -> S]] :
     \A n \in Nat : \A g, h \in [Nat -> S] :
       (\A m \in 0 .. n - 1 : g[m] = h[m]) => step[n][g] = step[n][h]}
Fulfils(f, S, step) ==
  f \in [Nat -> S] /\ \A n \in Nat : f[n] = step[n][f]

(***************************************************************************)
(* Recursion in general: each value can be given by the earlier ones.      *)
(***************************************************************************)
LEMMA Recursion ==
  ASSUME NEW S, NEW any, any \in S, NEW step, step \in Defs(S)
  PROVE  \E f : Fulfils(f, S, step)
<1>0. /\ step \in [Nat -> [[Nat -> S] -> S]]
      /\ \A n \in Nat : \A g, h \in [Nat -> S] :
           (\A m \in 0 .. n - 1 : g[m] = h[m]) => step[n][g] = step[n][h]
  BY DEF Defs
<1> DEFINE F == [Nat -> S]
           base == [n \in Nat |-> any]
           extend == [n \in Nat |-> [f \in F |-> [m \in Nat |-> IF m = n THEN step[n][f] ELSE f[m]]]]
<1>1. base \in F /\ extend \in Steps(F)
  BY <1>0 DEF Steps
<1>2. PICK s : Follows(s, F, base, extend)
  <2> HIDE DEF F, base, extend
  <2>1. QED
    BY <1>1, PrimitiveRecursion
<1>3. s \in [Nat -> F] /\ s[0] = base /\ \A n \in Nat : s[n + 1] = extend[n][s[n]]
  BY <1>2 DEF Follows
<1>4. ASSUME NEW n \in Nat, NEW m \in Nat
      PROVE  s[n + 1][m] = IF m = n THEN step[n][s[n]] ELSE s[n][m]
  <2>1. s[n] \in F /\ s[n + 1] = extend[n][s[n]]
    BY <1>3
  <2>2. extend[n][s[n]] = [k \in Nat |-> IF k = n THEN step[n][s[n]] ELSE s[n][k]]
    BY <2>1
  <2>3. QED
    BY <2>1, <2>2
<1> DEFINE f == [n \in Nat |-> s[n + 1][n]]
<1>5. f \in F
  BY <1>3
<1>6. ASSUME NEW n \in Nat PROVE \A m \in 0 .. n - 1 : s[n][m] = f[m]
  <2> DEFINE Kept == {k \in Nat : \A m \in 0 .. k - 1 : s[k][m] = f[m]}
  <2>1. 0 \in Kept
    OBVIOUS
  <2>2. ASSUME NEW k \in Nat, k \in Kept PROVE k + 1 \in Kept
    <3>1. SUFFICES ASSUME NEW m \in 0 .. k PROVE s[k + 1][m] = f[m]
      OBVIOUS
    <3>2. CASE m = k
      BY <3>2
    <3>3. CASE m < k
      BY <1>4, <2>2, <3>3
    <3>4. QED
      BY <3>2, <3>3
  <2> HIDE DEF Kept
  <2>3. \A k \in Nat : k \in Kept
    BY <2>1, <2>2, Induction
  <2>4. QED
    BY <2>3 DEF Kept
<1>7. ASSUME NEW n \in Nat PROVE f[n] = step[n][f]
  <2>1. f[n] = step[n][s[n]]
    BY <1>4
  <2>2. s[n] \in F /\ f \in F
    BY <1>3, <1>5
  <2> HIDE DEF f
  <2>3. step[n][s[n]] = step[n][f]
    BY <1>0, <1>6, <2>2
  <2>4. QED
    BY <2>1, <2>3
<1>8. QED
  BY <1>5, <1>7 DEF Fulfils

\* The same with a measure on any set in place of the numbers themselves.
Inductive(G, X, m) ==
  \A x \in X : (\A y \in X : m[y] < m[x] => y \in G) => x \in G

LEMMA MeasureInduction ==
  ASSUME NEW X, NEW m \in [X -> Nat], NEW G, Inductive(G, X, m)
  PROVE  \A x \in X : x \in G
<1> DEFINE Good == {n \in Nat : \A x \in X : m[x] = n => x \in G}
<1>1. ASSUME NEW n \in Nat, \A k \in 0 .. n - 1 : k \in Good PROVE n \in Good
  <2>1. SUFFICES ASSUME NEW x \in X, m[x] = n PROVE x \in G
    OBVIOUS
  <2>2. ASSUME NEW y \in X, m[y] < m[x] PROVE y \in G
    <3>1. m[y] \in 0 .. n - 1
      BY <2>1, <2>2
    <3>2. QED
      BY <1>1, <3>1
  <2>3. QED
    BY <2>2 DEF Inductive
<1>2. \A n \in Nat : n \in Good
  <2> HIDE DEF Good
  <2>1. QED
    BY <1>1, StrongInduction
<1>3. QED
  BY <1>2

MeasuredDefs(X, S, m) ==
  {step \in [X -> [[X -> S] -> S]] :
     \A x \in X : \A g, h \in [X -> S] :
       (\A y \in X : m[y] < m[x] => g[y] = h[y]) => step[x][g] = step[x][h]}
FulfilsOn(f, X, S, step) ==
  f \in [X -> S] /\ \A x \in X : f[x] = step[x][f]

LEMMA MeasuredRecursion ==
  ASSUME NEW X, NEW S, NEW any, any \in S, NEW m \in [X -> Nat],
         NEW step, step \in MeasuredDefs(X, S, m)
  PROVE  \E f : FulfilsOn(f, X, S, step)
<1>0. /\ step \in [X -> [[X -> S] -> S]]
      /\ \A x \in X : \A g, h \in [X -> S] :
           (\A y \in X : m[y] < m[x] => g[y] = h[y]) => step[x][g] = step[x][h]
  BY DEF MeasuredDefs
<1> DEFINE F == [X -> S]
           base == [x \in X |-> any]
           extend == [n \in Nat |-> [f \in F |-> [x \in X |-> IF m[x] = n THEN step[x][f] ELSE f[x]]]]
<1>1. base \in F /\ extend \in Steps(F)
  BY <1>0 DEF Steps
<1>2. PICK s : Follows(s, F, base, extend)
  <2> HIDE DEF F, base, extend
  <2>1. QED
    BY <1>1, PrimitiveRecursion
<1>3. s \in [Nat -> F] /\ s[0] = base /\ \A n \in Nat : s[n + 1] = extend[n][s[n]]
  BY <1>2 DEF Follows
<1>4. ASSUME NEW n \in Nat, NEW x \in X
      PROVE  s[n + 1][x] = IF m[x] = n THEN step[x][s[n]] ELSE s[n][x]
  <2>1. s[n] \in F /\ s[n + 1] = extend[n][s[n]]
    BY <1>3
  <2>2. extend[n][s[n]] = [y \in X |-> IF m[y] = n THEN step[y][s[n]] ELSE s[n][y]]
    BY <2>1
  <2>3. QED
    BY <2>1, <2>2
<1> DEFINE f == [x \in X |-> s[m[x] + 1][x]]
<1>5. f \in F
  BY <1>3
<1>6. ASSUME NEW n \in Nat PROVE \A x \in X : m[x] < n => s[n][x] = f[x]
  <2> DEFINE Kept == {k \in Nat : \A x \in X : m[x] < k => s[k][x] = f[x]}
  <2>1. 0 \in Kept
    OBVIOUS
  <2>2. ASSUME NEW k \in Nat, k \in Kept PROVE k + 1 \in Kept
    <3>1. SUFFICES ASSUME NEW x \in X, m[x] < k + 1 PROVE s[k + 1][x] = f[x]
      OBVIOUS
    <3>2. CASE m[x] = k
      BY <3>2
    <3>3. CASE m[x] < k
      BY <1>4, <2>2, <3>3
    <3>4. QED
      BY <3>1, <3>2, <3>3
  <2> HIDE DEF Kept
  <2>3. \A k \in Nat : k \in Kept
    BY <2>1, <2>2, Induction
  <2>4. QED
    BY <2>3 DEF Kept
<1>7. ASSUME NEW x \in X PROVE f[x] = step[x][f]
  <2>1. f[x] = step[x][s[m[x]]]
    BY <1>4
  <2>2. s[m[x]] \in F /\ f \in F
    BY <1>3, <1>5
  <2> HIDE DEF f
  <2>3. step[x][s[m[x]]] = step[x][f]
    BY <1>0, <1>6, <2>2
  <2>4. QED
    BY <2>1, <2>3
<1>8. QED
  BY <1>5, <1>7 DEF FulfilsOn

-----------------------------------------------------------------------------
Kind == {"pipe", "word", "string", "error"}
Result == [type : Kind, end : Nat, text : Text]

\* A turn of the loop: it is left at the terminator at the latest, and goes on
\* with at most one byte written, which is not a terminator.
LEMMA StepFacts ==
  ASSUME NEW q \in States, NEW c \in Byte
  PROVE  /\ Step(q, c) \in States \cup Exits
         /\ c = NUL => Step(q, c) \in {"stop", "error"}
         /\ Step(q, c) \in States => Emit(q, c) \in Text /\ Len(Emit(q, c)) <= 1
         /\ Step(q, c) \in {"stop", "close"} => TokType(q) \in Kind
<1>1. Escaped(c) \in Byte
  BY DEF Escaped, Byte, BSL, DQ, LF, CR, HT, VT, FF, ESC, NUL
<1>2. Step(q, c) \in States \cup Exits
  BY DEF States, Exits, Step
<1>3. c = NUL => Step(q, c) \in {"stop", "error"}
  <2>1. Escaped(NUL) = NUL
    BY DEF Escaped, BSL, DQ, NUL
  <2>2. QED
    BY <2>1 DEF States, Step, NUL, DQ, SQ
<1>4. ASSUME Step(q, c) \in States PROVE Emit(q, c) \in Text /\ Len(Emit(q, c)) <= 1
  <2>1. c \in Byte \ {0}
    BY <1>3, <1>4 DEF States, NUL
  <2>2. q = "esc" => Escaped(c) \in Byte \ {0}
    BY <1>1, <1>4 DEF Step, States, NUL
  <2>3. Emit(q, c) \in {<<Escaped(c)>>, <<>>, <<c>>} /\ (q # "esc" => Emit(q, c) \in {<<>>, <<c>>})
    BY DEF Emit
  <2>4. CASE q = "esc"
    <3>1. <<Escaped(c)>> \in Seq(Byte \ {0}) /\ Len(<<Escaped(c)>>) = 1
      BY <2>2, <2>4
    <3>2. Emit(q, c) = <<Escaped(c)>>
      BY <2>4 DEF Emit
    <3>3. QED
      BY <3>1, <3>2 DEF Text
  <2>5. CASE q # "esc"
    <3>1. <<c>> \in Seq(Byte \ {0}) /\ Len(<<c>>) = 1 /\ <<>> \in Seq(Byte \ {0})
      BY <2>1
    <3>2. Emit(q, c) = <<>> \/ Emit(q, c) = <<c>>
      BY <2>3, <2>5
    <3>3. <<>> \in Text /\ Len(<<>>) <= 1 /\ <<c>> \in Text /\ Len(<<c>>) <= 1
      BY <3>1 DEF Text
    <3>4. QED
      BY <3>2, <3>3, Zenon
  <2>6. QED
    BY <2>4, <2>5
<1>5. TokType(q) \in Kind
  BY DEF TokType, Kind, States
<1>6. QED
  BY <1>2, <1>3, <1>4, <1>5

LEMMA AtFacts ==
  ASSUME NEW s \in Text, NEW k \in 1 .. Len(s) + 1
  PROVE  /\ At(s, k) \in Byte
         /\ At(s, k) = NUL <=> k = Len(s) + 1
  BY DEF At, Text, Byte, NUL

\* What one turn makes of the rest, state by state.
Turned(r, k, q, c, rest) ==
  /\ Step(q, c) = "error" => r = [type |-> "error", end |-> k, text |-> <<>>]
  /\ Step(q, c) = "stop"  => r = [type |-> TokType(q), end |-> k, text |-> <<>>]
  /\ Step(q, c) = "close" => r = [type |-> TokType(q), end |-> k + 1, text |-> <<>>]
  /\ Step(q, c) \in States => r = Before(Emit(q, c), rest[Step(q, c)])

LEMMA TurnIs ==
  ASSUME NEW s \in Text, NEW k \in 1 .. Len(s) + 1, NEW rest, NEW q \in States
  PROVE  Turned(Turn(s, k, rest)[q], k, q, At(s, k), rest)
  BY DEF Turn, Turned, Exits, States

LEMMA BeforeIs ==
  ASSUME NEW t \in Text, NEW r \in Result
  PROVE  /\ Before(t, r) \in Result
         /\ Before(t, r).end = r.end
         /\ Before(t, r).type = r.type
         /\ Before(t, r).text = t \o r.text
         /\ Len(Before(t, r).text) = Len(t) + Len(r.text)
  BY DEF Before, Result, Text

LEMMA TurnType ==
  ASSUME NEW s \in Text, NEW k \in 1 .. Len(s) + 1, NEW rest,
         k <= Len(s) => rest \in [States -> Result]
  PROVE  Turn(s, k, rest) \in [States -> Result]
<1>1. ASSUME NEW q \in States PROVE Turn(s, k, rest)[q] \in Result
  <2>1. At(s, k) \in Byte
    BY AtFacts
  <2>2. /\ Step(q, At(s, k)) \in States \cup Exits
        /\ At(s, k) = NUL => Step(q, At(s, k)) \in {"stop", "error"}
        /\ Step(q, At(s, k)) \in States => Emit(q, At(s, k)) \in Text
        /\ Step(q, At(s, k)) \in {"stop", "close"} => TokType(q) \in Kind
    BY <2>1, StepFacts
  <2>3. k \in Nat /\ k + 1 \in Nat /\ <<>> \in Text /\ "error" \in Kind
    BY DEF Text, Kind
  <2>4. CASE Step(q, At(s, k)) \in Exits
    <3> DEFINE left(type, end) == [type |-> type, end |-> end, text |-> <<>>]
    <3>1. \A type \in Kind, end \in Nat : left(type, end) \in Result
      BY <2>3 DEF Result
    <3>2. Turned(Turn(s, k, rest)[q], k, q, At(s, k), rest)
      BY TurnIs
    <3>3. Step(q, At(s, k)) = "error" => Turn(s, k, rest)[q] = left("error", k)
      BY <3>2 DEF Turned
    <3>4. Step(q, At(s, k)) = "stop" => Turn(s, k, rest)[q] = left(TokType(q), k)
      BY <3>2 DEF Turned
    <3>5. Step(q, At(s, k)) = "close" => Turn(s, k, rest)[q] = left(TokType(q), k + 1)
      BY <3>2 DEF Turned
    <3> HIDE DEF left
    <3>6. QED
      BY <2>2, <2>3, <2>4, <3>1, <3>3, <3>4, <3>5 DEF Exits
  <2>5. CASE Step(q, At(s, k)) \in States
    <3>1. k <= Len(s)
      BY <2>2, <2>5, AtFacts DEF States
    <3>2. rest[Step(q, At(s, k))] \in Result
      BY <2>5, <3>1
    <3>3. Turn(s, k, rest)[q] = Before(Emit(q, At(s, k)), rest[Step(q, At(s, k))])
      <4>1. Turned(Turn(s, k, rest)[q], k, q, At(s, k), rest)
        BY TurnIs
      <4>2. QED
        BY <2>5, <4>1, Zenon DEF Turned
    <3>4. Emit(q, At(s, k)) \in Text
      BY <2>2, <2>5
    <3>5. Before(Emit(q, At(s, k)), rest[Step(q, At(s, k))]) \in Result
      <4>1. \A t \in Text, r \in Result : Before(t, r) \in Result
        BY BeforeIs
      <4>2. QED
        BY <3>2, <3>4, <4>1, Zenon
    <3>6. QED
      BY <3>3, <3>5
  <2>6. QED
    BY <2>2, <2>4, <2>5
<1>2. QED
  BY <1>1 DEF Turn

\* Run's recursion is sound: it ends at the terminator.
LEMMA RunIs ==
  ASSUME NEW s \in Text
  PROVE  /\ Run(s) \in [1 .. Len(s) + 1 -> [States -> Result]]
         /\ \A k \in 1 .. Len(s) + 1 : Run(s)[k] = Turn(s, k, Run(s)[k + 1])
<1> DEFINE L == Len(s) + 1
           S == [States -> Result]
           r0 == [q \in States |-> [type |-> "error", end |-> 0, text |-> <<>>]]
           step == [n \in Nat |-> [r \in S |-> IF n + 1 < L THEN Turn(s, L - n - 1, r) ELSE r]]
<1>1. L \in Nat /\ L >= 1
  BY DEF Text
<1>2. Turn(s, L, r0) \in S
  BY TurnType, <1>1
<1>3. step \in [Nat -> [S -> S]]
  <2>1. ASSUME NEW n \in Nat, NEW r \in S, n + 1 < L PROVE Turn(s, L - n - 1, r) \in S
    BY <1>1, <2>1, TurnType
  <2>2. QED
    BY <2>1
<1> HIDE DEF step, r0
<1>4. \E f \in [Nat -> S] : f[0] = Turn(s, L, r0) /\ \A n \in Nat : f[n + 1] = step[n][f[n]]
  <2> DEFINE base == Turn(s, L, r0)
  <2>1. base \in S /\ step \in Steps(S)
    BY <1>2, <1>3 DEF Steps
  <2> HIDE DEF S, base
  <2>2. \E f : Follows(f, S, base, step)
    BY <2>1, PrimitiveRecursion
  <2>3. QED
    BY <2>2 DEF Follows, base
<1>11. PICK f \in [Nat -> S] : f[0] = Turn(s, L, r0) /\ \A n \in Nat : f[n + 1] = step[n][f[n]]
  BY <1>4
<1> DEFINE g == [k \in 1 .. L |-> f[L - k]]
<1>5. g \in [1 .. L -> S]
  BY <1>1
<1>6. ASSUME NEW k \in 1 .. L PROVE g[k] = Turn(s, k, g[k + 1])
  <2>1. CASE k = L
    <3>1. Turn(s, L, r0) = Turn(s, L, g[L + 1])
      <4>1. At(s, L) = NUL /\ \A q \in States : Step(q, At(s, L)) \in Exits
        BY <1>1, AtFacts, StepFacts DEF Exits
      <4>2. QED
        BY <4>1 DEF Turn
    <3>2. QED
      BY <1>1, <1>11, <2>1, <3>1
  <2>2. CASE k < L
    <3>1. L - k - 1 \in Nat /\ f[L - k - 1] \in S /\ (L - k - 1) + 1 = L - k
      BY <1>1, <2>2
    <3>2. f[L - k] = step[L - k - 1][f[L - k - 1]]
      BY <1>11, <3>1
    <3>3. step[L - k - 1][f[L - k - 1]] = Turn(s, k, f[L - k - 1])
      <4>1. (L - k - 1) + 1 < L /\ L - (L - k - 1) - 1 = k
        BY <1>1, <2>2
      <4>2. QED
        BY <3>1, <4>1 DEF step
    <3>4. g[k + 1] = f[L - k - 1]
      BY <1>1, <2>2
    <3>5. QED
      BY <1>1, <3>2, <3>3, <3>4
  <2>3. QED
    BY <1>1, <2>1, <2>2
<1>7. g = [k \in 1 .. L |-> Turn(s, k, g[k + 1])]
  BY <1>5, <1>6
<1> HIDE DEF g
<1>8. Run(s) = [k \in 1 .. L |-> Turn(s, k, Run(s)[k + 1])]
  <2> DEFINE Eq(run) == run = [k \in 1 .. L |-> Turn(s, k, run[k + 1])]
  <2>1. Eq(g)
    BY <1>7
  <2>2. Eq(Run(s))
    BY <2>1, Zenon DEF Run
  <2>3. QED
    BY <2>2
<1>9. \A k \in 1 .. L : Run(s)[k] \in S
  <2> DEFINE Typed == {n \in Nat : n < L => Run(s)[L - n] \in S}
  <2>1. 0 \in Typed
    <3>1. Turn(s, L, Run(s)[L + 1]) \in S
      BY <1>1, TurnType
    <3>2. L \in 1 .. L
      BY <1>1
    <3>4. Run(s)[L] = Turn(s, L, Run(s)[L + 1])
      BY <1>8, <3>2
    <3>3. QED
      BY <1>1, <3>1, <3>4
  <2>2. ASSUME NEW n \in Nat, n \in Typed PROVE n + 1 \in Typed
    <3>1. SUFFICES ASSUME n + 1 < L PROVE Run(s)[L - (n + 1)] \in S
      OBVIOUS
    <3> DEFINE k == L - (n + 1)
    <3>2. k \in 1 .. L /\ k + 1 = L - n
      BY <1>1, <3>1
    <3>3. Run(s)[k + 1] \in S
      BY <1>1, <2>2, <3>1, <3>2
    <3>4. Turn(s, k, Run(s)[k + 1]) \in S
      <4> HIDE DEF k
      <4>1. QED
        BY <3>2, <3>3, TurnType
    <3>5. QED
      BY <1>8, <3>2, <3>4
  <2>3. \A n \in Nat : n \in Typed
    <3> HIDE DEF Typed
    <3>1. QED
      BY <2>1, <2>2, Induction
  <2>4. ASSUME NEW k \in 1 .. L PROVE Run(s)[k] \in S
    <3>1. L - k \in Nat /\ L - k < L /\ L - (L - k) = k
      BY <1>1
    <3>2. QED
      BY <2>3, <3>1
  <2>5. QED
    BY <2>4
<1>10. QED
  BY <1>8, <1>9

\* The run of the loop, turn by turn.
LEMMA RunTurns ==
  ASSUME NEW s \in Text, NEW k \in 1 .. Len(s) + 1, NEW q \in States
  PROVE  Turned(Run(s)[k][q], k, q, At(s, k), Run(s)[k + 1])
<1> DEFINE rest == Run(s)[k + 1]
<1>1. Run(s)[k] = Turn(s, k, rest)
  BY RunIs
<1> HIDE DEF rest
<1>2. Turned(Turn(s, k, rest)[q], k, q, At(s, k), rest)
  BY TurnIs
<1>3. QED
  BY <1>1, <1>2, Zenon DEF rest

\* Where a run of the loop leaves the line, and that it writes no more bytes
\* than it has read.
LEMMA RunBounds ==
  ASSUME NEW s \in Text, NEW k \in 1 .. Len(s) + 1, NEW q \in States
  PROVE  /\ Run(s)[k][q] \in Result
         /\ Run(s)[k][q].end \in k .. Len(s) + 1
         /\ Len(Run(s)[k][q].text) <= Run(s)[k][q].end - k
<1> DEFINE L == Len(s) + 1
           Fine(j) == \A p \in States :
             /\ Run(s)[j][p].end \in j .. L
             /\ Len(Run(s)[j][p].text) <= Run(s)[j][p].end - j
           Good == {n \in Nat : n < L => Fine(L - n)}
<1>1. L \in Nat /\ L >= 1
  BY DEF Text
<1>2. \A j \in 1 .. L, p \in States : Run(s)[j][p] \in Result
  BY RunIs
<1>3. ASSUME NEW j \in 1 .. L, j < L => Fine(j + 1) PROVE Fine(j)
  <2>1. SUFFICES ASSUME NEW p \in States
                 PROVE  /\ Run(s)[j][p].end \in j .. L
                        /\ Len(Run(s)[j][p].text) <= Run(s)[j][p].end - j
    OBVIOUS
  <2> DEFINE next == Step(p, At(s, j))
             r == Run(s)[j + 1][next]
  <2>2. /\ next = "error" => Run(s)[j][p] = [type |-> "error", end |-> j, text |-> <<>>]
        /\ next = "stop"  => Run(s)[j][p] = [type |-> TokType(p), end |-> j, text |-> <<>>]
        /\ next = "close" => Run(s)[j][p] = [type |-> TokType(p), end |-> j + 1, text |-> <<>>]
        /\ next \in States => Run(s)[j][p] = Before(Emit(p, At(s, j)), r)
    <3>1. Turned(Run(s)[j][p], j, p, At(s, j), Run(s)[j + 1])
      BY RunTurns
    <3>2. QED
      BY <3>1, Zenon DEF Turned
  <2>3. At(s, j) \in Byte /\ (At(s, j) = NUL <=> j = L)
    BY AtFacts
  <2>4. /\ next \in States \cup Exits
        /\ j = L => next \in {"stop", "error"}
        /\ next \in States => Emit(p, At(s, j)) \in Text /\ Len(Emit(p, At(s, j))) <= 1
    BY <2>3, StepFacts
  <2>5. CASE next \in {"stop", "error"}
    <3>1. Run(s)[j][p].end = j /\ Run(s)[j][p].text = <<>>
      BY <2>2, <2>5
    <3>2. QED
      BY <1>1, <3>1
  <2>6. CASE next = "close"
    <3>1. Run(s)[j][p].end = j + 1 /\ Run(s)[j][p].text = <<>>
      BY <2>2, <2>6
    <3>2. j < L
      BY <2>4, <2>6
    <3>3. QED
      BY <1>1, <3>1, <3>2
  <2>7. CASE next \in States
    <3>1. j < L
      BY <1>1, <2>4, <2>7 DEF States
    <3>2. Run(s)[j][p] = Before(Emit(p, At(s, j)), r)
      BY <2>2, <2>7
    <3>3. r \in Result /\ r.end \in j + 1 .. L /\ Len(r.text) <= r.end - (j + 1)
      BY <1>1, <1>2, <1>3, <2>7, <3>1
    <3>4. Emit(p, At(s, j)) \in Text /\ Len(Emit(p, At(s, j))) <= 1
      BY <2>4, <2>7
    <3> HIDE DEF next, r
    <3>5. /\ Run(s)[j][p].end = r.end
          /\ Len(Run(s)[j][p].text) = Len(Emit(p, At(s, j))) + Len(r.text)
      BY <3>2, <3>3, <3>4, BeforeIs
    <3>6. Len(r.text) \in Nat /\ Len(Emit(p, At(s, j))) \in Nat
      BY <3>3, <3>4 DEF Result, Text
    <3>7. QED
      BY <1>1, <3>3, <3>4, <3>5, <3>6
  <2>8. QED
    BY <2>4, <2>5, <2>6, <2>7 DEF Exits
<1>4. 0 \in Good
  BY <1>1, <1>3
<1>5. ASSUME NEW n \in Nat, n \in Good PROVE n + 1 \in Good
  <2>1. SUFFICES ASSUME n + 1 < L PROVE Fine(L - (n + 1))
    OBVIOUS
  <2> DEFINE j == L - (n + 1)
  <2>2. j \in 1 .. L /\ j + 1 = L - n /\ n < L
    BY <1>1, <2>1
  <2> HIDE DEF j, Fine
  <2>3. Fine(j + 1)
    BY <1>5, <2>2
  <2>4. Fine(j)
    BY <1>3, <2>2, <2>3
  <2>5. QED
    BY <2>4 DEF j
<1> HIDE DEF Good
<1>6. \A n \in Nat : n \in Good
  BY <1>4, <1>5, Induction
<1>7. Fine(k)
  <2>1. L - k \in Nat /\ L - k < L /\ L - (L - k) = k
    BY <1>1
  <2> HIDE DEF Fine
  <2>2. QED
    BY <1>6, <2>1 DEF Good
<1>8. QED
  BY <1>2, <1>7

-----------------------------------------------------------------------------
Token == [type : Kind, start : Nat, end : Nat, text : Text]

\* The token whose first byte is at position start.
TokenAt(s, start) ==
  LET rest == Run(s)[start + 1][Enter(s[start])] IN
  [type  |-> rest.type,
   start |-> start,
   end   |-> rest.end,
   text  |-> (IF s[start] \in {SQ, DQ} THEN <<>> ELSE <<s[start]>>) \o rest.text]

\* A token starts at the first byte that is no whitespace.
LEMMA LexFinds ==
  ASSUME NEW s \in Text, NEW i \in 1 .. Len(s) + 1
  PROVE  \/ /\ \A k \in i .. Len(s) : IsSpace(s[k])
            /\ Lex(s, i) = NoTok
         \/ \E start \in i .. Len(s) :
              /\ ~IsSpace(s[start])
              /\ \A k \in i .. start - 1 : IsSpace(s[k])
              /\ Lex(s, i) = TokenAt(s, start)
<1> DEFINE more == {k \in i .. Len(s) : ~IsSpace(s[k])}
<1>1. CASE more = {}
  <2>1. Lex(s, i) = NoTok
    BY <1>1 DEF Lex
  <2>2. QED
    BY <1>1, <2>1
<1>2. CASE more # {}
  <2>1. more \in SUBSET Nat
    BY DEF Text
  <2>2. \E x \in more : \A y \in more : x <= y
    <3> HIDE DEF more
    <3>1. QED
      BY <1>2, <2>1, LeastNumber
  <2>3. Min(more) \in more /\ \A y \in more : Min(more) <= y
    <3> HIDE DEF more
    <3>1. QED
      BY <2>2 DEF Min
  <2>4. PICK start : start = Min(more)
    OBVIOUS
  <2>5. start \in i .. Len(s) /\ ~IsSpace(s[start])
    BY <2>3, <2>4
  <2>6. \A k \in i .. start - 1 : IsSpace(s[k])
    BY <2>3, <2>4, <2>5 DEF Text
  <2>7. Lex(s, i) = TokenAt(s, start)
    BY <1>2, <2>4 DEF Lex, TokenAt
  <2>8. QED
    BY <2>5, <2>6, <2>7
<1>3. QED
  BY <1>1, <1>2

\* A token is some of the line, and its text is no longer than it.
LEMMA TokenBounds ==
  ASSUME NEW s \in Text, NEW start \in 1 .. Len(s)
  PROVE  /\ TokenAt(s, start) \in Token
         /\ TokenAt(s, start).start = start
         /\ TokenAt(s, start).end \in start + 1 .. Len(s) + 1
         /\ Len(TokenAt(s, start).text) <= TokenAt(s, start).end - start
<1> DEFINE c == s[start]
           q == Enter(c)
           rest == Run(s)[start + 1][q]
           first == IF c \in {SQ, DQ} THEN <<>> ELSE <<c>>
<1>1. Len(s) \in Nat /\ c \in Byte \ {0}
  BY DEF Text
<1>2. q \in States
  BY DEF Enter, States
<1>3. /\ rest \in Result /\ rest.end \in start + 1 .. Len(s) + 1
      /\ Len(rest.text) <= rest.end - (start + 1)
  <2>1. start + 1 \in 1 .. Len(s) + 1
    BY <1>1
  <2> HIDE DEF q
  <2>2. QED
    BY <1>2, <2>1, RunBounds
<1>4. first \in Text /\ Len(first) <= 1
  <2>1. <<c>> \in Text /\ <<>> \in Text /\ Len(<<c>>) <= 1 /\ Len(<<>>) <= 1
    BY <1>1 DEF Text
  <2>2. QED
    BY <2>1
<1>5. TokenAt(s, start) = [type |-> rest.type, start |-> start, end |-> rest.end,
                           text |-> first \o rest.text]
  BY DEF TokenAt
<1> HIDE DEF first, rest
<1>6. first \o rest.text \in Text /\ Len(first \o rest.text) = Len(first) + Len(rest.text)
  BY <1>3, <1>4 DEF Text, Result
<1>7. rest.type \in Kind /\ rest.end \in Nat /\ Len(rest.text) \in Nat /\ Len(first) \in Nat
  BY <1>3, <1>4 DEF Result, Text
<1>8. QED
  BY <1>1, <1>3, <1>4, <1>5, <1>6, <1>7 DEF Token

(***************************************************************************)
(* What lex_next() promises its callers for any line: NULL exactly when    *)
(* only whitespace is left; else the first token that is left, which is    *)
(* not empty, ends on the line, and has no more text than it has bytes.    *)
(***************************************************************************)
LEMMA LexPromises ==
  ASSUME NEW s \in Text, NEW i \in 1 .. Len(s) + 1
  PROVE  /\ Lex(s, i) = NoTok => \A k \in i .. Len(s) : IsSpace(s[k])
         /\ Lex(s, i) # NoTok =>
              /\ Lex(s, i) \in Token
              /\ Lex(s, i).start \in i .. Len(s)
              /\ \A k \in i .. Lex(s, i).start - 1 : IsSpace(s[k])
              /\ Lex(s, i).end \in Lex(s, i).start + 1 .. Len(s) + 1
              /\ Len(Lex(s, i).text) <= Lex(s, i).end - Lex(s, i).start
<1>1. CASE /\ \A k \in i .. Len(s) : IsSpace(s[k])
           /\ Lex(s, i) = NoTok
  BY <1>1
<1>2. ASSUME NEW start \in i .. Len(s), ~IsSpace(s[start]),
             \A k \in i .. start - 1 : IsSpace(s[k]),
             Lex(s, i) = TokenAt(s, start)
      PROVE  /\ Lex(s, i) # NoTok
             /\ Lex(s, i) \in Token
             /\ Lex(s, i).start \in i .. Len(s)
             /\ \A k \in i .. Lex(s, i).start - 1 : IsSpace(s[k])
             /\ Lex(s, i).end \in Lex(s, i).start + 1 .. Len(s) + 1
             /\ Len(Lex(s, i).text) <= Lex(s, i).end - Lex(s, i).start
  <2>1. start \in 1 .. Len(s)
    BY DEF Text
  <2>2. /\ TokenAt(s, start) \in Token
        /\ TokenAt(s, start).start = start
        /\ TokenAt(s, start).end \in start + 1 .. Len(s) + 1
        /\ Len(TokenAt(s, start).text) <= TokenAt(s, start).end - start
    BY <2>1, TokenBounds
  <2>3. TokenAt(s, start) # NoTok
    BY <2>2 DEF Token, Kind, NoTok
  <2>4. QED
    BY <1>2, <2>2, <2>3
<1>3. QED
  BY <1>1, <1>2, LexFinds

\* The loop over the tokens, from any position, comes to the end of the line.
LEMMA TokensFromIs ==
  ASSUME NEW s \in Text
  PROVE  /\ TokensFrom(s) \in [1 .. Len(s) + 1 -> Seq(Token)]
         /\ \A i \in 1 .. Len(s) + 1 :
              TokensFrom(s)[i] = IF Lex(s, i) = NoTok THEN <<>>
                                 ELSE <<Lex(s, i)>> \o TokensFrom(s)[Lex(s, i).end]
<1>0. PICK L \in Nat : L = Len(s) + 1 /\ L >= 1
  BY DEF Text
<1> DEFINE S == Seq(Token)
           Def(i, rest) == IF Lex(s, i) = NoTok THEN <<>>
                           ELSE <<Lex(s, i)>> \o rest
           step == [n \in Nat |-> [f \in [Nat -> S] |->
                      IF n < L THEN Def(L - n, f[L - Lex(s, L - n).end]) ELSE <<>>]]
<1>1. L \in Nat /\ L >= 1 /\ <<>> \in S
  BY <1>0
<1>2. ASSUME NEW i \in 1 .. L, Lex(s, i) # NoTok
      PROVE  Lex(s, i) \in Token /\ Lex(s, i).end \in i + 1 .. L
  <2>1. /\ Lex(s, i) \in Token
        /\ Lex(s, i).start \in i .. Len(s)
        /\ Lex(s, i).end \in Lex(s, i).start + 1 .. Len(s) + 1
    BY <1>0, <1>2, LexPromises
  <2>2. QED
    BY <1>0, <2>1
<1>3. ASSUME NEW i \in 1 .. L, NEW rest, Lex(s, i) # NoTok => rest \in S
      PROVE  Def(i, rest) \in S
  <2>1. CASE Lex(s, i) = NoTok
    BY <1>1, <2>1
  <2>2. CASE Lex(s, i) # NoTok
    <3>1. <<Lex(s, i)>> \in S /\ rest \in S
      BY <1>2, <1>3, <2>2
    <3>2. <<Lex(s, i)>> \o rest \in S
      BY <3>1
    <3>3. QED
      BY <2>2, <3>2
  <2>3. QED
    BY <2>1, <2>2
<1>4. step \in [Nat -> [[Nat -> S] -> S]]
  <2>1. ASSUME NEW n \in Nat, NEW f \in [Nat -> S], n < L
        PROVE  Def(L - n, f[L - Lex(s, L - n).end]) \in S
    <3>1. PICK i \in 1 .. L : i = L - n
      BY <1>1, <2>1
    <3>2. ASSUME Lex(s, i) # NoTok PROVE f[L - Lex(s, i).end] \in S
      <4>1. PICK e \in i + 1 .. L : e = Lex(s, i).end
        BY <1>2, <3>2
      <4>2. f[L - e] \in S
        OBVIOUS
      <4>3. QED
        BY <4>1, <4>2, Zenon
    <3> HIDE DEF Def, S
    <3>3. QED
      BY <1>3, <3>1, <3>2
  <2> HIDE DEF Def, S
  <2>2. QED
    BY <1>1, <2>1
<1>5. ASSUME NEW n \in Nat, NEW g \in [Nat -> S], NEW h \in [Nat -> S],
             \A m \in 0 .. n - 1 : g[m] = h[m]
      PROVE  step[n][g] = step[n][h]
  <2>1. CASE n < L
    <3>1. PICK i \in 1 .. L : i = L - n
      BY <1>1, <2>1
    <3>2. ASSUME Lex(s, i) # NoTok PROVE L - Lex(s, i).end \in 0 .. n - 1
      <4>1. PICK e \in i + 1 .. L : e = Lex(s, i).end
        BY <1>2, <3>2
      <4>2. L - e \in 0 .. n - 1
        BY <3>1
      <4>3. QED
        BY <4>1, <4>2, Zenon
    <3>3. Def(L - n, g[L - Lex(s, L - n).end]) = Def(L - n, h[L - Lex(s, L - n).end])
      BY <1>5, <3>1, <3>2
    <3> HIDE DEF Def, S
    <3>4. QED
      BY <2>1, <3>3
  <2>2. CASE ~(n < L)
    BY <2>2
  <2>3. QED
    BY <2>1, <2>2
<1>6. PICK f : Fulfils(f, S, step)
  <2> DEFINE any == <<>>
  <2>1. any \in S
    BY <1>1
  <2>2. step \in Defs(S)
    <3> HIDE DEF S, step
    <3>1. QED
      BY <1>4, <1>5 DEF Defs
  <2> HIDE DEF S, step, any
  <2>3. QED
    BY <2>1, <2>2, Recursion
<1>7. f \in [Nat -> S] /\ \A n \in Nat : f[n] = step[n][f]
  BY <1>6 DEF Fulfils
<1> DEFINE g == [i \in 1 .. L |-> f[L - i]]
           Eq(from) == from = [i \in 1 .. L |-> Def(i, from[Lex(s, i).end])]
<1>8. Eq(g)
  <2>1. ASSUME NEW i \in 1 .. L PROVE g[i] = Def(i, g[Lex(s, i).end])
    <3>1. L - i \in Nat /\ L - i < L /\ L - (L - i) = i
      BY <1>1
    <3>2. f[L - i] = Def(i, f[L - Lex(s, i).end])
      <4> HIDE DEF Def, S
      <4>1. QED
        BY <1>7, <3>1
    <3>3. Lex(s, i) # NoTok => f[L - Lex(s, i).end] = g[Lex(s, i).end]
      <4>1. SUFFICES ASSUME Lex(s, i) # NoTok PROVE f[L - Lex(s, i).end] = g[Lex(s, i).end]
        OBVIOUS
      <4>2. Lex(s, i).end \in 1 .. L
        BY <1>1, <1>2, <4>1
      <4>3. QED
        BY <4>2
    <3>4. Def(i, f[L - Lex(s, i).end]) = Def(i, g[Lex(s, i).end])
      BY <3>3
    <3>5. QED
      BY <3>2, <3>4
  <2> HIDE DEF Def
  <2>2. QED
    BY <2>1
<1>9. Eq(TokensFrom(s))
  <2> HIDE DEF g
  <2>1. QED
    BY <1>0, <1>8, Zenon DEF TokensFrom
<1>10. ASSUME NEW i \in 1 .. L
       PROVE  TokensFrom(s)[i] = Def(i, TokensFrom(s)[Lex(s, i).end])
  <2> HIDE DEF Def
  <2>1. QED
    BY <1>9
<1>11. \A i \in 1 .. L : TokensFrom(s)[i] \in S
  <2> DEFINE Typed == {n \in Nat : n < L => TokensFrom(s)[L - n] \in S}
  <2>1. ASSUME NEW n \in Nat, \A m \in 0 .. n - 1 : m \in Typed PROVE n \in Typed
    <3>1. SUFFICES ASSUME n < L PROVE TokensFrom(s)[L - n] \in S
      OBVIOUS
    <3>2. PICK i \in 1 .. L : i = L - n
      BY <1>1, <3>1
    <3>3. ASSUME Lex(s, i) # NoTok PROVE TokensFrom(s)[Lex(s, i).end] \in S
      <4>1. PICK e \in i + 1 .. L : e = Lex(s, i).end
        BY <1>2, <3>3
      <4>2. L - e \in 0 .. n - 1 /\ L - e < L /\ L - (L - e) = e
        BY <1>1, <3>1, <3>2
      <4>3. L - e \in Typed
        BY <2>1, <4>2
      <4>4. QED
        BY <4>1, <4>2, <4>3
    <3> HIDE DEF Def, S
    <3>4. QED
      BY <1>3, <1>10, <3>2, <3>3
  <2> HIDE DEF Typed
  <2>2. \A n \in Nat : n \in Typed
    BY <2>1, StrongInduction
  <2>3. ASSUME NEW i \in 1 .. L PROVE TokensFrom(s)[i] \in S
    <3>1. L - i \in Nat /\ L - i < L /\ L - (L - i) = i
      BY <1>1
    <3>2. QED
      BY <2>2, <3>1 DEF Typed
  <2>4. QED
    BY <2>3
<1>12. TokensFrom(s) \in [1 .. L -> S]
  <2> HIDE DEF Def, S
  <2>1. QED
    BY <1>9, <1>11
<1>13. QED
  BY <1>0, <1>10, <1>12

-----------------------------------------------------------------------------
\* A byte that a word goes on with.
Plain(c) == ~IsSpace(c) /\ c \notin {NUL, SQ, DQ, PIPE}

LEMMA PlainStep ==
  ASSUME NEW c, Plain(c)
  PROVE  Step("word", c) = "word" /\ Emit("word", c) = <<c>> /\ Enter(c) = "word"
  BY DEF Plain, Step, Emit, Enter

\* A word is read to its end, as it stands.
LEMMA WordRuns ==
  ASSUME NEW s \in Text, NEW e \in 1 .. Len(s) + 1, e = Len(s) + 1 \/ s[e] = SP
  PROVE  \A k \in 1 .. e : (\A j \in k .. e - 1 : Plain(s[j])) =>
           Run(s)[k]["word"] = [type |-> "word", end |-> e, text |-> SubSeq(s, k, e - 1)]
<1> DEFINE Reads(k) == Run(s)[k]["word"] = [type |-> "word", end |-> e, text |-> SubSeq(s, k, e - 1)]
           G == {n \in Nat : n < e /\ (\A j \in e - n .. e - 1 : Plain(s[j])) => Reads(e - n)}
<1>0. Len(s) \in Nat /\ e \in Nat
  BY DEF Text
<1>1. 0 \in G
  <2>1. Step("word", At(s, e)) = "stop"
    BY <1>0 DEF Step, At, IsSpace, NUL, SP, HT, LF, VT, FF, CR
  <2>2. Run(s)[e]["word"] = [type |-> TokType("word"), end |-> e, text |-> <<>>]
    <3>1. Turned(Run(s)[e]["word"], e, "word", At(s, e), Run(s)[e + 1])
      BY RunTurns DEF States
    <3>2. QED
      BY <2>1, <3>1, Zenon DEF Turned
  <2>3. SubSeq(s, e, e - 1) = <<>> /\ TokType("word") = "word"
    BY <1>0, SubSeqEmpty DEF Text, TokType
  <2>4. Reads(e) /\ e - 0 = e
    BY <1>0, <2>2, <2>3
  <2>5. QED
    BY <2>4
<1>2. ASSUME NEW n \in Nat, n \in G PROVE n + 1 \in G
  <2>1. SUFFICES ASSUME n + 1 < e, \A j \in e - (n + 1) .. e - 1 : Plain(s[j])
                 PROVE  Reads(e - (n + 1))
    OBVIOUS
  <2>2. PICK k \in 1 .. Len(s) : k = e - (n + 1)
    BY <1>0, <2>1
  <2>3. k + 1 = e - n /\ k \in Nat /\ k <= e - 1 /\ \A j \in k .. e - 1 : Plain(s[j])
    BY <1>0, <2>1, <2>2
  <2>4. Reads(k + 1)
    <3>1. n < e /\ \A j \in e - n .. e - 1 : Plain(s[j])
      BY <1>0, <2>1
    <3>2. Reads(e - n)
      BY <1>2, <3>1
    <3>3. QED
      BY <2>3, <3>2
  <2>5. Plain(s[k]) /\ At(s, k) = s[k]
    BY <1>0, <2>2, <2>3 DEF At
  <2>6. PICK c \in Byte \ {0} : c = s[k]
    BY <2>2 DEF Text
  <2>7. Run(s)[k]["word"] = Before(<<c>>, Run(s)[k + 1]["word"])
    <3>1. Step("word", At(s, k)) = "word" /\ Emit("word", At(s, k)) = <<c>> /\ "word" \in States
      BY <2>5, <2>6, PlainStep DEF States
    <3>2. k \in 1 .. Len(s) + 1
      BY <1>0
    <3>3. QED
      <4>1. Turned(Run(s)[k]["word"], k, "word", At(s, k), Run(s)[k + 1])
        BY <3>1, <3>2, RunTurns
      <4>2. QED
        BY <3>1, <4>1, Zenon DEF Turned
  <2>8. <<c>> \o SubSeq(s, k + 1, e - 1) = SubSeq(s, k, e - 1)
    <3> DEFINE t == SubSeq(s, k + 1, e - 1)
               u == SubSeq(s, k, e - 1)
    <3>1. /\ t \in Seq(Byte \ {0}) /\ Len(t) = e - 1 - k
          /\ \A j \in 1 .. e - 1 - k : t[j] = s[k + j]
      <4>1. PICK a \in Nat, z \in Nat : a = k + 1 /\ z = e - 1 /\ a >= 1 /\ z <= Len(s) /\ a <= z + 1
        BY <1>0, <2>3
      <4>2. s \in Seq(Byte \ {0})
        BY DEF Text
      <4>3. SubSeq(s, a, z) \in Seq(Byte \ {0}) /\ Len(SubSeq(s, a, z)) = z + 1 - a
            /\ \A j \in 1 .. z + 1 - a : SubSeq(s, a, z)[j] = s[a + j - 1]
        BY <4>1, <4>2
      <4>4. \A j \in 1 .. z + 1 - a : a + j - 1 = k + j
        BY <4>1, <2>3
      <4>5. z + 1 - a = e - 1 - k
        BY <1>0, <2>3, <4>1
      <4>6. QED
        BY <4>1, <4>3, <4>4, <4>5
    <3>2. /\ u \in Seq(Byte \ {0}) /\ Len(u) = e - k
          /\ \A j \in 1 .. e - k : u[j] = s[k + j - 1]
      BY <1>0, <2>3 DEF Text
    <3>3. PICK w : w = <<c>> \o t
      OBVIOUS
    <3>4. /\ w \in Seq(Byte \ {0}) /\ Len(w) = 1 + Len(t) /\ w[1] = c
          /\ \A j \in 2 .. 1 + Len(t) : w[j] = t[j - 1]
      <4> HIDE DEF t
      <4>1. QED
        BY <2>6, <3>1, <3>3
    <3>5. ASSUME NEW j \in 1 .. Len(w) PROVE w[j] = u[j]
      <4>1. CASE j = 1
        BY <1>0, <2>3, <2>6, <3>2, <3>4, <4>1
      <4>2. CASE j # 1
        <5>1. PICK m \in Nat : m = j - 1 /\ m \in 1 .. Len(t) /\ j \in 2 .. 1 + Len(t)
          BY <1>0, <2>3, <3>1, <3>4, <4>2
        <5>2. w[j] = t[m] /\ t[m] = s[k + m]
          BY <3>1, <3>4, <5>1
        <5>3. j \in 1 .. e - k /\ k + j - 1 = k + m
          BY <1>0, <2>3, <3>1, <3>4, <5>1
        <5>4. QED
          BY <3>2, <5>2, <5>3
      <4>3. QED
        BY <4>1, <4>2
    <3>6. Len(w) = Len(u)
      BY <1>0, <2>3, <3>1, <3>2, <3>4
    <3> HIDE DEF t, u
    <3>7. w = u
      BY <3>2, <3>4, <3>5, <3>6, SeqEqual
    <3>8. QED
      BY <3>3, <3>7 DEF t, u
  <2>9. Reads(k)
    <3> DEFINE r == Run(s)[k + 1]["word"]
    <3>1. r.type = "word" /\ r.end = e /\ r.text = SubSeq(s, k + 1, e - 1)
      BY <2>4
    <3> HIDE DEF r
    <3>2. Before(<<c>>, r) = [type |-> "word", end |-> e, text |-> SubSeq(s, k, e - 1)]
      BY <2>8, <3>1, Zenon DEF Before
    <3>3. QED
      BY <2>7, <3>2 DEF r
  <2>10. QED
    BY <2>2, <2>9
<1>3. \A n \in Nat : n \in G
  <2> HIDE DEF G
  <2>1. QED
    BY <1>1, <1>2, Induction
<1>4. ASSUME NEW k \in 1 .. e, \A j \in k .. e - 1 : Plain(s[j]) PROVE Reads(k)
  <2>1. PICK n \in Nat : n = e - k /\ n < e /\ e - n = k
    BY <1>0
  <2>2. QED
    BY <1>3, <1>4, <2>1
<1>5. QED
  BY <1>4

\* A line of words, with one space between two.
IsWords(s) ==
  /\ s \in Text /\ s # <<>> /\ s[1] # SP /\ s[Len(s)] # SP
  /\ \A k \in 1 .. Len(s) : Plain(s[k]) \/ s[k] = SP
  /\ \A k \in 1 .. Len(s) - 1 : s[k] = SP => s[k + 1] # SP

\* The token that is the word from i to e.
IsWord(tok, s, i, e) ==
  /\ tok \in Token /\ tok.type = "word" /\ tok.start = i /\ tok.end = e
  /\ tok.text = SubSeq(s, i, e - 1)

LEMMA WordIsLexed ==
  ASSUME NEW s, IsWords(s), NEW i \in 1 .. Len(s), s[i] # SP
  PROVE  \E e \in i + 1 .. Len(s) + 1 :
           /\ e = Len(s) + 1 \/ s[e] = SP
           /\ \A j \in i .. e - 1 : s[j] # SP
           /\ IsWord(Lex(s, i), s, i, e) /\ Lex(s, i) = TokenAt(s, i)
<1>1. s \in Text /\ Len(s) \in Nat
  BY DEF IsWords, Text
<1>2. PICK e \in i + 1 .. Len(s) + 1 :
        (e = Len(s) + 1 \/ s[e] = SP) /\ \A j \in i .. e - 1 : s[j] # SP
  <2> DEFINE E == {p \in i .. Len(s) : s[p] = SP} \cup {Len(s) + 1}
  <2>1. E \in SUBSET Nat /\ E # {}
    BY <1>1
  <2>2. PICK e \in E : \A y \in E : e <= y
    <3> HIDE DEF E
    <3>1. QED
      BY <2>1, LeastNumber, Zenon
  <2>3. e \in i + 1 .. Len(s) + 1 /\ (e = Len(s) + 1 \/ s[e] = SP)
    BY <1>1, <2>2
  <2>4. ASSUME NEW j \in i .. e - 1 PROVE s[j] # SP
    BY <1>1, <2>2, <2>3, <2>4
  <2>5. QED
    BY <2>3, <2>4
<1>3. \A j \in i .. e - 1 : Plain(s[j])
  BY <1>1, <1>2 DEF IsWords
<1>4. i \in i .. e - 1 /\ i + 1 \in 1 .. e
  BY <1>1, <1>2
<1>5. Plain(s[i]) /\ \A j \in i + 1 .. e - 1 : Plain(s[j])
  BY <1>1, <1>3, <1>4
<1>6. Run(s)[i + 1]["word"] = [type |-> "word", end |-> e, text |-> SubSeq(s, i + 1, e - 1)]
  <2>1. e \in 1 .. Len(s) + 1
    BY <1>1, <1>2
  <2>2. QED
    BY <1>1, <1>2, <1>4, <1>5, <2>1, WordRuns
<1>7. Lex(s, i) = TokenAt(s, i)
  <2>1. ~IsSpace(s[i]) /\ i \in 1 .. Len(s) + 1
    BY <1>1, <1>5 DEF Plain
  <2>2. i \in i .. Len(s)
    BY <1>1
  <2>3. PICK start \in i .. Len(s) : (\A k \in i .. start - 1 : IsSpace(s[k])) /\ Lex(s, i) = TokenAt(s, start)
    BY <1>1, <2>1, <2>2, LexFinds
  <2>4. start = i
    BY <1>1, <2>1, <2>3
  <2>5. QED
    BY <2>3, <2>4
<1>8. IsWord(TokenAt(s, i), s, i, e)
  <2> DEFINE tok == TokenAt(s, i)
             r == Run(s)[i + 1]["word"]
  <2>1. tok \in Token
    BY <1>1, TokenBounds
  <2>2. Enter(s[i]) = "word" /\ s[i] \notin {SQ, DQ}
    BY <1>5, PlainStep DEF Plain
  <2>3. tok = [type |-> r.type, start |-> i, end |-> r.end, text |-> <<s[i]>> \o r.text]
    BY <2>2 DEF TokenAt
  <2>4. Run(s)[i]["word"] = [type |-> "word", end |-> e, text |-> SubSeq(s, i, e - 1)]
    <3>1. e \in 1 .. Len(s) + 1 /\ i \in 1 .. e
      BY <1>1, <1>2
    <3>2. QED
      BY <1>1, <1>2, <1>3, <3>1, WordRuns
  <2>5. Run(s)[i]["word"] = Before(<<s[i]>>, r)
    <3>1. At(s, i) = s[i]
      BY <1>1 DEF At
    <3>2. Step("word", At(s, i)) = "word" /\ Emit("word", At(s, i)) = <<s[i]>> /\ "word" \in States
      BY <1>5, <3>1, PlainStep DEF States
    <3>3. i \in 1 .. Len(s) + 1
      BY <1>1
    <3>4. QED
      <4>1. Turned(Run(s)[i]["word"], i, "word", At(s, i), Run(s)[i + 1])
        BY <1>1, <3>2, <3>3, RunTurns
      <4>2. QED
        BY <3>2, <4>1, Zenon DEF Turned
  <2>6. <<s[i]>> \o r.text = SubSeq(s, i, e - 1)
    <3> HIDE DEF r
    <3>1. Before(<<s[i]>>, r).text = SubSeq(s, i, e - 1)
      BY <2>4, <2>5
    <3>2. Before(<<s[i]>>, r).text = <<s[i]>> \o r.text
      BY DEF Before
    <3>3. QED
      BY <3>1, <3>2
  <2>7. r.type = "word" /\ r.end = e
    BY <1>6
  <2> HIDE DEF r, tok
  <2>8. tok.type = "word" /\ tok.start = i /\ tok.end = e /\ tok.text = SubSeq(s, i, e - 1)
    BY <2>3, <2>6, <2>7
  <2>9. QED
    BY <2>1, <2>8 DEF IsWord, tok
<1>9. QED
  BY <1>2, <1>7, <1>8

\* What the tokens of a line of words are, from the beginning of a word on.
WordsFrom(toks, s, i) ==
  /\ toks \in Seq(Token) /\ Len(toks) >= 1 /\ toks[1].start = i
  /\ \A k \in 1 .. Len(toks) : \E a \in i .. Len(s), e \in i + 1 .. Len(s) + 1 :
       /\ IsWord(toks[k], s, a, e) /\ a < e
       /\ k = Len(toks) => e = Len(s) + 1
       /\ k < Len(toks) => e < Len(s) /\ s[e] = SP /\ toks[k + 1].start = e + 1
  /\ \A p \in i .. Len(s) : s[p] = SP => \E k \in 1 .. Len(toks) - 1 : toks[k].end = p

LEMMA WordsAreLexed ==
  ASSUME NEW s, IsWords(s)
  PROVE  \A i \in 1 .. Len(s) : s[i] # SP => WordsFrom(TokensFrom(s)[i], s, i)
<1>1. s \in Text /\ Len(s) \in Nat /\ Len(s) >= 1
  BY DEF IsWords, Text
<1> DEFINE X == 1 .. Len(s)
           m == [i \in X |-> Len(s) - i]
           Good(i) == s[i] # SP => WordsFrom(TokensFrom(s)[i], s, i)
           G == {i \in X : Good(i)}
<1>2. m \in [X -> Nat]
  BY <1>1
<1>3. ASSUME NEW i \in X, \A y \in X : m[y] < m[i] => Good(y), s[i] # SP
      PROVE  WordsFrom(TokensFrom(s)[i], s, i)
  <2>1. PICK e \in i + 1 .. Len(s) + 1 :
          /\ e = Len(s) + 1 \/ s[e] = SP
          /\ \A j \in i .. e - 1 : s[j] # SP
          /\ IsWord(Lex(s, i), s, i, e)
    BY <1>3, WordIsLexed
  <2> DEFINE tok == Lex(s, i)
             rest == TokensFrom(s)[e]
  <2>2. e \in 1 .. Len(s) + 1 /\ tok \in Token /\ tok # NoTok /\ tok.end = e /\ tok.start = i
    BY <1>1, <2>1 DEF IsWord, NoTok
  <2>3. rest \in Seq(Token) /\ TokensFrom(s)[i] = <<tok>> \o rest
    <3>1. i \in 1 .. Len(s) + 1
      BY <1>1
    <3>2. QED
      BY <1>1, <2>2, <3>1, TokensFromIs
  <2>4. CASE e = Len(s) + 1
    <3>1. Lex(s, e) = NoTok
      BY <1>1, <2>2, <2>4, LexFinds
    <3>2. rest = <<>>
      BY <1>1, <2>2, <3>1, TokensFromIs
    <3>3. TokensFrom(s)[i] = <<tok>>
      BY <2>2, <2>3, <3>2
    <3> HIDE DEF tok
    <3>4. /\ <<tok>> \in Seq(Token) /\ Len(<<tok>>) = 1 /\ <<tok>>[1] = tok
      BY <2>2
    <3>5. IsWord(tok, s, i, e) /\ i \in i .. Len(s) /\ i < e
      BY <1>1, <2>1 DEF tok
    <3>6. ASSUME NEW p \in i .. Len(s), s[p] = SP PROVE FALSE
      BY <1>1, <2>1, <2>4, <3>6
    <3> DEFINE one == <<tok>>
    <3> HIDE DEF one
    <3>7. one \in Seq(Token) /\ Len(one) = 1 /\ one[1] = tok
      BY <3>4 DEF one
    <3>8. WordsFrom(one, s, i)
      BY <2>2, <2>4, <3>5, <3>6, <3>7 DEF WordsFrom
    <3>9. QED
      BY <3>3, <3>8 DEF one
  <2>5. CASE e # Len(s) + 1
    <3>1. e \in X /\ s[e] = SP /\ e < Len(s) /\ e + 1 \in X /\ s[e + 1] # SP
      <4>1. e \in X /\ s[e] = SP
        BY <1>1, <2>1, <2>5
      <4>2. e # Len(s)
        BY <4>1 DEF IsWords
      <4>3. e \in 1 .. Len(s) - 1
        BY <1>1, <4>1, <4>2
      <4>4. s[e + 1] # SP
        BY <4>1, <4>3 DEF IsWords
      <4>5. QED
        BY <1>1, <4>1, <4>3, <4>4
    <3>2. Lex(s, e) = Lex(s, e + 1)
      <4>1. Lex(s, e + 1) = TokenAt(s, e + 1)
        BY <3>1, WordIsLexed
      <4>2. Plain(s[e + 1])
        BY <3>1 DEF IsWords
      <4>3. ~IsSpace(s[e + 1]) /\ e + 1 \in e .. Len(s)
        BY <1>1, <3>1, <4>2 DEF Plain
      <4>4. PICK start \in e .. Len(s) :
              /\ ~IsSpace(s[start]) /\ \A k \in e .. start - 1 : IsSpace(s[k])
              /\ Lex(s, e) = TokenAt(s, start)
        BY <1>1, <2>2, <4>3, LexFinds
      <4>5. IsSpace(s[e])
        BY <3>1 DEF IsSpace
      <4>6. start = e + 1
        BY <1>1, <3>1, <4>3, <4>4, <4>5
      <4>7. QED
        BY <4>1, <4>4, <4>6
    <3>3. rest = TokensFrom(s)[e + 1]
      <4>1. e + 1 \in 1 .. Len(s) + 1
        BY <1>1, <3>1
      <4>2. QED
        BY <1>1, <2>2, <3>2, <4>1, TokensFromIs
    <3>4. WordsFrom(rest, s, e + 1)
      <4>1. m[e + 1] < m[i]
        BY <1>1, <2>1, <3>1
      <4>2. Good(e + 1)
        BY <1>3, <3>1, <4>1
      <4>3. QED
        BY <3>1, <3>3, <4>2
    <3>5. PICK toks : toks = <<tok>> \o rest
      OBVIOUS
    <3> HIDE DEF tok, rest
    <3>6. /\ toks \in Seq(Token) /\ Len(rest) \in Nat /\ Len(toks) = Len(rest) + 1 /\ toks[1] = tok
          /\ \A k \in 1 .. Len(rest) : toks[k + 1] = rest[k]
      BY <2>2, <2>3, <3>5
    <3>7. ASSUME NEW k \in 1 .. Len(toks)
          PROVE  \E a \in i .. Len(s), f \in i + 1 .. Len(s) + 1 :
                   /\ IsWord(toks[k], s, a, f) /\ a < f
                   /\ k = Len(toks) => f = Len(s) + 1
                   /\ k < Len(toks) => f < Len(s) /\ s[f] = SP /\ toks[k + 1].start = f + 1
      <4>1. CASE k = 1
        <5>1. IsWord(toks[k], s, i, e) /\ i \in i .. Len(s) /\ i < e
          BY <1>1, <2>1, <3>6, <4>1 DEF tok
        <5>2. Len(rest) >= 1 /\ rest[1].start = e + 1
          BY <3>4 DEF WordsFrom
        <5>3. k < Len(toks) /\ toks[k + 1].start = e + 1
          BY <3>6, <4>1, <5>2
        <5>4. QED
          BY <3>1, <5>1, <5>3
      <4>2. CASE k # 1
        <5>1. PICK n \in 1 .. Len(rest) : k = n + 1
          <6>1. k - 1 \in 1 .. Len(rest) /\ k = (k - 1) + 1
            BY <3>6, <4>2
          <6>2. QED
            BY <6>1
        <5>2. PICK a \in e + 1 .. Len(s), f \in e + 1 + 1 .. Len(s) + 1 :
                /\ IsWord(rest[n], s, a, f) /\ a < f
                /\ n = Len(rest) => f = Len(s) + 1
                /\ n < Len(rest) => f < Len(s) /\ s[f] = SP /\ rest[n + 1].start = f + 1
          BY <3>4, <5>1 DEF WordsFrom
        <5>3. a \in i .. Len(s) /\ f \in i + 1 .. Len(s) + 1
          BY <1>1, <2>1, <3>1
        <5>4. toks[k] = rest[n] /\ (k = Len(toks) <=> n = Len(rest)) /\ (k < Len(toks) <=> n < Len(rest))
          BY <3>6, <5>1
        <5>5. k < Len(toks) => toks[k + 1] = rest[n + 1]
          <6>1. SUFFICES ASSUME k < Len(toks) PROVE toks[k + 1] = rest[n + 1]
            OBVIOUS
          <6>2. PICK n2 \in 1 .. Len(rest) : n2 = n + 1 /\ k + 1 = n2 + 1
            BY <3>6, <5>1, <6>1
          <6>3. QED
            BY <3>6, <6>2
        <5>6. QED
          BY <5>2, <5>3, <5>4, <5>5
      <4>3. QED
        BY <4>1, <4>2
    <3>8. ASSUME NEW p \in i .. Len(s), s[p] = SP PROVE \E k \in 1 .. Len(toks) - 1 : toks[k].end = p
      <4>0. Len(rest) >= 1
        BY <3>4 DEF WordsFrom
      <4>1. CASE p = e
        BY <2>2, <3>6, <4>0, <4>1
      <4>2. CASE p # e
        <5>1. p \in e + 1 .. Len(s)
          BY <1>1, <2>1, <3>1, <3>8, <4>2
        <5>2. PICK k \in 1 .. Len(rest) - 1 : rest[k].end = p
          BY <3>4, <3>8, <5>1 DEF WordsFrom
        <5>3. k \in 1 .. Len(rest) /\ k + 1 \in 1 .. Len(toks) - 1
          BY <3>6, <5>2
        <5>4. toks[k + 1].end = p
          BY <3>6, <5>2, <5>3
        <5>5. QED
          BY <5>3, <5>4
      <4>3. QED
        BY <4>1, <4>2
    <3>9. WordsFrom(toks, s, i)
      <4>1. Len(toks) >= 1 /\ toks[1].start = i
        BY <2>2, <3>6
      <4>2. QED
        BY <3>6, <3>7, <3>8, <4>1 DEF WordsFrom
    <3>10. QED
      BY <2>3, <3>5, <3>9
  <2>6. QED
    BY <2>4, <2>5
<1>4. Inductive(G, X, m)
  <2>1. ASSUME NEW i \in X, \A y \in X : m[y] < m[i] => y \in G PROVE i \in G
    <3>1. \A y \in X : m[y] < m[i] => Good(y)
      BY <2>1
    <3> HIDE DEF m, X
    <3>2. Good(i)
      BY <1>3, <3>1
    <3>3. QED
      BY <3>2
  <2> HIDE DEF G, m, X
  <2>2. QED
    BY <2>1 DEF Inductive
<1>5. \A i \in X : i \in G
  <2> HIDE DEF G, m, X
  <2>1. QED
    BY <1>2, <1>4, MeasureInduction
<1>6. QED
  BY <1>5

-----------------------------------------------------------------------------
\* z is s up to byte m.
Cut(z, s, m) ==
  /\ z \in Text /\ m \in 0 .. Len(s) /\ Len(z) = m
  /\ \A j \in 1 .. m : z[j] = s[j]

\* A result that the loop comes to without an error before byte m + 2.
Within(r, m) == r.type # "error" /\ r.end <= m + 1

\* What is read without an error does not depend on what comes after it: the
\* byte a word ends at may as well be the terminator.
LEMMA RunIsLocal ==
  ASSUME NEW s \in Text, NEW m, NEW z, Cut(z, s, m)
  PROVE  \A k \in 1 .. m + 1, q \in States :
           Within(Run(s)[k][q], m) => Run(z)[k][q] = Run(s)[k][q]
<1> DEFINE Local(k) == \A q \in States : Within(Run(s)[k][q], m) => Run(z)[k][q] = Run(s)[k][q]
           G == {n \in Nat : n <= m => Local(m + 1 - n)}
<1>1. z \in Text /\ m \in Nat /\ Len(z) = m /\ Len(s) \in Nat /\ m <= Len(s)
  BY DEF Cut, Text
<1>2. ASSUME NEW k \in 1 .. m + 1, k <= m => Local(k + 1) PROVE Local(k)
  <2>1. SUFFICES ASSUME NEW q \in States, Within(Run(s)[k][q], m)
                 PROVE  Run(z)[k][q] = Run(s)[k][q]
    OBVIOUS
  <2>2. k \in 1 .. Len(s) + 1 /\ k \in 1 .. Len(z) + 1
    BY <1>1
  <2>3. PICK c : c = At(s, k)
    OBVIOUS
  <2>4. PICK d : d = At(z, k)
    OBVIOUS
  <2> DEFINE next == Step(q, c)
             r == Run(s)[k + 1][next]
             y == Run(z)[k + 1][next]
             there == Step(q, d)
  <2>5. /\ next = "error" => Run(s)[k][q] = [type |-> "error", end |-> k, text |-> <<>>]
        /\ next = "stop"  => Run(s)[k][q] = [type |-> TokType(q), end |-> k, text |-> <<>>]
        /\ next = "close" => Run(s)[k][q] = [type |-> TokType(q), end |-> k + 1, text |-> <<>>]
        /\ next \in States => Run(s)[k][q] = Before(Emit(q, c), r)
    <3>1. Turned(Run(s)[k][q], k, q, c, Run(s)[k + 1])
      BY <2>2, <2>3, RunTurns
    <3>2. QED
      BY <3>1, Zenon DEF Turned
  <2>6. /\ there = "stop" => Run(z)[k][q] = [type |-> TokType(q), end |-> k, text |-> <<>>]
        /\ there = "close" => Run(z)[k][q] = [type |-> TokType(q), end |-> k + 1, text |-> <<>>]
        /\ there \in States => Run(z)[k][q] = Before(Emit(q, d), Run(z)[k + 1][there])
    <3>1. Turned(Run(z)[k][q], k, q, d, Run(z)[k + 1])
      BY <1>1, <2>2, <2>4, RunTurns
    <3>2. QED
      BY <3>1, Zenon DEF Turned
  <2>7. c \in Byte /\ (c = NUL <=> k = Len(s) + 1) /\ next \in States \cup Exits
        /\ (c = NUL => next \in {"stop", "error"})
        /\ (next \in States => Emit(q, c) \in Text)
    <3>1. c \in Byte /\ (c = NUL <=> k = Len(s) + 1)
      BY <2>2, <2>3, AtFacts
    <3> HIDE DEF next
    <3>2. QED
      BY <3>1, StepFacts DEF next
  <2>8. next # "error"
    BY <2>1, <2>5 DEF Within
  <2>9. ASSUME next \in States
        PROVE  k + 1 \in 1 .. Len(s) + 1 /\ r \in Result /\ r.end >= k + 1
               /\ Run(s)[k][q].end = r.end /\ Run(s)[k][q].type = r.type
    <3>1. k + 1 \in 1 .. Len(s) + 1
      BY <1>1, <2>2, <2>7, <2>9 DEF States
    <3>2. r \in Result /\ r.end \in k + 1 .. Len(s) + 1
      BY <2>9, <3>1, RunBounds
    <3> HIDE DEF r, next
    <3>3. Run(s)[k][q].end = r.end /\ Run(s)[k][q].type = r.type
      BY <2>5, <2>7, <2>9, <3>2, BeforeIs
    <3>4. QED
      BY <1>1, <3>1, <3>2, <3>3
  <2>10. CASE k <= m
    <3>1. d = c
      BY <1>1, <2>2, <2>3, <2>4, <2>10 DEF At, Cut
    <3>2. CASE next \in {"stop", "close"}
      BY <2>5, <2>6, <3>1, <3>2
    <3>3. CASE next \in States
      <4>1. Within(r, m)
        BY <2>1, <2>9, <3>3 DEF Within
      <4>2. y = r
        BY <1>2, <2>10, <3>3, <4>1
      <4> HIDE DEF y, r, next
      <4>3. Run(z)[k][q] = Before(Emit(q, d), y)
        BY <2>6, <3>1, <3>3 DEF y, next
      <4>4. QED
        BY <2>5, <3>1, <3>3, <4>2, <4>3
    <3>4. QED
      BY <2>7, <2>8, <3>2, <3>3 DEF Exits
  <2>11. CASE k = m + 1
    <3>1. d = NUL
      BY <1>1, <2>4, <2>11 DEF At
    <3>2. next # "close"
      BY <1>1, <2>1, <2>5, <2>11 DEF Within
    <3>3. next \notin States
      BY <1>1, <2>1, <2>9, <2>11 DEF Within, Result
    <3>4. next = "stop"
      BY <2>7, <2>8, <3>2, <3>3 DEF Exits
    <3>5. q \in {"pipe", "word"}
      BY <3>4 DEF Step, States
    <3>6. there = "stop"
      BY <3>1, <3>5 DEF Step
    <3>7. QED
      BY <2>5, <2>6, <3>4, <3>6
  <2>12. QED
    BY <1>1, <2>10, <2>11
<1>3. 0 \in G
  BY <1>1, <1>2
<1>4. ASSUME NEW n \in Nat, n \in G PROVE n + 1 \in G
  <2>1. SUFFICES ASSUME n + 1 <= m PROVE Local(m + 1 - (n + 1))
    OBVIOUS
  <2>2. PICK k \in 1 .. m + 1 : k = m + 1 - (n + 1) /\ k + 1 = m + 1 - n
    BY <1>1, <2>1
  <2> HIDE DEF Local
  <2>3. Local(k + 1)
    BY <1>1, <1>4, <2>1, <2>2
  <2>4. Local(k)
    BY <1>2, <2>3
  <2>5. QED
    BY <2>2, <2>4
<1>5. \A n \in Nat : n \in G
  <2> HIDE DEF G
  <2>1. QED
    BY <1>3, <1>4, Induction
<1>6. ASSUME NEW k \in 1 .. m + 1 PROVE Local(k)
  <2>1. PICK n \in Nat : n = m + 1 - k /\ n <= m /\ k = m + 1 - n
    BY <1>1
  <2> HIDE DEF Local
  <2>2. QED
    BY <1>5, <2>1
<1>7. QED
  BY <1>6

\* So is the token that starts at a byte.
LEMMA TokenIsLocal ==
  ASSUME NEW s \in Text, NEW m, NEW z, Cut(z, s, m), NEW start \in 1 .. m,
         Within(TokenAt(s, start), m)
  PROVE  TokenAt(z, start) = TokenAt(s, start)
<1>1. m \in Nat /\ start + 1 \in 1 .. m + 1 /\ s[start] \in Byte \ {0} /\ z[start] = s[start]
  BY DEF Cut, Text
<1>2. PICK q \in States : q = Enter(s[start])
  BY DEF Enter, States
<1> DEFINE r == Run(s)[start + 1][q]
<1>3. TokenAt(s, start).type = r.type /\ TokenAt(s, start).end = r.end
  BY <1>2 DEF TokenAt
<1>4. Within(r, m)
  BY <1>3 DEF Within
<1>5. Run(z)[start + 1][q] = r
  BY <1>1, <1>4, RunIsLocal
<1>6. QED
  BY <1>1, <1>2, <1>5 DEF TokenAt

\* And the next token from a byte on.
LEMMA LexIsLocal ==
  ASSUME NEW s \in Text, NEW m, NEW z, Cut(z, s, m), NEW i \in 1 .. Len(s) + 1,
         Lex(s, i) # NoTok, Within(Lex(s, i), m)
  PROVE  i <= m /\ Lex(z, i) = Lex(s, i)
<1>1. z \in Text /\ m \in Nat /\ Len(z) = m /\ Len(s) \in Nat /\ m <= Len(s) /\ i \in Nat
  BY DEF Cut, Text
<1>2. PICK start \in i .. Len(s) :
        /\ ~IsSpace(s[start]) /\ \A k \in i .. start - 1 : IsSpace(s[k])
        /\ Lex(s, i) = TokenAt(s, start)
  BY LexFinds
<1>3. start \in 1 .. Len(s) /\ start \in Nat
  BY <1>1
<1>4. TokenAt(s, start).end \in start + 1 .. Len(s) + 1
  BY <1>3, TokenBounds
<1>5. start \in 1 .. m /\ i <= m /\ i \in 1 .. Len(z) + 1
  BY <1>1, <1>2, <1>3, <1>4 DEF Within
<1>6. TokenAt(z, start) = TokenAt(s, start)
  BY <1>2, <1>5, TokenIsLocal
<1>7. z[start] = s[start] /\ \A k \in i .. start - 1 : z[k] = s[k]
  BY <1>1, <1>5 DEF Cut
<1>8. PICK other \in i .. Len(z) :
        /\ ~IsSpace(z[other]) /\ \A k \in i .. other - 1 : IsSpace(z[k])
        /\ Lex(z, i) = TokenAt(z, other)
  <2>1. ~IsSpace(z[start]) /\ start \in i .. Len(z)
    BY <1>1, <1>2, <1>5, <1>7
  <2>2. QED
    BY <1>1, <1>5, <2>1, LexFinds
<1>9. other = start
  <2>1. ~(other < start)
    BY <1>1, <1>2, <1>7, <1>8
  <2>2. ~(start < other)
    BY <1>1, <1>2, <1>3, <1>7, <1>8
  <2>3. QED
    BY <1>1, <1>3, <2>1, <2>2
<1>10. QED
  BY <1>2, <1>5, <1>6, <1>8, <1>9

-----------------------------------------------------------------------------
\* Token k of those from i on: it ends after i, and the next one is what is
\* found from its end on.
Linked(s, i, toks, k) ==
  /\ toks[k] \in Token /\ toks[k].end \in i + 1 .. Len(s) + 1
  /\ k < Len(toks) => toks[k + 1] = Lex(s, toks[k].end) /\ toks[k + 1] # NoTok

LEMMA TokensAreLinked ==
  ASSUME NEW s \in Text
  PROVE  \A k \in Nat : \A i \in 1 .. Len(s) + 1 :
           k \in 1 .. Len(TokensFrom(s)[i]) => Linked(s, i, TokensFrom(s)[i], k)
<1> DEFINE T(i) == TokensFrom(s)[i]
           Good(k) == \A i \in 1 .. Len(s) + 1 : k \in 1 .. Len(T(i)) => Linked(s, i, T(i), k)
           G == {k \in Nat : Good(k)}
<1>1. Len(s) \in Nat
  BY DEF Text
<1>2. ASSUME NEW i \in 1 .. Len(s) + 1, T(i) # <<>>
      PROVE  \E tok \in Token : \E e \in i + 1 .. Len(s) + 1 :
               /\ tok = Lex(s, i) /\ tok # NoTok /\ tok.end = e
               /\ T(e) \in Seq(Token) /\ T(i) = <<tok>> \o T(e)
  <2>1. Lex(s, i) # NoTok /\ T(i) = <<Lex(s, i)>> \o T(Lex(s, i).end)
    BY <1>2, TokensFromIs
  <2>2. Lex(s, i) \in Token /\ Lex(s, i).start \in i .. Len(s)
        /\ Lex(s, i).end \in Lex(s, i).start + 1 .. Len(s) + 1
    BY <2>1, LexPromises
  <2>3. Lex(s, i).end \in i + 1 .. Len(s) + 1 /\ Lex(s, i).end \in 1 .. Len(s) + 1
    BY <1>1, <2>2
  <2>4. T(Lex(s, i).end) \in Seq(Token)
    BY <2>3, TokensFromIs
  <2>5. QED
    BY <2>1, <2>2, <2>3, <2>4
<1>3. ASSUME NEW i \in 1 .. Len(s) + 1 PROVE T(i) \in Seq(Token) /\ (T(i) # <<>> => T(i)[1] = Lex(s, i) /\ T(i)[1] # NoTok)
  <2>1. T(i) \in Seq(Token)
    BY TokensFromIs
  <2>2. ASSUME T(i) # <<>> PROVE T(i)[1] = Lex(s, i) /\ T(i)[1] # NoTok
    <3>1. PICK tok \in Token : \E e \in i + 1 .. Len(s) + 1 :
               /\ tok = Lex(s, i) /\ tok # NoTok /\ tok.end = e
               /\ T(e) \in Seq(Token) /\ T(i) = <<tok>> \o T(e)
      BY <1>2, <2>2
    <3> HIDE DEF T
    <3>2. QED
      BY <3>1
  <2>3. QED
    BY <2>1, <2>2
<1>4. 0 \in G
  OBVIOUS
<1>5. ASSUME NEW n \in Nat, n \in G PROVE n + 1 \in G
  <2>1. SUFFICES ASSUME NEW i \in 1 .. Len(s) + 1, n + 1 \in 1 .. Len(T(i))
                 PROVE  Linked(s, i, T(i), n + 1)
    OBVIOUS
  <2>2. T(i) # <<>>
    BY <2>1
  <2>3. PICK tok \in Token, e \in i + 1 .. Len(s) + 1 :
          /\ tok = Lex(s, i) /\ tok # NoTok /\ tok.end = e
          /\ T(e) \in Seq(Token) /\ T(i) = <<tok>> \o T(e)
    BY <1>2, <2>2
  <2>4. e \in 1 .. Len(s) + 1
    BY <1>1, <2>3
  <2>5. T(e) # <<>> => T(e)[1] = Lex(s, e) /\ T(e)[1] # NoTok
    BY <1>3, <2>4
  <2>6. n \in 1 .. Len(T(e)) => Linked(s, e, T(e), n)
    BY <1>5, <2>4
  <2>7. PICK toks : toks = T(i)
    OBVIOUS
  <2>8. PICK rest \in Seq(Token) : rest = T(e)
    BY <2>3
  <2> HIDE DEF T
  <2>9. /\ Len(rest) \in Nat /\ Len(toks) = Len(rest) + 1 /\ toks[1] = tok
        /\ \A k \in 1 .. Len(rest) : toks[k + 1] = rest[k]
    BY <2>3, <2>7, <2>8
  <2>10. CASE n = 0
    <3>1. toks[n + 1] = tok /\ tok.end = e
      BY <2>3, <2>9, <2>10
    <3>2. ASSUME n + 1 < Len(toks) PROVE toks[n + 1 + 1] = Lex(s, e) /\ toks[n + 1 + 1] # NoTok
      <4>1. 1 \in 1 .. Len(rest) /\ n + 1 + 1 = 1 + 1 /\ rest # <<>>
        BY <2>9, <2>10, <3>2
      <4>2. toks[n + 1 + 1] = rest[1]
        BY <2>9, <4>1
      <4>3. QED
        BY <2>5, <2>8, <4>1, <4>2
    <3>3. Linked(s, i, toks, n + 1)
      BY <2>3, <3>1, <3>2 DEF Linked
    <3>4. QED
      BY <2>7, <3>3
  <2>11. CASE n # 0
    <3>1. n \in 1 .. Len(rest)
      BY <2>1, <2>7, <2>9, <2>11
    <3>2. Linked(s, e, rest, n) /\ toks[n + 1] = rest[n]
      BY <2>6, <2>8, <2>9, <3>1
    <3>3. toks[n + 1] \in Token /\ toks[n + 1].end \in i + 1 .. Len(s) + 1
      BY <1>1, <2>3, <2>4, <3>2 DEF Linked, Token
    <3>4. ASSUME n + 1 < Len(toks) PROVE toks[n + 1 + 1] = Lex(s, toks[n + 1].end) /\ toks[n + 1 + 1] # NoTok
      <4>1. n + 1 \in 1 .. Len(rest) /\ n < Len(rest)
        BY <2>9, <3>1, <3>4
      <4>2. toks[n + 1 + 1] = rest[n + 1]
        BY <2>9, <4>1
      <4>3. rest[n + 1] = Lex(s, rest[n].end) /\ rest[n + 1] # NoTok
        BY <3>2, <4>1 DEF Linked
      <4>4. QED
        BY <3>2, <4>2, <4>3
    <3>5. Linked(s, i, toks, n + 1)
      BY <3>3, <3>4 DEF Linked
    <3>6. QED
      BY <2>7, <3>5
  <2>12. QED
    BY <2>10, <2>11
<1>6. \A k \in Nat : k \in G
  <2> HIDE DEF G
  <2>1. QED
    BY <1>4, <1>5, Induction
<1>7. QED
  BY <1>6

\* A line cut after a token that ends at e, or after one space more.
CutAfter(s, m, e) == e = m + 1 \/ (e = m /\ s[m] = SP)

\* The first k tokens are those of the line cut after the last of them.
PrefixLexed(z, s, m, i, k) ==
  LET toks == TokensFrom(s)[i] IN
  k \in 1 .. Len(toks) /\ CutAfter(s, m, toks[k].end) /\ (\A j \in 1 .. k : toks[j].type # "error")
    => i <= m /\ TokensFrom(z)[i] = SubSeq(toks, 1, k)

LEMMA TokensAreKept ==
  ASSUME NEW s \in Text, NEW m, NEW z, Cut(z, s, m)
  PROVE  \A k \in Nat : \A i \in 1 .. Len(s) + 1 : PrefixLexed(z, s, m, i, k)
<1> DEFINE T(i) == TokensFrom(s)[i]
           U(i) == TokensFrom(z)[i]
           Good(k) == \A i \in 1 .. Len(s) + 1 : PrefixLexed(z, s, m, i, k)
           G == {k \in Nat : Good(k)}
<1>1. z \in Text /\ m \in Nat /\ Len(z) = m /\ Len(s) \in Nat /\ m <= Len(s)
  BY DEF Cut, Text
<1>2. 0 \in G
  BY DEF PrefixLexed
<1>3. ASSUME NEW n \in Nat, n \in G PROVE n + 1 \in G
  <2>1. SUFFICES ASSUME NEW i \in 1 .. Len(s) + 1, n + 1 \in 1 .. Len(T(i)),
                        CutAfter(s, m, T(i)[n + 1].end),
                        \A j \in 1 .. n + 1 : T(i)[j].type # "error"
                 PROVE  i <= m /\ U(i) = SubSeq(T(i), 1, n + 1)
    BY DEF PrefixLexed
  <2>2. /\ Lex(s, i) # NoTok /\ Lex(s, i) \in Token
        /\ Lex(s, i).end \in 1 .. Len(s) + 1 /\ Lex(s, i).end >= i + 1
        /\ T(i) = <<Lex(s, i)>> \o T(Lex(s, i).end)
    <3>1. T(i) # <<>>
      BY <2>1
    <3>2. Lex(s, i) # NoTok /\ T(i) = <<Lex(s, i)>> \o T(Lex(s, i).end)
      BY <3>1, TokensFromIs
    <3>3. Lex(s, i) \in Token /\ Lex(s, i).start \in i .. Len(s)
          /\ Lex(s, i).end \in Lex(s, i).start + 1 .. Len(s) + 1
      BY <3>2, LexPromises
    <3>4. QED
      BY <1>1, <3>2, <3>3
  <2>3. PICK tok \in Token : tok = Lex(s, i)
    BY <2>2
  <2>4. PICK e \in 1 .. Len(s) + 1 : e = tok.end
    BY <2>2, <2>3
  <2>5. PICK rest \in Seq(Token) : rest = T(e)
    BY <2>4, TokensFromIs
  <2>6. PICK toks : toks = T(i)
    OBVIOUS
  <2>7. PrefixLexed(z, s, m, e, n) /\ Linked(s, i, toks, n + 1)
    <3>1. Linked(s, i, T(i), n + 1)
      BY <2>1, TokensAreLinked
    <3>2. QED
      BY <1>3, <2>6, <3>1
  <2> HIDE DEF T, U
  <2>8. /\ Len(rest) \in Nat /\ Len(toks) = Len(rest) + 1 /\ toks[1] = tok /\ toks = <<tok>> \o rest
        /\ \A k \in 1 .. Len(rest) : toks[k + 1] = rest[k]
    BY <2>2, <2>3, <2>4, <2>5, <2>6
  <2>9. tok.type # "error"
    <3>1. 1 \in 1 .. n + 1
      OBVIOUS
    <3>2. QED
      BY <2>1, <2>6, <2>8, <3>1
  <2>10. ASSUME e <= m + 1
         PROVE  i <= m /\ e \in 1 .. Len(z) + 1 /\ U(i) = <<tok>> \o U(e)
    <3>1. i <= m /\ Lex(z, i) = tok
      BY <2>2, <2>3, <2>4, <2>9, <2>10, LexIsLocal DEF Within
    <3>2. i \in 1 .. Len(z) + 1 /\ e \in 1 .. Len(z) + 1
      BY <1>1, <2>4, <2>10, <3>1
    <3>3. U(i) = <<tok>> \o U(e)
      BY <1>1, <2>2, <2>3, <2>4, <3>1, <3>2, TokensFromIs DEF U
    <3>4. QED
      BY <3>1, <3>2, <3>3
  <2>11. CASE n = 0
    <3>1. CutAfter(s, m, e) /\ e <= m + 1 /\ e >= m
      <4>1. CutAfter(s, m, e)
        BY <2>1, <2>4, <2>6, <2>8, <2>11
      <4>2. QED
        BY <1>1, <4>1 DEF CutAfter
    <3>2. i <= m /\ e \in 1 .. Len(z) + 1 /\ U(i) = <<tok>> \o U(e)
      BY <2>10, <3>1
    <3>3. Lex(z, e) = NoTok
      <4>1. \A k \in e .. Len(z) : IsSpace(z[k])
        BY <1>1, <2>4, <3>1 DEF CutAfter, Cut, IsSpace
      <4>2. QED
        BY <1>1, <3>2, <4>1, LexFinds
    <3>4. U(e) = <<>>
      BY <1>1, <3>2, <3>3, TokensFromIs DEF U
    <3>5. U(i) = <<tok>>
      BY <3>2, <3>4
    <3>6. SubSeq(toks, 1, n + 1) = <<tok>>
      <4>1. toks \in Seq(Token) /\ 1 \in 1 .. Len(toks)
        BY <2>8
      <4> DEFINE x == SubSeq(toks, 1, 1)
                 y == <<tok>>
      <4>2. x \in Seq(Token) /\ Len(x) = 1 /\ x[1] = tok
        BY <2>8, <4>1
      <4>3. y \in Seq(Token) /\ Len(y) = 1 /\ y[1] = tok
        OBVIOUS
      <4> HIDE DEF x, y
      <4>4. x = y
        BY <4>2, <4>3, SeqEqual
      <4>5. QED
        BY <2>11, <4>4 DEF x, y
    <3>7. QED
      BY <2>6, <3>2, <3>5, <3>6
  <2>12. CASE n # 0
    <3>1. n \in 1 .. Len(rest) /\ toks[n + 1] = rest[n]
      BY <2>1, <2>6, <2>8, <2>12
    <3>2. \A j \in 1 .. n : rest[j].type # "error"
      <4>1. SUFFICES ASSUME NEW j \in 1 .. n PROVE rest[j].type # "error"
        OBVIOUS
      <4>2. j \in 1 .. Len(rest) /\ j + 1 \in 1 .. n + 1
        BY <2>8, <3>1
      <4>3. QED
        BY <2>1, <2>6, <2>8, <4>2
    <3>3. e <= m /\ U(e) = SubSeq(rest, 1, n)
      BY <2>1, <2>5, <2>6, <2>7, <3>1, <3>2 DEF PrefixLexed, T, U
    <3>4. e <= m + 1
      BY <1>1, <2>4, <3>3
    <3>5. i <= m /\ U(i) = <<tok>> \o SubSeq(rest, 1, n)
      BY <2>10, <3>3, <3>4
    <3>6. <<tok>> \o SubSeq(rest, 1, n) = SubSeq(toks, 1, n + 1)
      <4> DEFINE x == <<tok>> \o SubSeq(rest, 1, n)
                 y == SubSeq(toks, 1, n + 1)
      <4>1. /\ SubSeq(rest, 1, n) \in Seq(Token) /\ Len(SubSeq(rest, 1, n)) = n
            /\ \A j \in 1 .. n : SubSeq(rest, 1, n)[j] = rest[j]
        BY <3>1
      <4>2. /\ x \in Seq(Token) /\ Len(x) = n + 1 /\ x[1] = tok
            /\ \A j \in 1 .. n : x[j + 1] = rest[j]
        BY <4>1
      <4>3. toks \in Seq(Token) /\ n + 1 <= Len(toks)
        BY <2>8, <3>1
      <4>4. /\ y \in Seq(Token) /\ Len(y) = n + 1
            /\ \A j \in 1 .. n + 1 : y[j] = toks[j]
        BY <4>3
      <4> HIDE DEF x, y
      <4>5. ASSUME NEW j \in 1 .. Len(x) PROVE x[j] = y[j]
        <5>1. CASE j = 1
          BY <2>8, <4>2, <4>4, <5>1
        <5>2. CASE j # 1
          <6>1. PICK h \in 1 .. n : j = h + 1 /\ h \in 1 .. Len(rest)
            <7>1. j - 1 \in 1 .. n /\ j = (j - 1) + 1 /\ j - 1 \in 1 .. Len(rest)
              BY <3>1, <4>2, <5>2
            <7>2. QED
              BY <7>1
          <6>2. QED
            BY <2>8, <4>2, <4>4, <6>1
        <5>3. QED
          BY <5>1, <5>2
      <4>6. x = y
        BY <4>2, <4>4, <4>5, SeqEqual
      <4>7. QED
        BY <4>6 DEF x, y
    <3>7. QED
      BY <2>6, <3>5, <3>6
  <2>13. QED
    BY <2>11, <2>12
<1>4. \A k \in Nat : k \in G
  <2> HIDE DEF G
  <2>1. QED
    BY <1>2, <1>3, Induction
<1>5. QED
  BY <1>4
=============================================================================
