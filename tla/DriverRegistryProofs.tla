------------------------ MODULE DriverRegistryProofs ------------------------
(***************************************************************************)
(* The registry of drivers does to its sorted array what a roster promises,*)
(* for every size, every set of payloads and every order of them.          *)
(*                                                                         *)
(* The parser, the staging of patches and the freezing are folds over a    *)
(* sequence.  Each is first unfolded into the values v[0], v[1], ... it    *)
(* goes through; an invariant of these values is then carried along by     *)
(* induction.  What is folded is an operator, which no lemma can take as a *)
(* parameter here, so that each fold is unfolded by a lemma of its own.    *)
(***************************************************************************)
EXTENDS DriverRegistry, FiniteSetTheorems, WellFoundedInduction, TLAPS

-----------------------------------------------------------------------------
(* Least and greatest indices, induction, and the existence of a fold.     *)

LEMMA LeastExists ==
  ASSUME NEW I \in SUBSET Nat, I # {}
  PROVE  \E x \in I : \A y \in I : x <= y
<1>1. PICK x \in I : \A y \in I : << y, x >> \notin OpToRel(<, Nat)
  BY WFMin, NatLessThanWellFounded, Zenon
<1>2. \A y \in I : ~(y < x)
  BY <1>1 DEF OpToRel
<1> QED
  BY <1>2

LEMMA MinIsLeast ==
  ASSUME NEW I \in SUBSET Nat, I # {}
  PROVE  Min(I) \in I /\ \A y \in I : Min(I) <= y
<1>1. \E x \in I : \A y \in I : x <= y
  BY LeastExists
<1>2. Min(I) = CHOOSE x \in I : \A y \in I : x <= y
  BY Zenon DEF Min
<1> QED
  BY <1>1, <1>2, Zenon

LEMMA Induction ==
  ASSUME NEW T, 0 \in T, \A n \in Nat : n \in T => n + 1 \in T
  PROVE  \A n \in Nat : n \in T
<1> SUFFICES ASSUME Nat \ T # {} PROVE FALSE
  OBVIOUS
<1>1. PICK m \in Nat \ T : \A n \in Nat \ T : m <= n
  BY LeastExists
<1>2. CASE m = 0
  BY <1>2
<1>3. CASE m # 0
  <2>1. m - 1 \in Nat /\ ~(m <= m - 1) /\ (m - 1) + 1 = m
    BY <1>3
  <2>2. m - 1 \in T
    BY <1>1, <2>1
  <2> QED
    BY <2>1, <2>2
<1> QED
  BY <1>2, <1>3

LEMMA MaxIs ==
  ASSUME NEW I \in SUBSET Int, NEW m \in I, \A x \in I : m >= x
  PROVE  Max(I) = m
<1>1. \A x \in I : (\A y \in I : x >= y) => x = m
  OBVIOUS
<1> QED
  BY <1>1, Zenon DEF Max

LEMMA UpTo ==
  ASSUME NEW n \in Nat, NEW k \in 1 .. n
  PROVE  /\ 1 .. k \in SUBSET (1 .. n) /\ 1 .. k # {}
         /\ Max(1 .. k) = k /\ (1 .. k) \ {k} = 1 .. (k - 1)
         /\ k \in 0 .. n /\ k - 1 \in 0 .. n
<1>1. (1 .. k) \ {k} = 1 .. (k - 1)
  <2>1. \A x \in 1 .. k : x = k \/ x \in 1 .. (k - 1)
    OBVIOUS
  <2>2. \A x \in 1 .. (k - 1) : x \in 1 .. k /\ x # k
    OBVIOUS
  <2> QED
    BY <2>1, <2>2
<1>2. Max(1 .. k) = k
  <2>1. 1 .. k \in SUBSET Int /\ k \in 1 .. k /\ \A x \in 1 .. k : k >= x
    OBVIOUS
  <2> QED
    BY <2>1, MaxIs
<1>3. 1 .. k \in SUBSET (1 .. n) /\ 1 .. k # {} /\ k \in 0 .. n /\ k - 1 \in 0 .. n
  OBVIOUS
<1> QED
  BY <1>1, <1>2, <1>3

LEMMA MaxExists ==
  ASSUME NEW n \in Nat, NEW I \in SUBSET (1 .. n), I # {}
  PROVE  Max(I) \in I
<1> DEFINE U == { m \in Nat : \A x \in I : x <= m }
<1>1. U \in SUBSET Nat /\ n \in U
  OBVIOUS
<1>2. PICK m \in U : \A k \in U : m <= k
  <2> HIDE DEF U
  <2> QED
    BY <1>1, LeastExists
<1>3. m \in I
  <2> SUFFICES ASSUME m \notin I PROVE FALSE
    OBVIOUS
  <2>1. \A x \in I : x <= m - 1
    BY <1>2
  <2>2. m # 0
    <3>1. PICK x \in I : x \in 1 .. n
      OBVIOUS
    <3> QED
      BY <1>2, <3>1
  <2>3. m - 1 \in U /\ ~(m <= m - 1)
    BY <1>2, <2>1, <2>2
  <2> QED
    BY <1>2, <2>3
<1>4. I \in SUBSET Int /\ \A x \in I : m >= x
  BY <1>2
<1> QED
  BY <1>3, <1>4, MaxIs

\* The function over sets of indices that the fold of F is defined by.
Foldable(V, F, base, s) ==
  \E iter \in [SUBSET (1 .. Len(s)) -> V] :
    \A I \in SUBSET (1 .. Len(s)) :
      iter[I] = IF I = {} THEN base ELSE F[<< iter[I \ {Max(I)}], s[Max(I)] >>]

\* A fold has a value.
LEMMA FoldExists ==
  ASSUME NEW V, NEW E, NEW F \in [V \X E -> V], NEW base \in V, NEW s \in Seq(E)
  PROVE  Foldable(V, F, base, s)
<1> DEFINE Folds(n, g) ==
             /\ g \in [SUBSET (1 .. n) -> V]
             /\ \A I \in SUBSET (1 .. n) :
                  g[I] = IF I = {} THEN base ELSE F[<< g[I \ {Max(I)}], s[Max(I)] >>]
           T == { n \in Nat : n <= Len(s) => \E g : Folds(n, g) }
<1> HIDE DEF Folds
<1>1. 0 \in T
  <2>1. 1 .. 0 = {}
    OBVIOUS
  <2>2. Folds(0, [I \in SUBSET (1 .. 0) |-> base])
    BY <2>1 DEF Folds
  <2> QED
    BY <2>2
<1>2. ASSUME NEW n \in Nat, n \in T PROVE n + 1 \in T
  <2> SUFFICES ASSUME n + 1 <= Len(s) PROVE \E h : Folds(n + 1, h)
    OBVIOUS
  <2>0. s[n + 1] \in E
    OBVIOUS
  <2>1. PICK g : Folds(n, g)
    BY <1>2
  <2> DEFINE h == [I \in SUBSET (1 .. (n + 1)) |->
                     IF n + 1 \in I THEN F[<< g[I \ {n + 1}], s[n + 1] >>] ELSE g[I]]
  <2>2. \A I \in SUBSET (1 .. (n + 1)) :
          /\ n + 1 \notin I => I \in SUBSET (1 .. n)
          /\ I \ {n + 1} \in SUBSET (1 .. n)
          /\ n + 1 \in I => Max(I) = n + 1
    <3> SUFFICES ASSUME NEW I \in SUBSET (1 .. (n + 1))
                 PROVE  /\ n + 1 \notin I => I \in SUBSET (1 .. n)
                        /\ I \ {n + 1} \in SUBSET (1 .. n)
                        /\ n + 1 \in I => Max(I) = n + 1
      OBVIOUS
    <3>1. I \in SUBSET Int /\ \A x \in I : n + 1 >= x
      OBVIOUS
    <3>2. n + 1 \in I => Max(I) = n + 1
      BY <3>1, MaxIs
    <3>3. \A x \in I : x = n + 1 \/ x \in 1 .. n
      OBVIOUS
    <3> QED
      BY <3>2, <3>3
  <2>3. h \in [SUBSET (1 .. (n + 1)) -> V]
    <3> SUFFICES ASSUME NEW I \in SUBSET (1 .. (n + 1)) PROVE h[I] \in V
      OBVIOUS
    <3>1. CASE n + 1 \in I
      <4>1. g[I \ {n + 1}] \in V
        BY <2>1, <2>2 DEF Folds
      <4>2. << g[I \ {n + 1}], s[n + 1] >> \in V \X E
        BY <4>1, <2>0
      <4> QED
        BY <3>1, <4>2
    <3>2. CASE n + 1 \notin I
      BY <2>1, <2>2, <3>2 DEF Folds
    <3> QED
      BY <3>1, <3>2
  <2>4. ASSUME NEW I \in SUBSET (1 .. (n + 1))
        PROVE  h[I] = IF I = {} THEN base ELSE F[<< h[I \ {Max(I)}], s[Max(I)] >>]
    <3>1. CASE n + 1 \in I
      <4>1. Max(I) = n + 1 /\ I \ {n + 1} \in SUBSET (1 .. (n + 1))
        BY <2>2, <3>1
      <4>2. h[I \ {n + 1}] = g[I \ {n + 1}]
        BY <4>1
      <4>3. h[I] = F[<< g[I \ {n + 1}], s[n + 1] >>]
        BY <3>1
      <4> QED
        BY <3>1, <4>1, <4>2, <4>3
    <3>2. CASE n + 1 \notin I
      <4>1. I \in SUBSET (1 .. n) /\ h[I] = g[I]
        BY <2>2, <3>2
      <4>2. I \ {Max(I)} \in SUBSET (1 .. n) /\ I \ {Max(I)} \in SUBSET (1 .. (n + 1))
            /\ n + 1 \notin I \ {Max(I)}
        BY <4>1, <3>2
      <4>3. h[I \ {Max(I)}] = g[I \ {Max(I)}]
        BY <4>2
      <4> QED
        BY <2>1, <4>1, <4>3 DEF Folds
    <3> QED
      BY <3>1, <3>2
  <2>5. Folds(n + 1, h)
    BY <2>3, <2>4 DEF Folds
  <2> QED
    BY <2>5
<1>3. Len(s) \in T
  <2> HIDE DEF T
  <2>1. \A n \in Nat : n \in T
    BY <1>1, <1>2, Induction
  <2> QED
    BY <2>1
<1>4. PICK g : Folds(Len(s), g)
  BY <1>3
<1> QED
  BY <1>4 DEF Folds, Foldable

-----------------------------------------------------------------------------
(* Types.                                                                  *)

Field == Fields \cup {Absent, Bad, "own"}

Value == [object : BOOLEAN, tla : Seq(Fields), racing : Seq(Fields)]

Member == [number : Nat \cup {NoNumber}, value : Value]

Issues == SUBSET { "shape", "identity", "limit", "conflict" }

PatchSet == [number : Nat, object : BOOLEAN, duplicate : BOOLEAN, tla : Field, racing : Field]

Parsed == [entries : Seq(PatchSet), overflow : SUBSET Nat, object : {TRUE}, issues : Issues]

Entry == [number : Nat, tla : Field, racing : Field]

State == [drivers : Seq(Entry), frozen : BOOLEAN, synchronized : BOOLEAN]

ReductionSet == [state : State, disposition : { "noUpdate", "staged" }, issues : Issues]

LEMMA TheOnlyType ==
  ASSUME NEW given \in Seq(Fields)
  PROVE  TheOnly(given) \in Field
BY DEF TheOnly, Field

LEMMA PatchType ==
  ASSUME NEW m \in Member, m.number # NoNumber
  PROVE  Patch(m) \in PatchSet /\ Patch(m).number = m.number
<1>1. m.value.tla \in Seq(Fields) /\ m.value.racing \in Seq(Fields) /\ m.value.object \in BOOLEAN
      /\ m.number \in Nat
  BY DEF Member, Value
<1>2. TheOnly(m.value.tla) \in Field /\ TheOnly(m.value.racing) \in Field
  BY <1>1, TheOnlyType
<1> QED
  BY <1>1, <1>2 DEF Patch, PatchSet, Field

LEMMA EntryIssuesType ==
  ASSUME NEW m
  PROVE  EntryIssues(m) \in SUBSET { "shape", "identity" }
BY DEF EntryIssues, Misshapen

\* The position of a number is that of an entry that has it, or 0.
LEMMA PositionIs ==
  ASSUME NEW e \in Seq(PatchSet), NEW n
  PROVE  /\ Position(e, n) = 0 => \A i \in 1 .. Len(e) : e[i].number # n
         /\ Position(e, n) # 0 => Position(e, n) \in 1 .. Len(e) /\ e[Position(e, n)].number = n
<1> DEFINE I == { i \in 1 .. Len(e) : e[i].number = n }
<1>1. Position(e, n) = IF I # {} THEN Min(I) ELSE 0
  BY DEF Position, SelectInSeq
<1>2. I \in SUBSET Nat
  OBVIOUS
<1>3. CASE I # {}
  <2>1. Min(I) \in I
    <3> HIDE DEF I
    <3> QED
      BY <1>2, <1>3, MinIsLeast
  <2> QED
    BY <1>1, <1>3, <2>1
<1>4. CASE I = {}
  BY <1>1, <1>4
<1> QED
  BY <1>3, <1>4

-----------------------------------------------------------------------------
(* The parser: what it has stored after k members.                         *)

\* n is mentioned by the first k members.
MentionedIn(m, k, n) == n # NoNumber /\ \E a \in 1 .. k : m[a].number = n

Stored(e, n) == \E i \in 1 .. Len(e) : e[i].number = n

\* Numbers are stored until the array is full, each once; the others overflow it.
Counted(p) ==
  /\ p \in Parsed /\ "conflict" \notin p.issues
  /\ Len(p.entries) <= MaxEntries
  /\ p.overflow # {} => Len(p.entries) = MaxEntries
  /\ "limit" \in p.issues <=> p.overflow # {}
  /\ \A i, j \in 1 .. Len(p.entries) : p.entries[i].number = p.entries[j].number => i = j
  /\ \A n \in p.overflow : ~Stored(p.entries, n)

Covers(p, m, k) == \A n : MentionedIn(m, k, n) <=> Stored(p.entries, n) \/ n \in p.overflow

\* The entries are in the order of first mention.
InOrder(e, m, k) ==
  \A i, j \in 1 .. Len(e) :
    i < j => \E a \in 1 .. k : /\ m[a].number = e[i].number
                               /\ \A b \in 1 .. k : m[b].number = e[j].number => a < b

\* The entry x is what the members of its number say: a patch, or a duplicate.
Reports(x, m, k, a) ==
  IF \E b \in 1 .. k : b # a /\ m[b].number = m[a].number
  THEN x.duplicate /\ x.tla = Bad /\ x.racing = Bad
  ELSE x = Patch(m[a])

Faithful(e, m, k) ==
  \A i \in 1 .. Len(e), a \in 1 .. k : m[a].number = e[i].number => Reports(e[i], m, k, a)

ParseInv(p, m, k) ==
  Counted(p) /\ Covers(p, m, k) /\ InOrder(p.entries, m, k) /\ Faithful(p.entries, m, k)

\* One more member of another number leaves order and faithfulness alone.
LEMMA OtherNumber ==
  ASSUME NEW m \in Seq(Member), NEW k \in 1 .. Len(m), NEW e \in Seq(PatchSet),
         ~Stored(e, m[k].number), InOrder(e, m, k - 1), Faithful(e, m, k - 1)
  PROVE  InOrder(e, m, k) /\ Faithful(e, m, k)
<1>0. /\ k \in Nat /\ Len(e) \in Nat
      /\ \A b \in 1 .. k : b = k \/ b \in 1 .. (k - 1)
      /\ \A b \in 1 .. (k - 1) : b \in 1 .. k /\ b < k /\ b # k
  OBVIOUS
<1>1. InOrder(e, m, k)
  <2> SUFFICES ASSUME NEW i \in 1 .. Len(e), NEW j \in 1 .. Len(e), i < j
               PROVE  \E a \in 1 .. k : /\ m[a].number = e[i].number
                                        /\ \A b \in 1 .. k : m[b].number = e[j].number => a < b
    BY DEF InOrder
  <2>1. PICK a \in 1 .. (k - 1) :
          /\ m[a].number = e[i].number
          /\ \A b \in 1 .. (k - 1) : m[b].number = e[j].number => a < b
    BY DEF InOrder
  <2>2. a \in 1 .. k /\ \A b \in 1 .. k : m[b].number = e[j].number => a < b
    BY <1>0, <2>1
  <2> QED
    BY <2>1, <2>2
<1>2. ASSUME NEW i \in 1 .. Len(e), NEW a \in 1 .. k, m[a].number = e[i].number
      PROVE  Reports(e[i], m, k, a)
  <2>1. e[i].number # m[k].number
    BY DEF Stored
  <2>2. a \in 1 .. (k - 1)
    BY <1>0, <1>2, <2>1
  <2>3. Reports(e[i], m, k - 1, a)
    BY <1>2, <2>2 DEF Faithful
  <2>4. (\E b \in 1 .. k : b # a /\ m[b].number = m[a].number)
          <=> (\E b \in 1 .. (k - 1) : b # a /\ m[b].number = m[a].number)
    BY <1>0, <1>2, <2>1
  <2> QED
    BY <2>3, <2>4 DEF Reports
<1> QED
  BY <1>1, <1>2 DEF Faithful

LEMMA MentionStep ==
  ASSUME NEW m \in Seq(Member), NEW k \in 1 .. Len(m), NEW n
  PROVE  MentionedIn(m, k, n) <=> MentionedIn(m, k - 1, n) \/ (n # NoNumber /\ n = m[k].number)
<1>1. /\ \A b \in 1 .. k : b = k \/ b \in 1 .. (k - 1)
      /\ \A b \in 1 .. (k - 1) : b \in 1 .. k
      /\ k \in 1 .. k
  OBVIOUS
<1> QED
  BY <1>1 DEF MentionedIn

\* A member changes the parse as the invariant says.
LEMMA ParseStep ==
  ASSUME NEW m \in Seq(Member), NEW k \in 1 .. Len(m), NEW p, ParseInv(p, m, k - 1)
  PROVE  ParseInv(AddMember(p, m[k]), m, k)
<1> DEFINE n == m[k].number
           e == p.entries
           i == Position(e, n)
           q == AddMember(p, m[k])
           odd == EntryIssues(m[k])
<1>0. /\ m[k] \in Member /\ p \in Parsed /\ e \in Seq(PatchSet) /\ Len(e) \in Nat
      /\ odd \in SUBSET { "shape", "identity" } /\ Misshapen = { "shape", "identity" }
      /\ MaxEntries \in Nat
      /\ i = 0 => ~Stored(e, n)
      /\ i # 0 => i \in 1 .. Len(e) /\ e[i].number = n
  <2>1. m[k] \in Member /\ p \in Parsed
    BY DEF ParseInv, Counted
  <2>2. e \in Seq(PatchSet)
    BY <2>1 DEF Parsed
  <2> QED
    BY <2>1, <2>2, PositionIs, EntryIssuesType, RegistryAssumption
    DEF Stored, Misshapen, RegistryAssumption
<1>t. p = [entries |-> e, overflow |-> p.overflow, object |-> TRUE, issues |-> p.issues]
      /\ p.overflow \in SUBSET Nat /\ p.issues \in Issues
  BY <1>0 DEF Parsed, ParseInv, Counted
<1>1. CASE n = NoNumber
  <2>1. q = p
    BY <1>1 DEF AddMember
  <2>2. ~Stored(e, n)
    BY <1>1 DEF ParseInv, Covers, MentionedIn
  <2>3. Covers(p, m, k)
    BY <1>1, MentionStep DEF ParseInv, Covers
  <2> QED
    BY <1>0, <2>1, <2>2, <2>3, OtherNumber DEF ParseInv
<1>2. CASE n # NoNumber /\ n \in p.overflow
  <2>1. q = ParseResult(e, p.overflow, (p.issues \cup odd) \cup Misshapen)
    BY <1>2 DEF AddMember
  <2>2. /\ q.entries = e /\ q.overflow = p.overflow
        /\ q.issues = p.issues \cup { "shape", "identity" } /\ q \in Parsed
    BY <1>0, <1>t, <2>1 DEF Parsed, Issues, ParseResult
  <2>3. ~Stored(e, n)
    BY <1>2 DEF ParseInv, Counted
  <2>4. Covers(q, m, k)
    BY <1>2, <2>2, MentionStep DEF ParseInv, Covers
  <2>5. Counted(q)
    BY <2>2 DEF ParseInv, Counted
  <2> QED
    BY <1>0, <2>2, <2>3, <2>4, <2>5, OtherNumber DEF ParseInv
<1>3. CASE n # NoNumber /\ n \notin p.overflow /\ i # 0
  <2> DEFINE x == Duplicate(e[i], m[k])
  <2>0. i \in 1 .. Len(e) /\ e[i].number = n /\ e[i] \in PatchSet
    BY <1>0, <1>3
  <2>1. q = ParseResult([e EXCEPT ![i] = x], p.overflow, (p.issues \cup odd) \cup Misshapen)
    BY <1>3 DEF AddMember
  <2>x. x \in PatchSet /\ x.number = n
    BY <1>0, <1>3, <2>0 DEF Duplicate, PatchSet, Member, Value, Field
  <2> HIDE DEF x
  <2>2. /\ q.entries = [e EXCEPT ![i] = x] /\ q.overflow = p.overflow
        /\ q.issues = p.issues \cup { "shape", "identity" }
    BY <1>0, <1>t, <2>1 DEF ParseResult
  <2>3. /\ q.entries \in Seq(PatchSet) /\ Len(q.entries) = Len(e) /\ q.entries[i] = x
        /\ \A j \in 1 .. Len(e) : j # i => q.entries[j] = e[j]
        /\ \A j \in 1 .. Len(e) : q.entries[j].number = e[j].number
    BY <1>0, <2>0, <2>x, <2>2
  <2>4. q \in Parsed
    BY <1>t, <2>1, <2>2, <2>3 DEF Parsed, Issues, ParseResult
  <2>5. \A l : Stored(q.entries, l) <=> Stored(e, l)
    BY <2>3 DEF Stored
  <2>6. Counted(q)
    BY <2>2, <2>3, <2>4, <2>5 DEF ParseInv, Counted
  <2>7. Stored(e, n)
    BY <2>0 DEF Stored
  <2>8. Covers(q, m, k)
    BY <1>3, <2>2, <2>5, <2>7, MentionStep DEF ParseInv, Covers
  <2>9. /\ \A b \in 1 .. k : b = k \/ b \in 1 .. (k - 1)
        /\ \A b \in 1 .. (k - 1) : b \in 1 .. k /\ b < k /\ b # k
        /\ k \in 1 .. k /\ k \in Nat
    OBVIOUS
  <2>10. InOrder(q.entries, m, k)
    <3> SUFFICES ASSUME NEW j \in 1 .. Len(e), NEW l \in 1 .. Len(e), j < l
                 PROVE  \E a \in 1 .. k : /\ m[a].number = e[j].number
                                          /\ \A b \in 1 .. k : m[b].number = e[l].number => a < b
      BY <2>3 DEF InOrder
    <3>1. PICK a \in 1 .. (k - 1) :
            /\ m[a].number = e[j].number
            /\ \A b \in 1 .. (k - 1) : m[b].number = e[l].number => a < b
      BY DEF ParseInv, InOrder
    <3> QED
      BY <2>9, <3>1
  <2>11. ASSUME NEW j \in 1 .. Len(e), NEW a \in 1 .. k, m[a].number = q.entries[j].number
         PROVE  Reports(q.entries[j], m, k, a)
    <3>1. CASE j = i
      <4>1. m[a].number = n
        BY <2>0, <2>3, <2>11, <3>1
      <4>2. PICK c \in 1 .. (k - 1) : m[c].number = n
        BY <2>7 DEF ParseInv, Covers, MentionedIn
      <4>3. \E b \in 1 .. k : b # a /\ m[b].number = m[a].number
        BY <2>9, <4>1, <4>2
      <4>4. x.duplicate /\ x.tla = Bad /\ x.racing = Bad
        BY DEF x, Duplicate
      <4> QED
        BY <2>3, <3>1, <4>3, <4>4 DEF Reports
    <3>2. CASE j # i
      <4>1. e[j].number # n
        BY <2>0, <3>2 DEF ParseInv, Counted
      <4>2. m[a].number = e[j].number /\ a \in 1 .. (k - 1)
        BY <2>3, <2>9, <2>11, <4>1
      <4>3. Reports(e[j], m, k - 1, a)
        BY <4>2 DEF ParseInv, Faithful
      <4>4. (\E b \in 1 .. k : b # a /\ m[b].number = m[a].number)
              <=> (\E b \in 1 .. (k - 1) : b # a /\ m[b].number = m[a].number)
        BY <2>9, <4>1, <4>2
      <4> QED
        BY <2>3, <3>2, <4>3, <4>4 DEF Reports
    <3> QED
      BY <3>1, <3>2
  <2>12. Faithful(q.entries, m, k)
    BY <2>3, <2>11 DEF Faithful
  <2> QED
    BY <2>6, <2>8, <2>10, <2>12 DEF ParseInv
<1>4. CASE n # NoNumber /\ n \notin p.overflow /\ i = 0 /\ Len(e) = MaxEntries
  <2>1. q = ParseResult(e, p.overflow \cup {n}, (p.issues \cup odd) \cup {"limit"})
    BY <1>4 DEF AddMember
  <2>2. /\ q.entries = e /\ q.overflow = p.overflow \cup {n}
        /\ q.issues = (p.issues \cup odd) \cup {"limit"}
    BY <2>1 DEF ParseResult
  <2>3. n \in Nat
    BY <1>0, <1>4 DEF Member
  <2>4. q \in Parsed
    BY <1>0, <1>t, <2>1, <2>3 DEF Parsed, Issues, ParseResult
  <2>5. Counted(q)
    BY <1>0, <1>4, <2>2, <2>4 DEF ParseInv, Counted
  <2>6. Covers(q, m, k)
    BY <1>4, <2>2, MentionStep DEF ParseInv, Covers
  <2> QED
    BY <1>0, <1>4, <2>2, <2>5, <2>6, OtherNumber DEF ParseInv
<1>5. CASE n # NoNumber /\ n \notin p.overflow /\ i = 0 /\ Len(e) # MaxEntries
  <2> DEFINE x == Patch(m[k])
             f == Append(e, x)
  <2>1. q = ParseResult(f, p.overflow, p.issues \cup odd)
    BY <1>5 DEF AddMember
  <2>2. x \in PatchSet /\ x.number = n
    BY <1>0, <1>5, PatchType
  <2> HIDE DEF x
  <2>3. /\ f \in Seq(PatchSet) /\ Len(f) = Len(e) + 1 /\ f[Len(e) + 1] = x
        /\ \A j \in 1 .. Len(e) : f[j] = e[j]
    BY <1>0, <2>2
  <2> HIDE DEF f
  <2>4. q.entries = f /\ q.overflow = p.overflow /\ q.issues = p.issues \cup odd
    BY <2>1 DEF ParseResult
  <2>5. q \in Parsed
    BY <1>0, <1>t, <2>1, <2>3 DEF Parsed, Issues, ParseResult
  <2>6. /\ \A j \in 1 .. Len(f) : j = Len(e) + 1 \/ j \in 1 .. Len(e)
        /\ \A j \in 1 .. Len(e) : j \in 1 .. Len(f)
        /\ Len(e) + 1 \in 1 .. Len(f)
    BY <1>0, <2>3
  <2>7. \A l : Stored(f, l) <=> Stored(e, l) \/ l = n
    <3> SUFFICES ASSUME NEW l PROVE Stored(f, l) <=> Stored(e, l) \/ l = n
      OBVIOUS
    <3>1. Stored(f, l) => Stored(e, l) \/ l = n
      BY <2>2, <2>3, <2>6 DEF Stored
    <3>2. l = n => Stored(f, l)
      BY <2>2, <2>3, <2>6 DEF Stored
    <3>3. Stored(e, l) => Stored(f, l)
      BY <2>3, <2>6 DEF Stored
    <3> QED
      BY <3>1, <3>2, <3>3
  <2>8. ~Stored(e, n)
    BY <1>0, <1>5
  <2>9. Counted(q)
    <3>1. \A j, l \in 1 .. Len(f) : f[j].number = f[l].number => j = l
      BY <2>2, <2>3, <2>6, <2>8 DEF Stored, ParseInv, Counted
    <3>2. p.overflow = {} /\ Len(f) <= MaxEntries
      BY <1>0, <1>5, <2>3 DEF ParseInv, Counted
    <3> QED
      BY <1>0, <2>4, <2>5, <3>1, <3>2 DEF ParseInv, Counted
  <2>10. Covers(q, m, k)
    BY <1>5, <2>4, <2>7, MentionStep DEF ParseInv, Covers
  <2>11. ~MentionedIn(m, k - 1, n)
    BY <1>5, <2>8 DEF ParseInv, Covers
  <2>12. InOrder(e, m, k) /\ Faithful(e, m, k)
    BY <1>0, <2>8, OtherNumber DEF ParseInv
  <2>13. /\ \A b \in 1 .. k : b = k \/ b \in 1 .. (k - 1)
         /\ \A b \in 1 .. (k - 1) : b \in 1 .. k /\ b < k /\ b # k
         /\ k \in 1 .. k /\ k \in Nat
    OBVIOUS
  <2>14. \A b \in 1 .. k : m[b].number = n => b = k
    BY <1>5, <2>11, <2>13 DEF MentionedIn
  <2>15. InOrder(f, m, k)
    <3> SUFFICES ASSUME NEW j \in 1 .. Len(f), NEW l \in 1 .. Len(f), j < l
                 PROVE  \E a \in 1 .. k : /\ m[a].number = f[j].number
                                          /\ \A b \in 1 .. k : m[b].number = f[l].number => a < b
      BY DEF InOrder
    <3>1. j \in 1 .. Len(e) /\ f[j] = e[j]
      BY <1>0, <2>3, <2>6
    <3>2. CASE l \in 1 .. Len(e)
      BY <2>3, <2>12, <3>1, <3>2 DEF InOrder
    <3>3. CASE l = Len(e) + 1
      <4>1. f[l].number = n
        BY <2>2, <2>3, <3>3
      <4>2. PICK a \in 1 .. (k - 1) : m[a].number = e[j].number
        BY <3>1 DEF ParseInv, Covers, Stored, MentionedIn
      <4> QED
        BY <2>13, <2>14, <3>1, <4>1, <4>2
    <3> QED
      BY <2>6, <3>2, <3>3
  <2>16. Faithful(f, m, k)
    <3> SUFFICES ASSUME NEW j \in 1 .. Len(f), NEW a \in 1 .. k, m[a].number = f[j].number
                 PROVE  Reports(f[j], m, k, a)
      BY DEF Faithful
    <3>1. CASE j \in 1 .. Len(e)
      BY <2>3, <2>12, <3>1 DEF Faithful
    <3>2. CASE j = Len(e) + 1
      <4>1. f[j] = x /\ m[a].number = n
        BY <2>2, <2>3, <3>2
      <4>2. a = k /\ ~\E b \in 1 .. k : b # a /\ m[b].number = m[a].number
        BY <2>14, <4>1
      <4> QED
        BY <4>1, <4>2 DEF Reports, x
    <3> QED
      BY <2>6, <3>1, <3>2
  <2> QED
    BY <2>4, <2>9, <2>10, <2>15, <2>16 DEF ParseInv
<1> QED
  BY <1>1, <1>2, <1>3, <1>4, <1>5

-----------------------------------------------------------------------------
(* The parse of a payload.                                                 *)

LEMMA AddMemberType ==
  ASSUME NEW p \in Parsed, NEW x \in Member
  PROVE  AddMember(p, x) \in Parsed
<1> DEFINE n == x.number
           e == p.entries
           i == Position(e, n)
           issues == p.issues \cup EntryIssues(x)
<1>1. /\ e \in Seq(PatchSet) /\ p.overflow \in SUBSET Nat
      /\ issues \in Issues /\ issues \cup Misshapen \in Issues /\ issues \cup {"limit"} \in Issues
  BY EntryIssuesType DEF Parsed, Issues, Misshapen
<1>2. ASSUME n # NoNumber
      PROVE  Append(e, Patch(x)) \in Seq(PatchSet) /\ p.overflow \cup {n} \in SUBSET Nat
  BY <1>1, <1>2, PatchType DEF Member
<1>3. ASSUME n # NoNumber, i # 0
      PROVE  [e EXCEPT ![i] = Duplicate(@, x)] \in Seq(PatchSet)
  <2>1. i \in 1 .. Len(e) /\ e[i] \in PatchSet
    BY <1>1, <1>3, PositionIs
  <2>2. Duplicate(e[i], x) \in PatchSet
    BY <1>3, <2>1 DEF Duplicate, PatchSet, Member, Value, Field
  <2> QED
    BY <1>1, <2>1, <2>2
<1>4. \A f \in Seq(PatchSet), o \in SUBSET Nat, t \in Issues : ParseResult(f, o, t) \in Parsed
  BY DEF ParseResult, Parsed
<1> HIDE DEF issues, i, n, e
<1>5. AddMember(p, x) =
        IF n = NoNumber THEN p
        ELSE IF n \in p.overflow THEN ParseResult(e, p.overflow, issues \cup Misshapen)
        ELSE IF i # 0
        THEN ParseResult([e EXCEPT ![i] = Duplicate(@, x)], p.overflow, issues \cup Misshapen)
        ELSE IF Len(e) = MaxEntries
        THEN ParseResult(e, p.overflow \cup {n}, issues \cup {"limit"})
        ELSE ParseResult(Append(e, Patch(x)), p.overflow, issues)
  BY Zenon DEF AddMember, issues, i, n, e
<1> QED
  BY <1>1, <1>2, <1>3, <1>4, <1>5

\* The members are added from the first to the last.
LEMMA AddMemberFold ==
  ASSUME NEW m \in Seq(Member)
  PROVE  \E v : /\ v[0] = Nothing /\ FoldLeft(AddMember, Nothing, m) = v[Len(m)]
                /\ \A k \in 1 .. Len(m) : v[k] = AddMember(v[k - 1], m[k])
<1> DEFINE Iter(it) == it = [I \in SUBSET (1 .. Len(m)) |->
                               IF I = {} THEN Nothing ELSE AddMember(it[I \ {Max(I)}], m[Max(I)])]
           F == [p \in Parsed \X Member |-> AddMember(p[1], p[2])]
<1>0. Nothing \in Parsed /\ Len(m) \in Nat /\ DOMAIN m = 1 .. Len(m)
  BY DEF Nothing, ParseResult, Parsed, Issues
<1>1. \E it : Iter(it)
  <2>1. F \in [Parsed \X Member -> Parsed]
    BY AddMemberType
  <2>2. \A p \in Parsed, x \in Member : F[<< p, x >>] = AddMember(p, x)
    OBVIOUS
  <2> HIDE DEF F, Iter
  <2>3. PICK g \in [SUBSET (1 .. Len(m)) -> Parsed] :
          \A I \in SUBSET (1 .. Len(m)) :
            g[I] = IF I = {} THEN Nothing ELSE F[<< g[I \ {Max(I)}], m[Max(I)] >>]
    <3>1. Foldable(Parsed, F, Nothing, m)
      BY <1>0, <2>1, FoldExists
    <3> QED
      BY <3>1 DEF Foldable
  <2>4. ASSUME NEW I \in SUBSET (1 .. Len(m)), I # {}
        PROVE  g[I \ {Max(I)}] \in Parsed /\ m[Max(I)] \in Member
    <3>1. Max(I) \in I /\ I \ {Max(I)} \in SUBSET (1 .. Len(m))
      BY <1>0, <2>4, MaxExists
    <3>2. g[I \ {Max(I)}] \in Parsed
      BY <3>1
    <3>3. m[Max(I)] \in Member
      <4>1. Max(I) \in 1 .. Len(m)
        BY <3>1
      <4> QED
        BY <1>0, <4>1
    <3> QED
      BY <3>2, <3>3
  <2>5. \A I \in SUBSET (1 .. Len(m)) :
          g[I] = IF I = {} THEN Nothing ELSE AddMember(g[I \ {Max(I)}], m[Max(I)])
    BY <2>2, <2>3, <2>4
  <2>6. Iter(g)
    BY <2>3, <2>5 DEF Iter
  <2> QED
    BY <2>6
<1> DEFINE it == CHOOSE it : Iter(it)
<1>2. Iter(it)
  BY <1>1
<1>3. FoldLeft(AddMember, Nothing, m) = it[1 .. Len(m)]
  BY <1>0 DEF FoldLeft, MapThenFoldSet
<1> HIDE DEF it
<1> DEFINE v == [k \in 0 .. Len(m) |-> it[1 .. k]]
<1>4. v[0] = Nothing
  <2>1. 1 .. 0 = {} /\ 0 \in 0 .. Len(m) /\ {} \in SUBSET (1 .. Len(m))
    BY <1>0
  <2> QED
    BY <1>2, <2>1
<1>5. ASSUME NEW k \in 1 .. Len(m) PROVE v[k] = AddMember(v[k - 1], m[k])
  <2>1. /\ 1 .. k \in SUBSET (1 .. Len(m)) /\ 1 .. k # {}
        /\ Max(1 .. k) = k /\ (1 .. k) \ {k} = 1 .. (k - 1)
        /\ k \in 0 .. Len(m) /\ k - 1 \in 0 .. Len(m)
    BY <1>0, UpTo
  <2>2. it[1 .. k] = AddMember(it[1 .. (k - 1)], m[k])
    BY <1>2, <2>1
  <2> QED
    BY <2>1, <2>2
<1>6. FoldLeft(AddMember, Nothing, m) = v[Len(m)]
  BY <1>0, <1>3
<1> QED
  BY <1>4, <1>5, <1>6

\* So the parser of an object ends in the invariant for all of its members.
LEMMA ParseIs ==
  ASSUME NEW payload \in Payloads
  PROVE  /\ payload.object \in BOOLEAN /\ payload.members \in Seq(Member)
         /\ payload.object =>
              ParseInv(ParseDriverList(payload), payload.members, Len(payload.members))
         /\ ~payload.object =>
              ParseDriverList(payload) =
                [entries |-> << >>, overflow |-> {}, object |-> FALSE, issues |-> {"shape"}]
<1> DEFINE m == payload.members
<1>1. payload.object \in BOOLEAN /\ m \in Seq(Member)
  BY PayloadsAssumption DEF PayloadsAssumption, Member, Value
<1>2. ASSUME payload.object PROVE ParseInv(ParseDriverList(payload), m, Len(m))
  <2>1. PICK v : /\ v[0] = Nothing /\ FoldLeft(AddMember, Nothing, m) = v[Len(m)]
                 /\ \A k \in 1 .. Len(m) : v[k] = AddMember(v[k - 1], m[k])
    BY <1>1, AddMemberFold
  <2> DEFINE T == { k \in Nat : k <= Len(m) => ParseInv(v[k], m, k) }
  <2>2. 0 \in T
    <3>1. MaxEntries \in Nat /\ 1 .. 0 = {} /\ Len(<< >>) = 0
      BY RegistryAssumption DEF RegistryAssumption
    <3>2. Nothing \in Parsed /\ Nothing.entries = << >> /\ Nothing.overflow = {} /\ Nothing.issues = {}
      BY DEF Nothing, ParseResult, Parsed, Issues
    <3>3. Counted(Nothing)
      BY <3>1, <3>2 DEF Counted
    <3>4. Covers(Nothing, m, 0) /\ InOrder(Nothing.entries, m, 0) /\ Faithful(Nothing.entries, m, 0)
      BY <3>1, <3>2 DEF Covers, InOrder, Faithful, MentionedIn, Stored
    <3> QED
      BY <2>1, <3>3, <3>4 DEF ParseInv
  <2>3. ASSUME NEW k \in Nat, k \in T PROVE k + 1 \in T
    <3> SUFFICES ASSUME k + 1 <= Len(m) PROVE ParseInv(v[k + 1], m, k + 1)
      OBVIOUS
    <3>1. k + 1 \in 1 .. Len(m) /\ (k + 1) - 1 = k
      BY <1>1
    <3>2. ParseInv(v[k], m, (k + 1) - 1)
      BY <1>1, <2>3, <3>1
    <3>3. ParseInv(AddMember(v[k], m[k + 1]), m, k + 1)
      BY <1>1, <3>1, <3>2, ParseStep
    <3> QED
      BY <2>1, <3>1, <3>3
  <2>4. Len(m) \in T /\ Len(m) \in Nat
    <3>1. \A k \in Nat : k \in T
      <4> HIDE DEF T
      <4> QED
        BY <2>2, <2>3, Induction
    <3> QED
      BY <1>1, <3>1
  <2>5. ParseDriverList(payload) = v[Len(m)]
    BY <1>2, <2>1 DEF ParseDriverList
  <2> QED
    BY <2>4, <2>5
<1>3. ~payload.object =>
        ParseDriverList(payload) =
          [entries |-> << >>, overflow |-> {}, object |-> FALSE, issues |-> {"shape"}]
  BY DEF ParseDriverList, ParseResult
<1> QED
  BY <1>1, <1>2, <1>3

-----------------------------------------------------------------------------
(* What the parser stores is what the roster hears.  An instance has its   *)
(* own copy of what the library defines of finite sets.                    *)

LEMMA SameCardinality ==
  ASSUME NEW S
  PROVE  Roster!Cardinality(S) = Cardinality(S)
BY Zenon DEF Roster!Cardinality, Cardinality

Numbers(e) == { e[i].number : i \in 1 .. Len(e) }

Once(e) == \A i, j \in 1 .. Len(e) : e[i].number = e[j].number => i = j

\* Numbers that are stored once each are as many as there are entries.
LEMMA NumbersCount ==
  ASSUME NEW T, NEW e \in Seq(T), Once(e)
  PROVE  IsFiniteSet(Numbers(e)) /\ Cardinality(Numbers(e)) = Len(e)
<1> DEFINE f == [i \in 1 .. Len(e) |-> e[i].number]
<1>1. Len(e) \in Nat
  OBVIOUS
<1>2. IsFiniteSet(1 .. Len(e)) /\ Cardinality(1 .. Len(e)) = Len(e)
  BY <1>1, FS_Interval
<1>3. f \in Bijection(1 .. Len(e), Numbers(e))
  <2>1. f \in [1 .. Len(e) -> Numbers(e)]
    BY DEF Numbers
  <2>2. \A n \in Numbers(e) : \E i \in 1 .. Len(e) : f[i] = n
    BY DEF Numbers
  <2>3. \A i, j \in 1 .. Len(e) : f[i] = f[j] => i = j
    BY DEF Once
  <2> HIDE DEF f
  <2> QED
    BY <2>1, <2>2, <2>3 DEF Bijection, Injection, Surjection, IsInjective
<1> QED
  BY <1>2, <1>3, FS_Bijection DEF ExistsBijection

LEMMA ValuesFinite ==
  ASSUME NEW payload \in Payloads
  PROVE  /\ IsFiniteSet(Roster!Mentioned(payload))
         /\ \A n : IsFiniteSet(Roster!Values(payload, n))
<1> DEFINE m == payload.members
           f == [i \in 1 .. Len(m) |-> m[i].number]
           S == { m[i].number : i \in 1 .. Len(m) }
<1>1. m \in Seq(Member) /\ Len(m) \in Nat /\ DOMAIN m = 1 .. Len(m)
  BY ParseIs
<1>2. IsFiniteSet(1 .. Len(m))
  BY <1>1, FS_Interval
<1>3. f \in Surjection(1 .. Len(m), S)
  BY DEF Surjection
<1>4. IsFiniteSet(S)
  <2> HIDE DEF f, S
  <2> QED
    BY <1>2, <1>3, FS_Surjection
<1>5. Roster!Mentioned(payload) \in SUBSET S
  BY <1>1 DEF Roster!Mentioned
<1>6. \A n : Roster!Values(payload, n) \in SUBSET (1 .. Len(m))
  BY <1>1 DEF Roster!Values
<1> HIDE DEF S
<1> QED
  BY <1>2, <1>4, <1>5, <1>6, FS_Subset

LEMMA MentionedIs ==
  ASSUME NEW payload \in Payloads, payload.object
  PROVE  \A n : n \in Roster!Mentioned(payload) <=>
                  \/ n \in Numbers(ParseDriverList(payload).entries)
                  \/ n \in ParseDriverList(payload).overflow
<1> DEFINE m == payload.members
           p == ParseDriverList(payload)
<1>1. m \in Seq(Member) /\ DOMAIN m = 1 .. Len(m) /\ ParseInv(p, m, Len(m))
  BY ParseIs
<1> HIDE DEF p
<1>2. ASSUME NEW n
      PROVE  n \in Roster!Mentioned(payload) <=> n \in Numbers(p.entries) \/ n \in p.overflow
  <2>1. n \in Roster!Mentioned(payload) <=> MentionedIn(m, Len(m), n)
    BY <1>1 DEF Roster!Mentioned, MentionedIn
  <2>2. MentionedIn(m, Len(m), n) <=> Stored(p.entries, n) \/ n \in p.overflow
    BY <1>1 DEF ParseInv, Covers
  <2>3. Stored(p.entries, n) <=> n \in Numbers(p.entries)
    BY DEF Stored, Numbers
  <2> QED
    BY <2>1, <2>2, <2>3
<1> QED
  BY <1>2 DEF p

\* The parser stops counting exactly when there are too many.
LEMMA LimitIs ==
  ASSUME NEW payload \in Payloads, payload.object
  PROVE  /\ "limit" \in ParseDriverList(payload).issues <=> Roster!TooMany(payload)
         /\ ~Roster!TooMany(payload) =>
              Roster!Mentioned(payload) = Numbers(ParseDriverList(payload).entries)
<1> DEFINE m == payload.members
           p == ParseDriverList(payload)
           e == p.entries
           M == Roster!Mentioned(payload)
<1>1. ParseInv(p, m, Len(m)) /\ MaxEntries \in Nat
  BY ParseIs, RegistryAssumption DEF RegistryAssumption
<1>2. \A n : n \in M <=> n \in Numbers(e) \/ n \in p.overflow
  BY MentionedIs
<1> HIDE DEF p, M
<1>3. /\ e \in Seq(PatchSet) /\ Once(e) /\ Len(e) <= MaxEntries /\ Len(e) \in Nat
      /\ p.overflow # {} => Len(e) = MaxEntries
      /\ "limit" \in p.issues <=> p.overflow # {}
  BY <1>1 DEF ParseInv, Counted, Parsed, Once
<1>4. IsFiniteSet(Numbers(e)) /\ Cardinality(Numbers(e)) = Len(e)
  BY <1>3, NumbersCount
<1>5. Roster!TooMany(payload) <=> Cardinality(M) > MaxEntries
  BY SameCardinality DEF Roster!TooMany, M
<1>6. CASE p.overflow = {}
  <2>1. M = Numbers(e)
    BY <1>2, <1>6
  <2> QED
    BY <1>1, <1>3, <1>4, <1>5, <1>6, <2>1 DEF p, M
<1>7. CASE p.overflow # {}
  <2>1. PICK x \in p.overflow : x \notin Numbers(e)
    BY <1>1, <1>7 DEF ParseInv, Counted, Stored, Numbers
  <2> DEFINE N == Numbers(e) \cup {x}
  <2>2. Cardinality(N) = Len(e) + 1 /\ N \in SUBSET M
    BY <1>2, <1>4, <2>1, FS_AddElement
  <2>3. IsFiniteSet(M)
    BY ValuesFinite DEF M
  <2>4. Cardinality(N) <= Cardinality(M) /\ Cardinality(M) \in Nat
    <3> HIDE DEF N
    <3> QED
      BY <2>2, <2>3, FS_Subset, FS_CardinalityType
  <2>5. Cardinality(M) > MaxEntries
    BY <1>1, <1>3, <1>7, <2>2, <2>4
  <2> QED
    BY <1>3, <1>5, <1>7, <2>5 DEF p, M
<1> QED
  BY <1>6, <1>7

\* What an entry holds is what was said of its driver.
LEMMA SaidIs ==
  ASSUME NEW payload \in Payloads, payload.object,
         NEW i \in 1 .. Len(ParseDriverList(payload).entries)
  PROVE  LET x == ParseDriverList(payload).entries[i]
         IN  Roster!Said(payload, x.number) =
               [whole |-> x.object /\ ~x.duplicate, tla |-> x.tla, racing |-> x.racing]
<1> DEFINE m == payload.members
           p == ParseDriverList(payload)
           x == p.entries[i]
           n == x.number
           V == Roster!Values(payload, n)
<1>1. m \in Seq(Member) /\ DOMAIN m = 1 .. Len(m) /\ Len(m) \in Nat /\ ParseInv(p, m, Len(m))
  BY ParseIs
<1>i. i \in 1 .. Len(p.entries)
  OBVIOUS
<1> HIDE DEF p
<1>2. x \in PatchSet
  BY <1>1, <1>i DEF ParseInv, Counted, Parsed
<1>3. V = { a \in 1 .. Len(m) : m[a].number = n }
  BY <1>1 DEF Roster!Values
<1>4. PICK a \in 1 .. Len(m) : m[a].number = n
  BY <1>1, <1>i DEF ParseInv, Covers, MentionedIn, Stored
<1>5. Reports(x, m, Len(m), a)
  BY <1>1, <1>4, <1>i DEF ParseInv, Faithful
<1> DEFINE c == CHOOSE j \in V : TRUE
<1>6. Roster!Said(payload, n) =
        LET v == m[c].value
        IN  IF Cardinality(V) > 1 THEN [whole |-> FALSE, tla |-> Bad, racing |-> Bad]
            ELSE IF ~v.object THEN [whole |-> FALSE, tla |-> Bad, racing |-> Absent]
            ELSE [whole |-> TRUE, tla |-> Roster!Only(v.tla), racing |-> Roster!Only(v.racing)]
  BY SameCardinality, Zenon DEF Roster!Said
<1> HIDE DEF V, c
<1>7. CASE \E b \in 1 .. Len(m) : b # a /\ m[b].number = m[a].number
  <2>1. PICK b \in 1 .. Len(m) : b # a /\ m[b].number = m[a].number
    BY <1>7
  <2>2. {a, b} \in SUBSET V
    BY <1>3, <1>4, <2>1
  <2>3. Cardinality({a, b}) = 2
    <3> DEFINE A == {a}
    <3>1. IsFiniteSet(A) /\ Cardinality(A) = 1 /\ b \notin A /\ {a, b} = A \cup {b}
      BY <2>1, FS_Singleton
    <3> HIDE DEF A
    <3> QED
      BY <3>1, FS_AddElement
  <2>4. IsFiniteSet(V)
    BY ValuesFinite DEF V
  <2>5. Cardinality(V) > 1
    <3>1. Cardinality({a, b}) <= Cardinality(V) /\ Cardinality(V) \in Nat
      BY <2>2, <2>4, FS_Subset, FS_CardinalityType
    <3> QED
      BY <2>3, <3>1
  <2>6. Roster!Said(payload, n) = [whole |-> FALSE, tla |-> Bad, racing |-> Bad]
    BY <1>6, <2>5
  <2>7. x.duplicate /\ x.tla = Bad /\ x.racing = Bad
    BY <1>5, <1>7 DEF Reports
  <2> QED
    BY <2>6, <2>7 DEF p
<1>8. CASE ~\E b \in 1 .. Len(m) : b # a /\ m[b].number = m[a].number
  <2>1. V = {a}
    BY <1>3, <1>4, <1>8
  <2>2. Cardinality(V) = 1 /\ c = a
    BY <2>1, FS_Singleton DEF c
  <2>3. x = Patch(m[a])
    BY <1>5, <1>8 DEF Reports
  <2> DEFINE v == m[a].value
  <2>4. v.tla \in Seq(Fields) /\ v.racing \in Seq(Fields) /\ v.object \in BOOLEAN
    <3>1. m[a] \in Member
      BY <1>1
    <3> QED
      BY <3>1 DEF Member, Value
  <2>5. \A g \in Seq(Fields) : Roster!Only(g) = TheOnly(g)
    BY DEF Roster!Only, TheOnly
  <2>6. Roster!Said(payload, n) =
          IF ~v.object THEN [whole |-> FALSE, tla |-> Bad, racing |-> Absent]
          ELSE [whole |-> TRUE, tla |-> TheOnly(v.tla), racing |-> TheOnly(v.racing)]
    <3>1. Roster!Only(v.tla) = TheOnly(v.tla) /\ Roster!Only(v.racing) = TheOnly(v.racing)
      BY <2>4, <2>5
    <3>2. ~(Cardinality(V) > 1) /\ m[c].value = v
      BY <2>2
    <3> HIDE DEF v
    <3> QED
      BY <1>6, <3>1, <3>2
  <2>7. /\ x.object = v.object /\ x.duplicate = FALSE
        /\ x.tla = IF v.object THEN TheOnly(v.tla) ELSE Bad
        /\ x.racing = IF v.object THEN TheOnly(v.racing) ELSE Absent
    BY <2>3 DEF Patch
  <2>8. Roster!Said(payload, n) =
          [whole |-> x.object /\ ~x.duplicate, tla |-> x.tla, racing |-> x.racing]
    BY <2>4, <2>6, <2>7
  <2> QED
    BY <2>8 DEF p
<1> QED
  BY <1>7, <1>8

\* The entries stand in the order of first mention.
LEMMA EarlierIs ==
  ASSUME NEW payload \in Payloads, payload.object,
         NEW i \in 1 .. Len(ParseDriverList(payload).entries),
         NEW j \in 1 .. Len(ParseDriverList(payload).entries)
  PROVE  LET e == ParseDriverList(payload).entries
         IN  Roster!Earlier(payload, e[i].number, e[j].number) <=> i < j
<1> DEFINE m == payload.members
           p == ParseDriverList(payload)
           e == p.entries
           Ahead(k, l) == \E a \in 1 .. Len(m) :
                            /\ m[a].number = e[k].number
                            /\ \A b \in 1 .. Len(m) : m[b].number = e[l].number => a < b
<1>1. m \in Seq(Member) /\ DOMAIN m = 1 .. Len(m) /\ Len(m) \in Nat /\ ParseInv(p, m, Len(m))
  BY ParseIs
<1>2. i \in 1 .. Len(e) /\ j \in 1 .. Len(e) /\ Len(e) \in Nat
  BY <1>1 DEF ParseInv, Counted, Parsed
<1>3. Roster!Earlier(payload, e[i].number, e[j].number) <=> Ahead(i, j)
  BY <1>1 DEF Roster!Earlier, Roster!Values
<1> HIDE DEF p
<1>4. \A k, l \in 1 .. Len(e) : k < l => Ahead(k, l)
  BY <1>1 DEF ParseInv, InOrder
<1>5. \A k \in 1 .. Len(e) : \E a \in 1 .. Len(m) : m[a].number = e[k].number
  BY <1>1 DEF ParseInv, Covers, MentionedIn, Stored
<1>6. \A k, l \in 1 .. Len(e) : ~(Ahead(k, l) /\ Ahead(l, k))
  OBVIOUS
<1> HIDE DEF Ahead
<1>7. Ahead(i, j) => i < j
  BY <1>2, <1>4, <1>6
<1> QED
  BY <1>2, <1>3, <1>4, <1>7 DEF p

-----------------------------------------------------------------------------
(* The sorted array: what is found in it, inserted and replaced.           *)

Sorted(d) == \A i, j \in 1 .. Len(d) : i < j => d[i].number < d[j].number

Rows(d) == { d[i] : i \in 1 .. Len(d) }

LEMMA RowType ==
  ASSUME NEW d \in Seq(Entry)
  PROVE  /\ Len(d) \in Nat
         /\ \A i \in 1 .. Len(d) : i \in Nat /\ d[i] \in Entry /\ d[i].number \in Nat
<1>1. Len(d) \in Nat /\ \A i \in 1 .. Len(d) : i \in Nat /\ d[i] \in Entry
  OBVIOUS
<1> QED
  BY <1>1 DEF Entry

LEMMA SortedOnce ==
  ASSUME NEW d \in Seq(Entry), Sorted(d)
  PROVE  Once(d)
<1>1. \A i \in 1 .. Len(d) : i \in Nat /\ d[i].number \in Nat
  BY RowType
<1> QED
  BY <1>1 DEF Sorted, Once

\* Below the index numbers are smaller, from there on they are not.
LEMMA IndexIs ==
  ASSUME NEW d \in Seq(Entry), Sorted(d), NEW n \in Nat
  PROVE  /\ Index(d, n) \in 1 .. (Len(d) + 1)
         /\ \A j \in 1 .. Len(d) : IF j < Index(d, n) THEN d[j].number < n ELSE d[j].number >= n
         /\ Found(d, n) <=> n \in Numbers(d)
         /\ Found(d, n) => Index(d, n) \in 1 .. Len(d) /\ d[Index(d, n)].number = n
<1> DEFINE I == { i \in 1 .. Len(d) : d[i].number >= n }
           i == Index(d, n)
<1>1. Len(d) \in Nat /\ \A j \in 1 .. Len(d) : j \in Nat /\ d[j].number \in Nat
  BY RowType
<1>2. i = IF I # {} THEN IF Min(I) = 0 THEN Len(d) + 1 ELSE Min(I) ELSE Len(d) + 1
  BY <1>1 DEF Index, SelectInSeq
<1>3. /\ i \in 1 .. (Len(d) + 1)
      /\ \A j \in 1 .. Len(d) : IF j < i THEN d[j].number < n ELSE d[j].number >= n
  <2>1. CASE I = {}
    BY <1>1, <1>2, <2>1
  <2>2. CASE I # {}
    <3>1. I \in SUBSET Nat
      BY <1>1
    <3>2. Min(I) \in I /\ \A y \in I : Min(I) <= y
      <4> HIDE DEF I
      <4> QED
        BY <2>2, <3>1, MinIsLeast
    <3>3. i = Min(I) /\ i \in 1 .. Len(d) /\ d[i].number >= n
      BY <1>2, <2>2, <3>2
    <3>4. \A j \in 1 .. Len(d) : j < i => d[j].number < n
      BY <1>1, <3>2, <3>3
    <3>5. \A j \in 1 .. Len(d) : ~(j < i) => d[j].number >= n
      <4> SUFFICES ASSUME NEW j \in 1 .. Len(d), j > i PROVE d[j].number >= n
        BY <1>1, <3>3
      <4>1. d[i].number < d[j].number
        BY <3>3 DEF Sorted
      <4> QED
        BY <1>1, <3>3, <4>1
    <3> QED
      BY <1>1, <3>3, <3>4, <3>5
  <2> QED
    BY <2>1, <2>2
<1> HIDE DEF i
<1>4. Found(d, n) <=> i <= Len(d) /\ d[i].number = n
  BY DEF Found, i
<1>5. Found(d, n) => i \in 1 .. Len(d) /\ d[i].number = n
  BY <1>1, <1>3, <1>4
<1>6. ASSUME n \in Numbers(d) PROVE Found(d, n)
  <2>1. PICK j \in 1 .. Len(d) : d[j].number = n
    BY <1>6 DEF Numbers
  <2>2. ~(j < i)
    BY <1>1, <1>3, <2>1
  <2>3. i \in 1 .. Len(d) /\ d[i].number >= n
    BY <1>1, <1>3, <2>2
  <2>4. i < j => d[i].number < d[j].number
    BY <2>3 DEF Sorted
  <2>5. i = j
    BY <1>1, <1>3, <2>1, <2>2, <2>3, <2>4
  <2> QED
    BY <1>1, <1>4, <2>1, <2>5
<1>7. Found(d, n) => n \in Numbers(d)
  BY <1>5 DEF Numbers
<1> QED
  BY <1>3, <1>5, <1>6, <1>7 DEF i

LEMMA InsertAtIs ==
  ASSUME NEW d \in Seq(Entry), NEW i \in 1 .. (Len(d) + 1), NEW x \in Entry
  PROVE  /\ InsertAt(d, i, x) \in Seq(Entry) /\ Len(InsertAt(d, i, x)) = Len(d) + 1
         /\ \A j \in 1 .. (Len(d) + 1) :
              InsertAt(d, i, x)[j] = IF j < i THEN d[j] ELSE IF j = i THEN x ELSE d[j - 1]
<1> DEFINE a == SubSeq(d, 1, i - 1)
           b == SubSeq(d, i, Len(d))
<1>1. Len(d) \in Nat /\ i \in Nat /\ i - 1 \in Nat
  OBVIOUS
<1>2. a \in Seq(Entry) /\ Len(a) = i - 1 /\ \A j \in 1 .. (i - 1) : a[j] = d[j]
  BY <1>1
<1>3. b \in Seq(Entry) /\ Len(b) = Len(d) - i + 1 /\ \A j \in 1 .. Len(b) : b[j] = d[i + j - 1]
  BY <1>1
<1> HIDE DEF a, b
<1> DEFINE c == a \o << x >>
<1>4. c \in Seq(Entry) /\ Len(c) = i /\ c[i] = x /\ \A j \in 1 .. (i - 1) : c[j] = d[j]
  BY <1>1, <1>2
<1> HIDE DEF c
<1> DEFINE f == c \o b
<1>5. f \in Seq(Entry) /\ Len(f) = Len(d) + 1
  BY <1>1, <1>3, <1>4
<1>6. ASSUME NEW j \in 1 .. (Len(d) + 1)
      PROVE  f[j] = IF j < i THEN d[j] ELSE IF j = i THEN x ELSE d[j - 1]
  <2>1. CASE j <= i
    <3>1. j \in 1 .. Len(c) /\ f[j] = c[j]
      BY <1>1, <1>3, <1>4, <2>1
    <3> QED
      BY <1>1, <1>4, <2>1, <3>1
  <2>2. CASE j > i
    <3>1. j - i \in 1 .. Len(b) /\ i + (j - i) - 1 = j - 1
      BY <1>1, <1>3, <2>2
    <3>2. f[j] = b[j - i]
      BY <1>1, <1>3, <1>4, <2>2, <3>1
    <3> QED
      BY <1>1, <1>3, <2>2, <3>1, <3>2
  <2>3. j <= i \/ j > i
    BY <1>1
  <2> QED
    BY <2>1, <2>2, <2>3, Zenon
<1>7. InsertAt(d, i, x) = f
  BY DEF InsertAt, a, b, c
<1> QED
  BY <1>5, <1>6, <1>7

\* A row of a new number is inserted where the array stays sorted.
LEMMA Inserted ==
  ASSUME NEW d \in Seq(Entry), Sorted(d), NEW x \in Entry, x.number \notin Numbers(d)
  PROVE  LET f == InsertAt(d, Index(d, x.number), x)
         IN  /\ f \in Seq(Entry) /\ Len(f) = Len(d) + 1 /\ Sorted(f)
             /\ Rows(f) = Rows(d) \cup {x}
             /\ Numbers(f) = Numbers(d) \cup {x.number}
<1> DEFINE n == x.number
           i == Index(d, n)
           f == InsertAt(d, i, x)
<1> HIDE DEF i
<1>0. n \in Nat
  BY DEF Entry
<1>1. Len(d) \in Nat /\ \A j \in 1 .. Len(d) : d[j].number \in Nat /\ d[j].number # n
  <2>1. Len(d) \in Nat /\ \A j \in 1 .. Len(d) : d[j].number \in Nat
    BY RowType
  <2>2. \A j \in 1 .. Len(d) : d[j].number \in Numbers(d)
    BY Zenon DEF Numbers
  <2> QED
    BY <1>0, <2>1, <2>2
<1>2. /\ i \in 1 .. (Len(d) + 1) /\ i \in Nat
      /\ \A j \in 1 .. Len(d) : IF j < i THEN d[j].number < n ELSE d[j].number > n
  <2>1. /\ i \in 1 .. (Len(d) + 1)
        /\ \A j \in 1 .. Len(d) : IF j < i THEN d[j].number < n ELSE d[j].number >= n
    BY <1>0, IndexIs, Zenon DEF i
  <2>2. \A j \in 1 .. Len(d) : ~(j < i) => d[j].number > n
    BY <1>0, <1>1, <2>1
  <2> QED
    BY <1>1, <2>1, <2>2
<1>3. /\ f \in Seq(Entry) /\ Len(f) = Len(d) + 1
      /\ \A j \in 1 .. (Len(d) + 1) : f[j] = IF j < i THEN d[j] ELSE IF j = i THEN x ELSE d[j - 1]
  <2>1. i \in 1 .. (Len(d) + 1)
    BY <1>2
  <2> QED
    BY <2>1, InsertAtIs, Zenon
<1> HIDE DEF f
<1>4. ASSUME NEW j \in 1 .. (Len(d) + 1), NEW k \in 1 .. (Len(d) + 1), j < k
      PROVE  f[j].number < f[k].number
  <2>0. j \in Nat /\ k \in Nat
    OBVIOUS
  <2>1. CASE k < i
    <3>1. f[j] = d[j] /\ f[k] = d[k] /\ j \in 1 .. Len(d) /\ k \in 1 .. Len(d)
      BY <1>1, <1>2, <1>3, <1>4, <2>0, <2>1
    <3> QED
      BY <1>4, <3>1 DEF Sorted
  <2>2. CASE k = i
    <3>1. f[j] = d[j] /\ f[k] = x /\ j \in 1 .. Len(d) /\ j < i
      BY <1>1, <1>2, <1>3, <1>4, <2>0, <2>2
    <3> QED
      BY <1>2, <3>1
  <2>3. CASE k > i /\ j = i
    <3>1. f[j] = x /\ f[k] = d[k - 1] /\ k - 1 \in 1 .. Len(d) /\ ~(k - 1 < i)
      BY <1>1, <1>2, <1>3, <1>4, <2>0, <2>3
    <3>2. d[k - 1].number > n /\ d[k - 1].number \in Nat
      BY <1>1, <1>2, <3>1
    <3> QED
      BY <1>0, <1>1, <3>1, <3>2
  <2>4. CASE k > i /\ j < i
    <3>1. f[j] = d[j] /\ f[k] = d[k - 1] /\ k - 1 \in 1 .. Len(d) /\ j \in 1 .. Len(d) /\ j < i
          /\ ~(k - 1 < i)
      BY <1>1, <1>2, <1>3, <1>4, <2>0, <2>4
    <3>2. d[j].number < n /\ d[k - 1].number > n
      BY <1>2, <3>1
    <3> QED
      BY <1>0, <1>1, <3>1, <3>2
  <2>5. CASE k > i /\ j > i
    <3>1. f[j] = d[j - 1] /\ f[k] = d[k - 1] /\ k - 1 \in 1 .. Len(d) /\ j - 1 \in 1 .. Len(d)
          /\ j - 1 < k - 1
      BY <1>1, <1>2, <1>3, <1>4, <2>0, <2>5
    <3> QED
      BY <3>1 DEF Sorted
  <2> QED
    BY <1>2, <2>0, <2>1, <2>2, <2>3, <2>4, <2>5
<1>5. Sorted(f)
  BY <1>3, <1>4 DEF Sorted
<1>6. \A y : y \in Rows(f) <=> y \in Rows(d) \/ y = x
  <2> SUFFICES ASSUME NEW y PROVE y \in Rows(f) <=> y \in Rows(d) \/ y = x
    OBVIOUS
  <2>1. ASSUME y \in Rows(f) PROVE y \in Rows(d) \/ y = x
    <3>1. PICK j \in 1 .. (Len(d) + 1) : y = f[j]
      BY <1>3, <2>1 DEF Rows
    <3>2. j < i => j \in 1 .. Len(d)
      BY <1>1, <1>2
    <3>3. j > i => j - 1 \in 1 .. Len(d)
      BY <1>1, <1>2
    <3> QED
      BY <1>2, <1>3, <3>1, <3>2, <3>3 DEF Rows
  <2>2. ASSUME y = x PROVE y \in Rows(f)
    BY <1>2, <1>3, <2>2 DEF Rows
  <2>3. ASSUME y \in Rows(d) PROVE y \in Rows(f)
    <3>1. PICK j \in 1 .. Len(d) : y = d[j]
      BY <2>3 DEF Rows
    <3>2. CASE j < i
      <4>1. j \in 1 .. (Len(d) + 1) /\ f[j] = y
        BY <1>1, <1>3, <3>1, <3>2
      <4> QED
        BY <1>3, <4>1 DEF Rows
    <3>3. CASE ~(j < i)
      <4>1. j + 1 \in 1 .. (Len(d) + 1) /\ ~(j + 1 < i) /\ j + 1 # i /\ (j + 1) - 1 = j
        BY <1>1, <1>2, <3>3
      <4>2. f[j + 1] = y
        BY <1>3, <3>1, <4>1
      <4> QED
        BY <1>3, <4>1, <4>2 DEF Rows
    <3> QED
      BY <3>2, <3>3
  <2> QED
    BY <2>1, <2>2, <2>3
<1>7. Rows(f) = Rows(d) \cup {x}
  BY <1>6
<1>8. \A g : Numbers(g) = { y.number : y \in Rows(g) }
  BY DEF Numbers, Rows
<1>9. Numbers(f) = Numbers(d) \cup {n}
  <2>1. Numbers(f) = { y.number : y \in Rows(d) \cup {x} }
    BY <1>7, <1>8
  <2>2. { y.number : y \in Rows(d) \cup {x} } = { y.number : y \in Rows(d) } \cup {x.number}
    OBVIOUS
  <2> QED
    BY <1>8, <2>1, <2>2
<1> QED
  BY <1>3, <1>5, <1>7, <1>9 DEF f, i

\* A row is replaced by another of its number.
LEMMA Replaced ==
  ASSUME NEW d \in Seq(Entry), Sorted(d), NEW i \in 1 .. Len(d), NEW x \in Entry,
         x.number = d[i].number
  PROVE  LET f == [d EXCEPT ![i] = x]
         IN  /\ f \in Seq(Entry) /\ Len(f) = Len(d) /\ Sorted(f)
             /\ \A y : y \in Rows(f) <=> y = x \/ (y \in Rows(d) /\ y.number # x.number)
             /\ Numbers(f) = Numbers(d)
<1> DEFINE f == [d EXCEPT ![i] = x]
<1>1. /\ f \in Seq(Entry) /\ Len(f) = Len(d) /\ f[i] = x
      /\ \A j \in 1 .. Len(d) : j # i => f[j] = d[j]
      /\ \A j \in 1 .. Len(d) : f[j].number = d[j].number
  OBVIOUS
<1> HIDE DEF f
<1>2. Once(d)
  BY SortedOnce
<1>3. Sorted(f)
  BY <1>1 DEF Sorted
<1>4. ASSUME NEW y PROVE y \in Rows(f) <=> y = x \/ (y \in Rows(d) /\ y.number # x.number)
  <2>1. ASSUME y \in Rows(f) PROVE y = x \/ (y \in Rows(d) /\ y.number # x.number)
    <3>1. PICK j \in 1 .. Len(d) : y = f[j]
      BY <1>1, <2>1 DEF Rows
    <3>2. j # i => y = d[j] /\ d[j].number # d[i].number
      BY <1>1, <1>2, <3>1 DEF Once
    <3> QED
      BY <1>1, <3>1, <3>2 DEF Rows
  <2>2. ASSUME y \in Rows(d), y.number # x.number PROVE y \in Rows(f)
    <3>1. PICK j \in 1 .. Len(d) : y = d[j]
      BY <2>2 DEF Rows
    <3>2. j # i /\ f[j] = y
      BY <1>1, <2>2, <3>1
    <3> QED
      BY <1>1, <3>2 DEF Rows
  <2>3. x \in Rows(f)
    BY <1>1 DEF Rows
  <2> QED
    BY <2>1, <2>2, <2>3
<1>5. Numbers(f) = Numbers(d)
  BY <1>1 DEF Numbers
<1> QED
  BY <1>1, <1>3, <1>4, <1>5 DEF f

-----------------------------------------------------------------------------
(* The array as a roster: what is known of the driver n.                   *)

Row(d, n) == d[CHOOSE i \in 1 .. Len(d) : d[i].number = n]

Known(d) == [n \in Numbers(d) |-> [tla |-> Row(d, n).tla, racing |-> Row(d, n).racing]]

\* An array without room to spare, sorted.
Kept(d) == d \in Seq(Entry) /\ Sorted(d) /\ Len(d) <= MaxEntries

LEMMA RowIs ==
  ASSUME NEW d \in Seq(Entry), Sorted(d)
  PROVE  /\ \A i \in 1 .. Len(d) : Row(d, d[i].number) = d[i]
         /\ \A y \in Rows(d) : y \in Entry /\ y.number \in Numbers(d) /\ Row(d, y.number) = y
         /\ \A n \in Numbers(d) : Row(d, n) \in Rows(d) /\ Row(d, n).number = n
<1>1. Once(d)
  BY SortedOnce
<1>2. ASSUME NEW i \in 1 .. Len(d) PROVE Row(d, d[i].number) = d[i]
  <2> DEFINE c == CHOOSE j \in 1 .. Len(d) : d[j].number = d[i].number
  <2>1. c \in 1 .. Len(d) /\ d[c].number = d[i].number
    OBVIOUS
  <2> HIDE DEF c
  <2>2. c = i
    BY <1>1, <2>1 DEF Once
  <2> QED
    BY <2>2 DEF Row, c
<1>3. ASSUME NEW y \in Rows(d) PROVE y \in Entry /\ y.number \in Numbers(d) /\ Row(d, y.number) = y
  BY <1>2, RowType DEF Rows, Numbers
<1>4. ASSUME NEW n \in Numbers(d) PROVE Row(d, n) \in Rows(d) /\ Row(d, n).number = n
  BY <1>2 DEF Rows, Numbers
<1> QED
  BY <1>2, <1>3, <1>4

\* What is known after the row x is put in, over a row of its number or as a new one.
LEMMA KnownWith ==
  ASSUME NEW d \in Seq(Entry), Sorted(d), NEW f \in Seq(Entry), Sorted(f), NEW x \in Entry,
         \A y : y \in Rows(f) <=> y = x \/ (y \in Rows(d) /\ y.number # x.number),
         Numbers(f) = Numbers(d) \cup {x.number}
  PROVE  Known(f) = [n \in Numbers(d) \cup {x.number} |->
                       IF n = x.number THEN [tla |-> x.tla, racing |-> x.racing] ELSE Known(d)[n]]
<1>1. ASSUME NEW n \in Numbers(d) \cup {x.number}
      PROVE  Row(f, n) = IF n = x.number THEN x ELSE Row(d, n)
  <2>1. CASE n = x.number
    BY <2>1, RowIs
  <2>2. CASE n # x.number
    <3>1. Row(d, n) \in Rows(d) /\ Row(d, n).number = n
      BY <2>2, RowIs
    <3>2. Row(d, n) \in Rows(f)
      BY <2>2, <3>1
    <3> QED
      BY <2>2, <3>1, <3>2, RowIs
  <2> QED
    BY <2>1, <2>2
<1> QED
  BY <1>1 DEF Known

LEMMA KnownSize ==
  ASSUME NEW d \in Seq(Entry), Sorted(d)
  PROVE  /\ DOMAIN Known(d) = Numbers(d) /\ IsFiniteSet(Numbers(d))
         /\ Cardinality(Numbers(d)) = Len(d)
BY SortedOnce, NumbersCount DEF Known

-----------------------------------------------------------------------------
(* Staging.                                                                *)

\* What a patch makes of what is known.
Over(g, p) ==
  LET old == IF p.number \in DOMAIN g THEN g[p.number] ELSE [tla |-> Absent, racing |-> Absent]
  IN  [tla |-> Roster!Overlaid(old.tla, p.tla), racing |-> Roster!Overlaid(old.racing, p.racing)]

\* One patch: it is laid over what is known, or there is no room for it.
LEMMA ApplyIs ==
  ASSUME NEW r \in ReductionSet, Kept(r.state.drivers), NEW p \in PatchSet
  PROVE  LET q == ApplyStagedDriverPatch(r, p)
             d == r.state.drivers
             f == q.state.drivers
             n == p.number
             same == n \in Numbers(d) /\ Over(Known(d), p) = Known(d)[n]
         IN  /\ q \in ReductionSet /\ Kept(f) /\ q.state = [r.state EXCEPT !.drivers = f]
             /\ n \in Numbers(d) \/ Len(d) < MaxEntries =>
                  /\ Known(f) = [k \in Numbers(d) \cup {n} |->
                                   IF k = n THEN Over(Known(d), p) ELSE Known(d)[k]]
                  /\ Numbers(f) = Numbers(d) \cup {n}
                  /\ Len(f) = IF n \in Numbers(d) THEN Len(d) ELSE Len(d) + 1
                  /\ q.issues = r.issues
                  /\ q.disposition = IF same THEN r.disposition ELSE "staged"
                  /\ same => f = d
             /\ n \notin Numbers(d) /\ Len(d) = MaxEntries =>
                  q.state = r.state /\ q.disposition = r.disposition
                  /\ q.issues = r.issues \cup {"limit"}
<1> DEFINE q == ApplyStagedDriverPatch(r, p)
           d == r.state.drivers
           f == q.state.drivers
           n == p.number
           i == Index(d, n)
           same == n \in Numbers(d) /\ Over(Known(d), p) = Known(d)[n]
           blank == [number |-> n, tla |-> Absent, racing |-> Absent]
           With(g, disposition) ==
             Reduction([r.state EXCEPT !.drivers = g], disposition, r.issues)
<1>1. /\ d \in Seq(Entry) /\ Sorted(d) /\ Len(d) <= MaxEntries /\ Len(d) \in Nat
      /\ MaxEntries \in Nat /\ n \in Nat /\ p.tla \in Field /\ p.racing \in Field
      /\ r.state \in State /\ r.disposition \in { "noUpdate", "staged" } /\ r.issues \in Issues
  BY RegistryAssumption DEF Kept, RegistryAssumption, PatchSet, ReductionSet, State
<1>2. /\ Found(d, n) <=> n \in Numbers(d)
      /\ Found(d, n) => i \in 1 .. Len(d) /\ d[i].number = n
  BY <1>1, IndexIs
<1>3. q = IF Found(d, n)
          THEN With([d EXCEPT ![i] = Overlay(d[i], p)],
                    IF Overlay(d[i], p) = d[i] THEN r.disposition ELSE "staged")
          ELSE IF Len(d) = MaxEntries
          THEN Reduction(r.state, r.disposition, r.issues \cup {"limit"})
          ELSE With(InsertAt(d, i, Overlay(blank, p)), "staged")
  BY Zenon DEF ApplyStagedDriverPatch
<1>4. ASSUME NEW g \in Seq(Entry), NEW t \in { "noUpdate", "staged" }, q = With(g, t)
      PROVE  /\ f = g /\ q \in ReductionSet /\ q.state = [r.state EXCEPT !.drivers = f]
             /\ q.issues = r.issues /\ q.disposition = t
  <2>1. [r.state EXCEPT !.drivers = g] \in State /\ [r.state EXCEPT !.drivers = g].drivers = g
    BY <1>1 DEF State
  <2>2. q.state = [r.state EXCEPT !.drivers = g] /\ q.issues = r.issues /\ q.disposition = t
    BY <1>4 DEF Reduction
  <2> QED
    BY <1>1, <1>4, <2>1, <2>2 DEF Reduction, ReductionSet
<1>5. Overlay(blank, p) \in Entry /\ Overlay(blank, p).number = n
  BY <1>1 DEF Overlay, Entry, Field
<1> HIDE DEF q, d, i, With
<1>6. CASE Found(d, n)
  <2> DEFINE x == Overlay(d[i], p)
  <2>1. i \in 1 .. Len(d) /\ d[i].number = n /\ d[i] \in Entry
    BY <1>1, <1>2, <1>6, RowType
  <2>2. x \in Entry /\ x.number = n
    BY <1>1, <2>1 DEF Overlay, Entry
  <2>3. /\ Row(d, n) = d[i] /\ Known(d)[n] = [tla |-> d[i].tla, racing |-> d[i].racing]
        /\ n \in Numbers(d) /\ DOMAIN Known(d) = Numbers(d)
    BY <1>1, <1>2, <1>6, <2>1, RowIs DEF Known
  <2>4. Over(Known(d), p) = [tla |-> x.tla, racing |-> x.racing]
    BY <2>3 DEF Over, Overlay, Roster!Overlaid
  <2>5. same <=> x = d[i]
    BY <2>1, <2>2, <2>3, <2>4 DEF Entry
  <2> HIDE DEF x, same
  <2> DEFINE g == [d EXCEPT ![i] = x]
  <2>6. /\ g \in Seq(Entry) /\ Len(g) = Len(d) /\ Sorted(g)
        /\ \A y : y \in Rows(g) <=> y = x \/ (y \in Rows(d) /\ y.number # x.number)
        /\ Numbers(g) = Numbers(d)
    <3>1. x.number = d[i].number
      BY <2>1, <2>2
    <3> QED
      BY <1>1, <2>1, <2>2, <3>1, Replaced, Zenon
  <2>7. x = d[i] => g = d
    BY <1>1, <2>1
  <2>8. q = With(g, IF x = d[i] THEN r.disposition ELSE "staged")
    BY <1>3, <1>6 DEF x
  <2> HIDE DEF g
  <2>9. Numbers(g) = Numbers(d) \cup {x.number}
    BY <2>2, <2>3, <2>6
  <2>10. Known(g) = [k \in Numbers(d) \cup {n} |->
                       IF k = n THEN Over(Known(d), p) ELSE Known(d)[k]]
    <3>1. Known(g) = [k \in Numbers(d) \cup {x.number} |->
                        IF k = x.number THEN [tla |-> x.tla, racing |-> x.racing] ELSE Known(d)[k]]
      BY <1>1, <2>2, <2>6, <2>9, KnownWith, Zenon
    <3> QED
      BY <2>2, <2>4, <3>1
  <2>11. /\ f = g /\ q \in ReductionSet /\ q.state = [r.state EXCEPT !.drivers = f]
         /\ q.issues = r.issues /\ q.disposition = IF x = d[i] THEN r.disposition ELSE "staged"
    BY <1>1, <1>4, <2>6, <2>8
  <2> HIDE DEF f
  <2> QED
    BY <1>1, <2>2, <2>3, <2>5, <2>6, <2>7, <2>9, <2>10, <2>11 DEF Kept, f, q, d, same
<1>7. CASE ~Found(d, n) /\ Len(d) = MaxEntries
  <2>1. q = Reduction(r.state, r.disposition, r.issues \cup {"limit"})
    BY <1>3, <1>7
  <2>2. /\ q.state = r.state /\ q.disposition = r.disposition /\ q.issues = r.issues \cup {"limit"}
        /\ q \in ReductionSet
    BY <1>1, <2>1 DEF Reduction, ReductionSet, Issues
  <2>3. q.state = [r.state EXCEPT !.drivers = f]
    BY <1>1, <2>2 DEF State
  <2> QED
    BY <1>1, <1>2, <1>7, <2>2, <2>3 DEF Kept, q, d
<1>8. CASE ~Found(d, n) /\ Len(d) # MaxEntries
  <2> DEFINE x == Overlay(blank, p)
             g == InsertAt(d, i, x)
  <2>1. n \notin Numbers(d) /\ Len(d) < MaxEntries /\ DOMAIN Known(d) = Numbers(d)
    BY <1>1, <1>2, <1>8 DEF Known
  <2>2. Over(Known(d), p) = [tla |-> x.tla, racing |-> x.racing]
    BY <2>1 DEF Over, Overlay, Roster!Overlaid
  <2> HIDE DEF x
  <2>x. x \in Entry /\ x.number = n
    BY <1>5 DEF x
  <2>3. /\ g \in Seq(Entry) /\ Len(g) = Len(d) + 1 /\ Sorted(g)
        /\ Rows(g) = Rows(d) \cup {x}
        /\ Numbers(g) = Numbers(d) \cup {x.number}
    BY <1>1, <2>1, <2>x, Inserted DEF i
  <2>4. \A y \in Rows(d) : y.number # x.number
    BY <1>1, <2>1, <2>x, RowIs
  <2>5. q = With(g, "staged")
    BY <1>3, <1>8 DEF x
  <2> HIDE DEF g
  <2>6. Known(g) = [k \in Numbers(d) \cup {n} |->
                      IF k = n THEN Over(Known(d), p) ELSE Known(d)[k]]
    <3>1. \A y : y \in Rows(g) <=> y = x \/ (y \in Rows(d) /\ y.number # x.number)
      BY <2>3, <2>4
    <3>2. Known(g) = [k \in Numbers(d) \cup {x.number} |->
                        IF k = x.number THEN [tla |-> x.tla, racing |-> x.racing] ELSE Known(d)[k]]
      BY <1>1, <2>3, <2>x, <3>1, KnownWith, Zenon
    <3> QED
      BY <2>2, <2>x, <3>2
  <2>7. /\ f = g /\ q \in ReductionSet /\ q.state = [r.state EXCEPT !.drivers = f]
        /\ q.issues = r.issues /\ q.disposition = "staged"
    BY <1>1, <1>4, <2>3, <2>5
  <2> HIDE DEF f
  <2> QED
    BY <1>1, <2>1, <2>3, <2>6, <2>7, <2>x DEF Kept, f, q, d
<1> QED
  BY <1>6, <1>7, <1>8 DEF q, d


\* The drivers not in D that the first k patches name, and those of them there is room for.
New(e, k, D) == { e[j].number : j \in 1 .. k } \ D

Admitted(e, k, D) ==
  { e[j].number : j \in { a \in 1 .. k : /\ e[a].number \notin D
                                         /\ Cardinality(D) + Cardinality(New(e, a - 1, D)) < MaxEntries } }

\* The values: what the patches of the first k say is laid over what was known in s.
Laid(d, d0, e, k) ==
  /\ \A j \in 1 .. k : e[j].number \in Numbers(d) =>
                         Known(d)[e[j].number] = Over(Known(d0), e[j])
  /\ \A n \in Numbers(d0) : (\A j \in 1 .. k : e[j].number # n) => Known(d)[n] = Known(d0)[n]

Changed(d, d0, e, k) ==
  \E j \in 1 .. k : LET n == e[j].number
                    IN  n \in Numbers(d) /\ (n \in Numbers(d0) => Known(d)[n] # Known(d0)[n])

\* The reduction r has staged the first k patches of e on the state s.
Staging(r, s, e, k) ==
  LET d  == r.state.drivers
      d0 == s.drivers
      D  == Numbers(d0)
      size == Len(d0) + Cardinality(New(e, k, D))
  IN  /\ r \in ReductionSet /\ Kept(d) /\ r.state = [s EXCEPT !.drivers = d]
      /\ Numbers(d) = D \cup Admitted(e, k, D)
      /\ IF Len(d) < MaxEntries THEN Len(d) = size ELSE size >= MaxEntries
      /\ Laid(d, d0, e, k)
      /\ r.disposition = "noUpdate" => d = d0
      /\ r.disposition = "staged" => Changed(d, d0, e, k)
      /\ "limit" \in r.issues <=> \E j \in 1 .. k : e[j].number \notin Numbers(d)
      /\ "conflict" \notin r.issues

\* One patch more: who is new and who is admitted.
OneMore(e, k, D) ==
  LET n == e[k].number
      c == Cardinality(New(e, k - 1, D))
  IN  /\ c \in Nat
      /\ n \in D => New(e, k, D) = New(e, k - 1, D)
      /\ n \notin D => Cardinality(New(e, k, D)) = c + 1
      /\ Admitted(e, k, D) =
           Admitted(e, k - 1, D)
             \cup (IF n \notin D /\ Cardinality(D) + c < MaxEntries THEN {n} ELSE {})
      /\ \A j \in 1 .. (k - 1) : e[j].number # n
      /\ Admitted(e, k - 1, D) \subseteq { e[j].number : j \in 1 .. (k - 1) } \ D

LEMMA NewStep ==
  ASSUME NEW e \in Seq(PatchSet), NEW k \in 1 .. Len(e), Once(e), NEW D, IsFiniteSet(D)
  PROVE  OneMore(e, k, D)
<1> DEFINE n == e[k].number
           Old == { e[j].number : j \in 1 .. (k - 1) }
           room == Cardinality(D) + Cardinality(New(e, k - 1, D)) < MaxEntries
<1>1. /\ k \in Nat /\ k - 1 \in Nat /\ Len(e) \in Nat /\ k \in 1 .. Len(e)
      /\ \A j \in 1 .. k : j = k \/ j \in 1 .. (k - 1)
      /\ \A j \in 1 .. (k - 1) : j \in 1 .. k /\ j # k /\ j \in 1 .. Len(e)
      /\ k \in 1 .. k
  OBVIOUS
<1>2. \A j \in 1 .. (k - 1) : e[j].number # n
  BY <1>1 DEF Once
<1>3. { e[j].number : j \in 1 .. k } = Old \cup {n}
  <2> SUFFICES ASSUME NEW x PROVE x \in { e[j].number : j \in 1 .. k } <=> x \in Old \/ x = n
    OBVIOUS
  <2> QED
    BY <1>1
<1>4. New(e, k, D) = (Old \cup {n}) \ D /\ New(e, k - 1, D) = Old \ D
  BY <1>3 DEF New
<1>5. IsFiniteSet(Old)
  <2> DEFINE f == [j \in 1 .. (k - 1) |-> e[j].number]
  <2>1. f \in Surjection(1 .. (k - 1), Old)
    BY DEF Surjection
  <2>2. IsFiniteSet(1 .. (k - 1))
    BY <1>1, FS_Interval
  <2> HIDE DEF f, Old
  <2> QED
    BY <2>1, <2>2, FS_Surjection
<1>6. n \notin Old
  BY <1>2
<1> HIDE DEF Old, room, n
<1>7. IsFiniteSet(Old \ D)
  BY <1>5, FS_Difference
<1>8. Cardinality(D) \in Nat /\ Cardinality(Old \ D) \in Nat
  BY <1>7, FS_CardinalityType
<1>9. n \in D => New(e, k, D) = New(e, k - 1, D)
  BY <1>4
<1>10. ASSUME n \notin D PROVE Cardinality(New(e, k, D)) = Cardinality(New(e, k - 1, D)) + 1
  <2>1. New(e, k, D) = (Old \ D) \cup {n} /\ n \notin Old \ D
    BY <1>4, <1>6, <1>10
  <2> QED
    BY <1>4, <1>7, <2>1, FS_AddElement
<1>11. \A x : x \in Admitted(e, k, D) <=> x \in Admitted(e, k - 1, D) \/ (x = n /\ n \notin D /\ room)
  <2> SUFFICES ASSUME NEW x
               PROVE  x \in Admitted(e, k, D)
                        <=> x \in Admitted(e, k - 1, D) \/ (x = n /\ n \notin D /\ room)
    OBVIOUS
  <2> DEFINE P(j) == /\ e[j].number \notin D
                     /\ Cardinality(D) + Cardinality(New(e, j - 1, D)) < MaxEntries
  <2>1. x \in Admitted(e, k, D) <=> \E j \in 1 .. k : P(j) /\ x = e[j].number
    BY DEF Admitted
  <2>2. x \in Admitted(e, k - 1, D) <=> \E j \in 1 .. (k - 1) : P(j) /\ x = e[j].number
    BY DEF Admitted
  <2>3. P(k) <=> n \notin D /\ room
    BY DEF n, room
  <2> HIDE DEF P
  <2> QED
    BY <1>1, <2>1, <2>2, <2>3 DEF n
<1>12. Admitted(e, k - 1, D) \subseteq Old \ D
  BY DEF Admitted, Old
<1> QED
  BY <1>2, <1>4, <1>8, <1>9, <1>10, <1>11, <1>12 DEF Old, room, n, OneMore


\* One patch more is staged as the invariant says.
LEMMA StageStep ==
  ASSUME NEW s \in State, Kept(s.drivers), NEW e \in Seq(PatchSet), Once(e),
         NEW k \in 1 .. Len(e), NEW r, Staging(r, s, e, k - 1)
  PROVE  Staging(ApplyStagedDriverPatch(r, e[k]), s, e, k)
<1> DEFINE p == e[k]
           n == p.number
           q == ApplyStagedDriverPatch(r, p)
           d == r.state.drivers
           f == q.state.drivers
           d0 == s.drivers
           D == Numbers(d0)
           same == n \in Numbers(d) /\ Over(Known(d), p) = Known(d)[n]
<1>1. /\ p \in PatchSet /\ n \in Nat /\ d0 \in Seq(Entry) /\ Sorted(d0)
      /\ r \in ReductionSet /\ Kept(d) /\ Len(d) \in Nat /\ Len(d) <= MaxEntries
      /\ MaxEntries \in Nat /\ d \in Seq(Entry) /\ Sorted(d) /\ Len(d0) \in Nat
  <2>1. p \in PatchSet
    OBVIOUS
  <2> QED
    BY <2>1, RegistryAssumption DEF Staging, Kept, PatchSet, RegistryAssumption
<1>2. IsFiniteSet(D) /\ Cardinality(D) = Len(d0) /\ DOMAIN Known(d0) = D /\ DOMAIN Known(d) = Numbers(d)
  BY <1>1, KnownSize
<1> DEFINE c == Cardinality(New(e, k - 1, D))
           room == n \notin D /\ Len(d0) + c < MaxEntries
<1>3. /\ c \in Nat
      /\ n \in D => New(e, k, D) = New(e, k - 1, D)
      /\ n \notin D => Cardinality(New(e, k, D)) = c + 1
      /\ Admitted(e, k, D) = Admitted(e, k - 1, D) \cup (IF room THEN {n} ELSE {})
      /\ \A j \in 1 .. (k - 1) : e[j].number # n
      /\ Admitted(e, k - 1, D) \subseteq { e[j].number : j \in 1 .. (k - 1) } \ D
  <2> HIDE DEF D
  <2>1. OneMore(e, k, D)
    BY <1>2, NewStep
  <2> QED
    BY <1>2, <2>1 DEF OneMore
<1>4. /\ k \in Nat /\ k \in 1 .. k
      /\ \A j \in 1 .. k : j = k \/ j \in 1 .. (k - 1)
      /\ \A j \in 1 .. (k - 1) : j \in 1 .. k
  OBVIOUS
<1>5. /\ Numbers(d) = D \cup Admitted(e, k - 1, D)
      /\ IF Len(d) < MaxEntries THEN Len(d) = Len(d0) + c ELSE Len(d0) + c >= MaxEntries
      /\ Laid(d, d0, e, k - 1)
      /\ r.disposition = "noUpdate" => d = d0
      /\ r.disposition = "staged" => Changed(d, d0, e, k - 1)
      /\ "limit" \in r.issues <=> \E j \in 1 .. (k - 1) : e[j].number \notin Numbers(d)
      /\ "conflict" \notin r.issues /\ r.state = [s EXCEPT !.drivers = d]
  BY DEF Staging
<1>6. n \in Numbers(d) <=> n \in D
  BY <1>3, <1>5
<1>7. /\ q \in ReductionSet /\ Kept(f) /\ q.state = [r.state EXCEPT !.drivers = f]
      /\ n \in Numbers(d) \/ Len(d) < MaxEntries =>
           /\ Known(f) = [l \in Numbers(d) \cup {n} |->
                            IF l = n THEN Over(Known(d), p) ELSE Known(d)[l]]
           /\ Numbers(f) = Numbers(d) \cup {n}
           /\ Len(f) = IF n \in Numbers(d) THEN Len(d) ELSE Len(d) + 1
           /\ q.issues = r.issues
           /\ q.disposition = IF same THEN r.disposition ELSE "staged"
           /\ same => f = d
      /\ n \notin Numbers(d) /\ Len(d) = MaxEntries =>
           q.state = r.state /\ q.disposition = r.disposition
           /\ q.issues = r.issues \cup {"limit"}
  BY <1>1, ApplyIs
<1>8. Over(Known(d), p) = Over(Known(d0), p) /\ (n \in D => Known(d)[n] = Known(d0)[n])
  <2>1. n \in D => Known(d)[n] = Known(d0)[n]
    BY <1>3, <1>5 DEF Laid
  <2> QED
    BY <1>2, <1>6, <2>1 DEF Over
<1>9. q.state = [s EXCEPT !.drivers = f]
  BY <1>5, <1>7 DEF State
<1> HIDE DEF q, d, D, c, f
<1>10. CASE n \in Numbers(d) \/ Len(d) < MaxEntries
  <2>1. Numbers(f) = D \cup Admitted(e, k, D)
    BY <1>3, <1>5, <1>6, <1>7, <1>10
  <2>2. LET size == Len(d0) + Cardinality(New(e, k, D))
        IN  IF Len(f) < MaxEntries THEN Len(f) = size ELSE size >= MaxEntries
    BY <1>1, <1>3, <1>5, <1>6, <1>7, <1>10 DEF c
  <2>3. /\ Known(f)[n] = Over(Known(d0), p)
        /\ \A l \in Numbers(d) : l # n => Known(f)[l] = Known(d)[l]
    BY <1>7, <1>8, <1>10
  <2>4. Laid(f, d0, e, k)
    <3>1. ASSUME NEW j \in 1 .. k, e[j].number \in Numbers(f)
          PROVE  Known(f)[e[j].number] = Over(Known(d0), e[j])
      <4>1. CASE j = k
        BY <2>3, <4>1
      <4>2. CASE j \in 1 .. (k - 1)
        <5>1. e[j].number # n /\ e[j].number \in Numbers(d)
          BY <1>3, <1>7, <1>10, <3>1, <4>2
        <5> QED
          BY <1>5, <2>3, <4>2, <5>1 DEF Laid
      <4> QED
        BY <1>4, <4>1, <4>2
    <3>2. ASSUME NEW l \in D, \A j \in 1 .. k : e[j].number # l
          PROVE  Known(f)[l] = Known(d0)[l]
      <4>1. l # n /\ l \in Numbers(d) /\ \A j \in 1 .. (k - 1) : e[j].number # l
        BY <1>4, <1>5, <3>2
      <4> QED
        BY <1>5, <2>3, <4>1 DEF Laid, D
    <3> QED
      BY <3>1, <3>2 DEF Laid, D
  <2>5. q.disposition = "noUpdate" => f = d0
    BY <1>5, <1>7, <1>10
  <2>6. ASSUME q.disposition = "staged" PROVE Changed(f, d0, e, k)
    <3>1. CASE ~same
      <4>1. n \in Numbers(f) /\ (n \in D => Known(f)[n] # Known(d0)[n])
        BY <1>6, <1>7, <1>8, <1>10, <2>3, <3>1
      <4> QED
        BY <1>4, <4>1 DEF Changed, D
    <3>2. CASE same
      <4>1. Changed(d, d0, e, k - 1)
        BY <1>5, <1>7, <1>10, <2>6, <3>2
      <4>2. PICK j \in 1 .. (k - 1) :
              /\ e[j].number \in Numbers(d)
              /\ e[j].number \in D => Known(d)[e[j].number] # Known(d0)[e[j].number]
        BY <4>1 DEF Changed, D
      <4>3. f = d
        BY <1>7, <1>10, <3>2
      <4> QED
        BY <1>4, <4>2, <4>3 DEF Changed, D
    <3> QED
      BY <3>1, <3>2
  <2>7. "limit" \in q.issues <=> \E j \in 1 .. k : e[j].number \notin Numbers(f)
    <3>1. \A j \in 1 .. k : e[j].number \notin Numbers(f)
                              <=> j \in 1 .. (k - 1) /\ e[j].number \notin Numbers(d)
      BY <1>3, <1>4, <1>7, <1>10
    <3> QED
      BY <1>4, <1>5, <1>7, <1>10, <3>1
  <2> QED
    BY <1>5, <1>7, <1>9, <1>10, <2>1, <2>2, <2>4, <2>5, <2>6, <2>7 DEF Staging, D, q, f
<1>11. CASE n \notin Numbers(d) /\ Len(d) = MaxEntries
  <2>1. f = d
    BY <1>7, <1>11 DEF f, d
  <2>2. Numbers(d) = D \cup Admitted(e, k, D)
    BY <1>1, <1>3, <1>5, <1>11
  <2>3. Len(d0) + Cardinality(New(e, k, D)) >= MaxEntries
    BY <1>1, <1>3, <1>5, <1>6, <1>11
  <2>4. Laid(d, d0, e, k)
    BY <1>4, <1>5, <1>11 DEF Laid
  <2>5. Changed(d, d0, e, k - 1) => Changed(d, d0, e, k)
    BY <1>4 DEF Changed
  <2>6. "limit" \in q.issues <=> \E j \in 1 .. k : e[j].number \notin Numbers(d)
    BY <1>4, <1>7, <1>11
  <2> QED
    BY <1>1, <1>5, <1>7, <1>9, <1>11, <2>1, <2>2, <2>3, <2>4, <2>5, <2>6 DEF Staging, D, q, f
<1> QED
  BY <1>1, <1>10, <1>11 DEF q


\* The patches are applied from the first to the last.
LEMMA StageFold ==
  ASSUME NEW r \in ReductionSet, Kept(r.state.drivers), NEW e \in Seq(PatchSet)
  PROVE  \E v : /\ v[0] = r /\ FoldLeft(ApplyStagedDriverPatch, r, e) = v[Len(e)]
                /\ \A k \in 1 .. Len(e) : v[k] = ApplyStagedDriverPatch(v[k - 1], e[k])
<1> DEFINE V == { q \in ReductionSet : Kept(q.state.drivers) }
           Iter(it) == it = [I \in SUBSET (1 .. Len(e)) |->
                               IF I = {} THEN r
                               ELSE ApplyStagedDriverPatch(it[I \ {Max(I)}], e[Max(I)])]
           F == [p \in V \X PatchSet |-> ApplyStagedDriverPatch(p[1], p[2])]
<1>0. r \in V /\ Len(e) \in Nat /\ DOMAIN e = 1 .. Len(e)
  OBVIOUS
<1>1. \E it : Iter(it)
  <2>1. F \in [V \X PatchSet -> V]
    <3>1. ASSUME NEW q \in V, NEW p \in PatchSet PROVE ApplyStagedDriverPatch(q, p) \in V
      BY ApplyIs
    <3> HIDE DEF V
    <3> QED
      BY <3>1
  <2>2. \A q \in V, p \in PatchSet : F[<< q, p >>] = ApplyStagedDriverPatch(q, p)
    OBVIOUS
  <2> HIDE DEF F, Iter, V
  <2>3. PICK g \in [SUBSET (1 .. Len(e)) -> V] :
          \A I \in SUBSET (1 .. Len(e)) :
            g[I] = IF I = {} THEN r ELSE F[<< g[I \ {Max(I)}], e[Max(I)] >>]
    <3>1. Foldable(V, F, r, e)
      BY <1>0, <2>1, FoldExists
    <3> QED
      BY <3>1 DEF Foldable
  <2>4. ASSUME NEW I \in SUBSET (1 .. Len(e)), I # {}
        PROVE  g[I \ {Max(I)}] \in V /\ e[Max(I)] \in PatchSet
    <3>1. Max(I) \in I /\ I \ {Max(I)} \in SUBSET (1 .. Len(e))
      BY <1>0, <2>4, MaxExists
    <3>2. g[I \ {Max(I)}] \in V
      BY <3>1
    <3>3. e[Max(I)] \in PatchSet
      <4>1. Max(I) \in 1 .. Len(e)
        BY <3>1
      <4> QED
        BY <1>0, <4>1
    <3> QED
      BY <3>2, <3>3
  <2>5. \A I \in SUBSET (1 .. Len(e)) :
          g[I] = IF I = {} THEN r ELSE ApplyStagedDriverPatch(g[I \ {Max(I)}], e[Max(I)])
    BY <2>2, <2>3, <2>4
  <2>6. Iter(g)
    BY <2>3, <2>5 DEF Iter
  <2> QED
    BY <2>6
<1> DEFINE it == CHOOSE it : Iter(it)
<1>2. Iter(it)
  BY <1>1
<1>3. FoldLeft(ApplyStagedDriverPatch, r, e) = it[1 .. Len(e)]
  BY <1>0 DEF FoldLeft, MapThenFoldSet
<1> HIDE DEF it
<1> DEFINE v == [k \in 0 .. Len(e) |-> it[1 .. k]]
<1>4. v[0] = r
  <2>1. 1 .. 0 = {} /\ 0 \in 0 .. Len(e) /\ {} \in SUBSET (1 .. Len(e))
    BY <1>0
  <2> QED
    BY <1>2, <2>1
<1>5. ASSUME NEW k \in 1 .. Len(e) PROVE v[k] = ApplyStagedDriverPatch(v[k - 1], e[k])
  <2>1. /\ 1 .. k \in SUBSET (1 .. Len(e)) /\ 1 .. k # {}
        /\ Max(1 .. k) = k /\ (1 .. k) \ {k} = 1 .. (k - 1)
        /\ k \in 0 .. Len(e) /\ k - 1 \in 0 .. Len(e)
    BY <1>0, UpTo
  <2>2. it[1 .. k] = ApplyStagedDriverPatch(it[1 .. (k - 1)], e[k])
    BY <1>2, <2>1
  <2> QED
    BY <2>1, <2>2
<1>6. FoldLeft(ApplyStagedDriverPatch, r, e) = v[Len(e)]
  BY <1>0, <1>3
<1> QED
  BY <1>4, <1>5, <1>6

LEMMA StageIs ==
  ASSUME NEW s \in State, Kept(s.drivers), NEW e \in Seq(PatchSet), Once(e),
         NEW issues \in Issues, "limit" \notin issues, "conflict" \notin issues
  PROVE  LET r == Reduction(s, "noUpdate", issues)
         IN  Staging(FoldLeft(ApplyStagedDriverPatch, r, e), s, e, Len(e))
<1> DEFINE r == Reduction(s, "noUpdate", issues)
<1>1. r \in ReductionSet /\ r.state = s /\ r.issues = issues /\ r.disposition = "noUpdate"
  BY DEF Reduction, ReductionSet
<1> HIDE DEF r
<1>2. PICK v : /\ v[0] = r /\ FoldLeft(ApplyStagedDriverPatch, r, e) = v[Len(e)]
               /\ \A k \in 1 .. Len(e) : v[k] = ApplyStagedDriverPatch(v[k - 1], e[k])
  BY <1>1, StageFold
<1> DEFINE T == { k \in Nat : k <= Len(e) => Staging(v[k], s, e, k) }
<1>3. 0 \in T
  <2>1. 1 .. 0 = {}
    OBVIOUS
  <2>2. New(e, 0, Numbers(s.drivers)) = {} /\ Admitted(e, 0, Numbers(s.drivers)) = {}
    BY <2>1 DEF New, Admitted
  <2>3. Cardinality(New(e, 0, Numbers(s.drivers))) = 0
    BY <2>2, FS_EmptySet, Zenon
  <2>4. s.drivers \in Seq(Entry) /\ Len(s.drivers) \in Nat /\ Len(s.drivers) <= MaxEntries
        /\ MaxEntries \in Nat
    BY RegistryAssumption DEF Kept, RegistryAssumption
  <2>5. Laid(s.drivers, s.drivers, e, 0)
    BY <2>1 DEF Laid
  <2>6. s = [s EXCEPT !.drivers = s.drivers]
    BY DEF State
  <2> DEFINE D == Numbers(s.drivers)
             size == Len(s.drivers) + Cardinality(New(e, 0, D))
  <2>7. D = D \cup Admitted(e, 0, D)
    BY <2>2
  <2>8. IF Len(s.drivers) < MaxEntries THEN Len(s.drivers) = size ELSE size >= MaxEntries
    BY <2>3, <2>4
  <2>9. ~\E j \in 1 .. 0 : e[j].number \notin D
    BY <2>1
  <2> HIDE DEF D, size
  <2>10. Staging(r, s, e, 0)
    BY <1>1, <2>5, <2>6, <2>7, <2>8, <2>9 DEF Staging, D, size
  <2> QED
    BY <1>2, <2>10
<1>4. ASSUME NEW k \in Nat, k \in T PROVE k + 1 \in T
  <2> SUFFICES ASSUME k + 1 <= Len(e) PROVE Staging(v[k + 1], s, e, k + 1)
    OBVIOUS
  <2>1. k + 1 \in 1 .. Len(e) /\ (k + 1) - 1 = k
    OBVIOUS
  <2>2. Staging(v[k], s, e, (k + 1) - 1)
    BY <1>4, <2>1
  <2>3. Staging(ApplyStagedDriverPatch(v[k], e[k + 1]), s, e, k + 1)
    BY <2>1, <2>2, StageStep
  <2> QED
    BY <1>2, <2>1, <2>3
<1>5. Len(e) \in T /\ Len(e) \in Nat
  <2>1. \A k \in Nat : k \in T
    <3> HIDE DEF T
    <3> QED
      BY <1>3, <1>4, Induction
  <2> QED
    BY <2>1
<1> QED
  BY <1>2, <1>5 DEF r


-----------------------------------------------------------------------------
(* Freezing.                                                               *)

Blessed(p) == [number |-> p.number, tla |-> p.tla, racing |-> "own"]

LEMMA InsertIs ==
  ASSUME NEW d \in Seq(Entry), NEW p \in PatchSet
  PROVE  /\ Insert(d, p) \in Seq(Entry)
         /\ Sorted(d) /\ p.number \notin Numbers(d) =>
              /\ Len(Insert(d, p)) = Len(d) + 1 /\ Sorted(Insert(d, p))
              /\ Rows(Insert(d, p)) = Rows(d) \cup {Blessed(p)}
              /\ Numbers(Insert(d, p)) = Numbers(d) \cup {p.number}
<1> DEFINE x == Blessed(p)
           i == Index(d, p.number)
<1>1. x \in Entry /\ x.number = p.number
  BY DEF Blessed, Entry, PatchSet, Field
<1>2. i \in 1 .. (Len(d) + 1)
  <2> DEFINE I == { j \in 1 .. Len(d) : d[j].number >= p.number }
  <2>1. Len(d) \in Nat /\ I \in SUBSET Nat /\ I \in SUBSET (1 .. Len(d))
    BY RowType
  <2>2. i = IF I # {} THEN IF Min(I) = 0 THEN Len(d) + 1 ELSE Min(I) ELSE Len(d) + 1
    BY <2>1 DEF Index, SelectInSeq
  <2>3. I # {} => Min(I) \in I
    <3> HIDE DEF I
    <3> QED
      BY <2>1, MinIsLeast
  <2> QED
    BY <2>1, <2>2, <2>3
<1>3. Insert(d, p) = InsertAt(d, i, x)
  BY DEF Insert, Blessed
<1>4. InsertAt(d, i, x) \in Seq(Entry)
  BY <1>1, <1>2, InsertAtIs
<1> HIDE DEF x
<1>5. ASSUME Sorted(d), p.number \notin Numbers(d)
      PROVE  LET f == InsertAt(d, i, x)
             IN  /\ Len(f) = Len(d) + 1 /\ Sorted(f) /\ Rows(f) = Rows(d) \cup {x}
                 /\ Numbers(f) = Numbers(d) \cup {p.number}
  <2>1. i = Index(d, x.number) /\ x.number \notin Numbers(d)
    BY <1>1, <1>5
  <2> QED
    BY <1>1, <1>5, <2>1, Inserted
<1> QED
  BY <1>3, <1>4, <1>5 DEF x

\* The first k patches of e are frozen.
Freezing(d, e, k) ==
  /\ d \in Seq(Entry) /\ Sorted(d) /\ Len(d) = k
  /\ Rows(d) = { Blessed(e[j]) : j \in 1 .. k }
  /\ Numbers(d) = { e[j].number : j \in 1 .. k }

LEMMA FreezeStep ==
  ASSUME NEW e \in Seq(PatchSet), Once(e), NEW k \in 1 .. Len(e), NEW d, Freezing(d, e, k - 1)
  PROVE  Freezing(Insert(d, e[k]), e, k)
<1>1. /\ e[k] \in PatchSet /\ k \in 1 .. k /\ k \in Nat /\ (k - 1) + 1 = k
      /\ \A j \in 1 .. k : j = k \/ j \in 1 .. (k - 1)
      /\ \A j \in 1 .. (k - 1) : j \in 1 .. k /\ j # k /\ j \in 1 .. Len(e)
  OBVIOUS
<1>2. \A j \in 1 .. (k - 1) : e[j].number # e[k].number
  BY <1>1 DEF Once
<1>3. e[k].number \notin Numbers(d) /\ d \in Seq(Entry) /\ Sorted(d) /\ Len(d) = k - 1
  BY <1>2 DEF Freezing
<1>4. /\ Insert(d, e[k]) \in Seq(Entry) /\ Len(Insert(d, e[k])) = k /\ Sorted(Insert(d, e[k]))
      /\ Rows(Insert(d, e[k])) = Rows(d) \cup {Blessed(e[k])}
      /\ Numbers(Insert(d, e[k])) = Numbers(d) \cup {e[k].number}
  BY <1>1, <1>3, InsertIs
<1>5. { Blessed(e[j]) : j \in 1 .. k } = { Blessed(e[j]) : j \in 1 .. (k - 1) } \cup {Blessed(e[k])}
  <2> SUFFICES ASSUME NEW x
               PROVE  x \in { Blessed(e[j]) : j \in 1 .. k }
                        <=> x \in { Blessed(e[j]) : j \in 1 .. (k - 1) } \/ x = Blessed(e[k])
    OBVIOUS
  <2> QED
    BY <1>1
<1>6. { e[j].number : j \in 1 .. k } = { e[j].number : j \in 1 .. (k - 1) } \cup {e[k].number}
  <2> SUFFICES ASSUME NEW x
               PROVE  x \in { e[j].number : j \in 1 .. k }
                        <=> x \in { e[j].number : j \in 1 .. (k - 1) } \/ x = e[k].number
    OBVIOUS
  <2> QED
    BY <1>1
<1> QED
  BY <1>4, <1>5, <1>6 DEF Freezing

\* The patches are inserted from the first to the last.
LEMMA FreezeFold ==
  ASSUME NEW e \in Seq(PatchSet)
  PROVE  \E v : /\ v[0] = << >> /\ FoldLeft(Insert, << >>, e) = v[Len(e)]
                /\ \A k \in 1 .. Len(e) : v[k] = Insert(v[k - 1], e[k])
<1> DEFINE V == Seq(Entry)
           Iter(it) == it = [I \in SUBSET (1 .. Len(e)) |->
                               IF I = {} THEN << >> ELSE Insert(it[I \ {Max(I)}], e[Max(I)])]
           F == [p \in V \X PatchSet |-> Insert(p[1], p[2])]
<1>0. << >> \in V /\ Len(e) \in Nat /\ DOMAIN e = 1 .. Len(e)
  OBVIOUS
<1>1. \E it : Iter(it)
  <2>1. F \in [V \X PatchSet -> V]
    <3>1. ASSUME NEW q \in V, NEW p \in PatchSet PROVE Insert(q, p) \in V
      BY InsertIs
    <3> HIDE DEF V
    <3> QED
      BY <3>1
  <2>2. \A q \in V, p \in PatchSet : F[<< q, p >>] = Insert(q, p)
    OBVIOUS
  <2> HIDE DEF F, Iter, V
  <2>3. PICK g \in [SUBSET (1 .. Len(e)) -> V] :
          \A I \in SUBSET (1 .. Len(e)) :
            g[I] = IF I = {} THEN << >> ELSE F[<< g[I \ {Max(I)}], e[Max(I)] >>]
    <3>1. Foldable(V, F, << >>, e)
      BY <1>0, <2>1, FoldExists
    <3> QED
      BY <3>1 DEF Foldable
  <2>4. ASSUME NEW I \in SUBSET (1 .. Len(e)), I # {}
        PROVE  g[I \ {Max(I)}] \in V /\ e[Max(I)] \in PatchSet
    <3>1. Max(I) \in I /\ I \ {Max(I)} \in SUBSET (1 .. Len(e))
      BY <1>0, <2>4, MaxExists
    <3>2. g[I \ {Max(I)}] \in V
      BY <3>1
    <3>3. e[Max(I)] \in PatchSet
      <4>1. Max(I) \in 1 .. Len(e)
        BY <3>1
      <4> QED
        BY <1>0, <4>1
    <3> QED
      BY <3>2, <3>3
  <2>5. \A I \in SUBSET (1 .. Len(e)) :
          g[I] = IF I = {} THEN << >> ELSE Insert(g[I \ {Max(I)}], e[Max(I)])
    BY <2>2, <2>3, <2>4
  <2>6. Iter(g)
    BY <2>3, <2>5 DEF Iter
  <2> QED
    BY <2>6
<1> DEFINE it == CHOOSE it : Iter(it)
<1>2. Iter(it)
  BY <1>1
<1>3. FoldLeft(Insert, << >>, e) = it[1 .. Len(e)]
  BY <1>0 DEF FoldLeft, MapThenFoldSet
<1> HIDE DEF it
<1> DEFINE v == [k \in 0 .. Len(e) |-> it[1 .. k]]
<1>4. v[0] = << >>
  <2>1. 1 .. 0 = {} /\ 0 \in 0 .. Len(e) /\ {} \in SUBSET (1 .. Len(e))
    BY <1>0
  <2> QED
    BY <1>2, <2>1
<1>5. ASSUME NEW k \in 1 .. Len(e) PROVE v[k] = Insert(v[k - 1], e[k])
  <2>1. /\ 1 .. k \in SUBSET (1 .. Len(e)) /\ 1 .. k # {}
        /\ Max(1 .. k) = k /\ (1 .. k) \ {k} = 1 .. (k - 1)
        /\ k \in 0 .. Len(e) /\ k - 1 \in 0 .. Len(e)
    BY <1>0, UpTo
  <2>2. it[1 .. k] = Insert(it[1 .. (k - 1)], e[k])
    BY <1>2, <2>1
  <2> QED
    BY <2>1, <2>2
<1>6. FoldLeft(Insert, << >>, e) = v[Len(e)]
  BY <1>0, <1>3
<1> QED
  BY <1>4, <1>5, <1>6

LEMMA FreezeIs ==
  ASSUME NEW e \in Seq(PatchSet), Once(e)
  PROVE  Freezing(FoldLeft(Insert, << >>, e), e, Len(e))
<1>1. PICK v : /\ v[0] = << >> /\ FoldLeft(Insert, << >>, e) = v[Len(e)]
               /\ \A k \in 1 .. Len(e) : v[k] = Insert(v[k - 1], e[k])
  BY FreezeFold
<1> DEFINE T == { k \in Nat : k <= Len(e) => Freezing(v[k], e, k) }
<1>2. 0 \in T
  <2>1. 1 .. 0 = {} /\ Len(<< >>) = 0 /\ << >> \in Seq(Entry)
    OBVIOUS
  <2>2. Freezing(<< >>, e, 0)
    BY <2>1 DEF Freezing, Sorted, Rows, Numbers
  <2> QED
    BY <1>1, <2>2
<1>3. ASSUME NEW k \in Nat, k \in T PROVE k + 1 \in T
  <2> SUFFICES ASSUME k + 1 <= Len(e) PROVE Freezing(v[k + 1], e, k + 1)
    OBVIOUS
  <2>1. k + 1 \in 1 .. Len(e) /\ (k + 1) - 1 = k
    OBVIOUS
  <2>2. Freezing(v[k], e, (k + 1) - 1)
    BY <1>3, <2>1
  <2>3. Freezing(Insert(v[k], e[k + 1]), e, k + 1)
    BY <2>1, <2>2, FreezeStep
  <2> QED
    BY <1>1, <2>1, <2>3
<1>4. Len(e) \in T /\ Len(e) \in Nat
  <2>1. \A k \in Nat : k \in T
    <3> HIDE DEF T
    <3> QED
      BY <1>2, <1>3, Induction
  <2> QED
    BY <2>1
<1> QED
  BY <1>1, <1>4


-----------------------------------------------------------------------------
(* The array as the roster sees it.                                        *)

LEMMA ViewIs ==
  ASSUME NEW s \in State
  PROVE  View(s) = [entries |-> Known(s.drivers), frozen |-> s.frozen, synchronized |-> s.synchronized]
<1>1. DOMAIN s.drivers = 1 .. Len(s.drivers)
  <2>1. s.drivers \in Seq(Entry)
    BY DEF State
  <2> QED
    BY <2>1
<1> QED
  BY <1>1 DEF View, Known, Numbers, Row

\* Two sorted arrays of the same numbers have them at the same places.
LEMMA SamePlaces ==
  ASSUME NEW d \in Seq(Entry), Sorted(d), NEW f \in Seq(Entry), Sorted(f), Numbers(d) = Numbers(f)
  PROVE  Len(d) = Len(f) /\ \A i \in 1 .. Len(d) : d[i].number = f[i].number
<1>1. Len(d) = Len(f)
  <2>1. Cardinality(Numbers(d)) = Len(d) /\ Cardinality(Numbers(f)) = Len(f)
    BY KnownSize
  <2> QED
    BY <2>1
<1>2. \A i \in 1 .. Len(d) : /\ i \in Nat /\ d[i].number \in Nat /\ f[i].number \in Nat
                             /\ \E j \in 1 .. Len(d) : f[j].number = d[i].number
                             /\ \E j \in 1 .. Len(d) : d[j].number = f[i].number
  <2> SUFFICES ASSUME NEW i \in 1 .. Len(d)
               PROVE  /\ i \in Nat /\ d[i].number \in Nat /\ f[i].number \in Nat
                      /\ \E j \in 1 .. Len(d) : f[j].number = d[i].number
                      /\ \E j \in 1 .. Len(d) : d[j].number = f[i].number
    OBVIOUS
  <2>1. d[i].number \in Numbers(f) /\ f[i].number \in Numbers(d)
    BY <1>1 DEF Numbers
  <2> QED
    BY <1>1, <2>1, RowType DEF Numbers
<1> DEFINE U == { i \in 1 .. Len(d) : d[i].number # f[i].number }
<1> SUFFICES ASSUME U # {} PROVE FALSE
  BY <1>1
<1>3. U \in SUBSET Nat
  BY <1>2
<1>4. PICK i \in U : \A j \in U : i <= j
  <2> HIDE DEF U
  <2> QED
    BY <1>3, LeastExists
<1>5. i \in 1 .. Len(d) /\ d[i].number # f[i].number
      /\ \A j \in 1 .. Len(d) : j < i => d[j].number = f[j].number
  BY <1>2, <1>4
<1> HIDE DEF U
<1>6. i \in Nat /\ d[i].number \in Nat /\ f[i].number \in Nat
  BY <1>2, <1>5
<1>7. f[i].number < d[i].number
  <2>1. PICK j \in 1 .. Len(d) : f[j].number = d[i].number
    BY <1>2, <1>5
  <2>2. j \in Nat /\ d[j].number \in Nat
    BY <1>2
  <2>3. j < i => d[j].number < d[i].number
    BY <1>5 DEF Sorted
  <2>4. i < j => f[i].number < f[j].number
    BY <1>1, <1>5 DEF Sorted
  <2>5. j < i => d[j].number = f[j].number
    BY <1>5
  <2>6. j # i
    BY <1>5, <2>1
  <2> QED
    BY <1>6, <2>1, <2>2, <2>3, <2>4, <2>5, <2>6
<1>8. d[i].number < f[i].number
  <2>1. PICK j \in 1 .. Len(d) : d[j].number = f[i].number
    BY <1>2, <1>5
  <2>2. j \in Nat /\ f[j].number \in Nat
    BY <1>2
  <2>3. j < i => f[j].number < f[i].number
    BY <1>1, <1>5 DEF Sorted
  <2>4. i < j => d[i].number < d[j].number
    BY <1>5 DEF Sorted
  <2>5. j < i => d[j].number = f[j].number
    BY <1>5
  <2>6. j # i
    BY <1>5, <2>1
  <2> QED
    BY <1>6, <2>1, <2>2, <2>3, <2>4, <2>5, <2>6
<1> QED
  BY <1>6, <1>7, <1>8

\* The names of the drivers.
NamesOf(d) == [n \in Numbers(d) |-> Row(d, n).tla]

LEMMA SameIs ==
  ASSUME NEW s \in State, Sorted(s.drivers), NEW t \in State, Sorted(t.drivers)
  PROVE  Same(s, t) <=> NamesOf(s.drivers) = NamesOf(t.drivers)
<1> DEFINE d == s.drivers
           f == t.drivers
<1>1. d \in Seq(Entry) /\ f \in Seq(Entry) /\ DOMAIN d = 1 .. Len(d)
  <2>1. d \in Seq(Entry) /\ f \in Seq(Entry)
    BY DEF State
  <2> QED
    BY <2>1
<1>2. Same(s, t) <=> /\ Len(d) = Len(f)
                     /\ \A i \in 1 .. Len(d) : d[i].number = f[i].number /\ d[i].tla = f[i].tla
  BY <1>1 DEF Same
<1>3. \A i \in 1 .. Len(d) : Row(d, d[i].number) = d[i]
  BY <1>1, RowIs
<1>4. \A i \in 1 .. Len(f) : Row(f, f[i].number) = f[i]
  BY <1>1, RowIs
<1> HIDE DEF d, f
<1>5. ASSUME Len(d) = Len(f),
             \A i \in 1 .. Len(d) : d[i].number = f[i].number /\ d[i].tla = f[i].tla
      PROVE  NamesOf(d) = NamesOf(f)
  <2>1. Numbers(d) = Numbers(f)
    BY <1>5 DEF Numbers
  <2>2. ASSUME NEW n \in Numbers(d) PROVE Row(d, n).tla = Row(f, n).tla
    <3>1. PICK i \in 1 .. Len(d) : d[i].number = n
      BY DEF Numbers
    <3>2. Row(d, n) = d[i] /\ Row(f, n) = f[i]
      BY <1>3, <1>4, <1>5, <3>1
    <3> QED
      BY <1>5, <3>2
  <2> QED
    BY <2>1, <2>2 DEF NamesOf
<1>6. ASSUME NamesOf(d) = NamesOf(f)
      PROVE  /\ Len(d) = Len(f)
             /\ \A i \in 1 .. Len(d) : d[i].number = f[i].number /\ d[i].tla = f[i].tla
  <2>1. Numbers(d) = Numbers(f)
    <3>1. DOMAIN NamesOf(d) = Numbers(d) /\ DOMAIN NamesOf(f) = Numbers(f)
      BY DEF NamesOf
    <3> QED
      BY <1>6, <3>1
  <2>2. \A n \in Numbers(d) : Row(d, n).tla = Row(f, n).tla
    <3>1. \A n \in Numbers(d) : NamesOf(d)[n] = Row(d, n).tla
      BY DEF NamesOf
    <3>2. \A n \in Numbers(d) : NamesOf(f)[n] = Row(f, n).tla
      BY <2>1 DEF NamesOf
    <3> QED
      BY <1>6, <3>1, <3>2
  <2>3. Len(d) = Len(f) /\ \A i \in 1 .. Len(d) : d[i].number = f[i].number
    BY <1>1, <2>1, SamePlaces DEF d, f
  <2>4. \A i \in 1 .. Len(d) : d[i].number \in Numbers(d)
    BY DEF Numbers
  <2> QED
    BY <1>3, <1>4, <2>2, <2>3, <2>4
<1> QED
  BY <1>2, <1>5, <1>6 DEF d, f


-----------------------------------------------------------------------------
(* What the array does to the payload of a roster.                         *)

\* The parse of an object that does not mention too many.
Heard(payload, e) ==
  /\ payload \in Payloads /\ payload.object /\ ~Roster!TooMany(payload)
  /\ e = ParseDriverList(payload).entries

LEMMA HeardIs ==
  ASSUME NEW payload, NEW e, Heard(payload, e)
  PROVE  /\ e \in Seq(PatchSet) /\ Once(e) /\ Len(e) \in Nat /\ Len(e) <= MaxEntries
         /\ DOMAIN e = 1 .. Len(e)
         /\ Roster!Mentioned(payload) = Numbers(e)
         /\ \A i \in 1 .. Len(e) :
              /\ e[i] \in PatchSet /\ e[i].number \in Numbers(e)
              /\ Roster!Said(payload, e[i].number).whole <=> e[i].object /\ ~e[i].duplicate
              /\ Roster!Said(payload, e[i].number).tla = e[i].tla
              /\ Roster!Said(payload, e[i].number).racing = e[i].racing
         /\ \A i, j \in 1 .. Len(e) : Roster!Earlier(payload, e[i].number, e[j].number) <=> i < j
<1>1. payload \in Payloads /\ payload.object /\ ~Roster!TooMany(payload)
      /\ e = ParseDriverList(payload).entries
  BY DEF Heard
<1>2. ParseInv(ParseDriverList(payload), payload.members, Len(payload.members))
  BY <1>1, ParseIs
<1>3. e \in Seq(PatchSet) /\ Once(e) /\ Len(e) <= MaxEntries
  BY <1>1, <1>2 DEF ParseInv, Counted, Parsed, Once
<1>4. Roster!Mentioned(payload) = Numbers(e)
  BY <1>1, LimitIs
<1>5. ASSUME NEW i \in 1 .. Len(e)
      PROVE  /\ e[i] \in PatchSet /\ e[i].number \in Numbers(e)
             /\ Roster!Said(payload, e[i].number).whole <=> e[i].object /\ ~e[i].duplicate
             /\ Roster!Said(payload, e[i].number).tla = e[i].tla
             /\ Roster!Said(payload, e[i].number).racing = e[i].racing
  <2>1. Roster!Said(payload, e[i].number) =
          [whole |-> e[i].object /\ ~e[i].duplicate, tla |-> e[i].tla, racing |-> e[i].racing]
    BY <1>1, SaidIs
  <2>2. e[i] \in PatchSet /\ e[i].number \in Numbers(e)
    BY <1>3 DEF Numbers
  <2>3. Roster!Said(payload, e[i].number).whole = (e[i].object /\ ~e[i].duplicate)
    BY <2>1
  <2>4. /\ Roster!Said(payload, e[i].number).tla = e[i].tla
        /\ Roster!Said(payload, e[i].number).racing = e[i].racing
    BY <2>1
  <2> QED
    BY <2>2, <2>3, <2>4, Zenon
<1>6. \A i, j \in 1 .. Len(e) : Roster!Earlier(payload, e[i].number, e[j].number) <=> i < j
  BY <1>1, EarlierIs
<1>7. DOMAIN e = 1 .. Len(e) /\ Len(e) \in Nat
  BY <1>3
<1> QED
  BY <1>3, <1>4, <1>5, <1>6, <1>7

LEMMA AdmittedIs ==
  ASSUME NEW payload, NEW e, Heard(payload, e), NEW g
  PROVE  Roster!Admitted(g, payload) = Admitted(e, Len(e), DOMAIN g)
<1> DEFINE D == DOMAIN g
           M == Roster!Mentioned(payload)
           Before(n) == { m \in M \ D : Roster!Earlier(payload, m, n) }
           room(n) == Cardinality(D) + Cardinality(Before(n)) < MaxEntries
<1>1. /\ M = Numbers(e) /\ Len(e) \in Nat
      /\ \A i, j \in 1 .. Len(e) : Roster!Earlier(payload, e[i].number, e[j].number) <=> i < j
  BY HeardIs
<1>2. Roster!Admitted(g, payload) = { n \in M \ D : room(n) }
  BY SameCardinality, Zenon DEF Roster!Admitted
<1> HIDE DEF M, D
<1>3. ASSUME NEW j \in 1 .. Len(e) PROVE Before(e[j].number) = New(e, j - 1, D)
  <2> SUFFICES ASSUME NEW m PROVE m \in Before(e[j].number) <=> m \in New(e, j - 1, D)
    OBVIOUS
  <2>1. \A i \in 1 .. Len(e) : i < j <=> i \in 1 .. (j - 1)
    BY <1>1
  <2>2. 1 .. (j - 1) \in SUBSET (1 .. Len(e))
    BY <1>1
  <2>3. ASSUME m \in Before(e[j].number) PROVE m \in New(e, j - 1, D)
    <3>1. PICK i \in 1 .. Len(e) : e[i].number = m
      BY <1>1, <2>3 DEF Numbers
    <3>2. m \notin D /\ i \in 1 .. (j - 1)
      BY <1>1, <2>1, <2>3, <3>1
    <3> QED
      BY <3>1, <3>2 DEF New
  <2>4. ASSUME m \in New(e, j - 1, D) PROVE m \in Before(e[j].number)
    <3>1. PICK i \in 1 .. (j - 1) : e[i].number = m
      BY <2>4 DEF New
    <3>2. m \notin D /\ i \in 1 .. Len(e) /\ i < j
      BY <2>1, <2>2, <2>4, <3>1 DEF New
    <3>3. m \in M /\ Roster!Earlier(payload, m, e[j].number)
      BY <1>1, <3>1, <3>2 DEF Numbers
    <3> QED
      BY <3>2, <3>3
  <2> QED
    BY <2>3, <2>4
<1>4. ASSUME NEW j \in 1 .. Len(e)
      PROVE  room(e[j].number) <=> Cardinality(D) + Cardinality(New(e, j - 1, D)) < MaxEntries
  BY <1>3
<1> HIDE DEF room
<1>5. ASSUME NEW n
      PROVE  n \in { x \in M \ D : room(x) } <=> n \in Admitted(e, Len(e), D)
  <2>1. n \in { x \in M \ D : room(x) }
          <=> \E j \in 1 .. Len(e) : n = e[j].number /\ e[j].number \notin D /\ room(e[j].number)
    BY <1>1 DEF Numbers
  <2>2. n \in Admitted(e, Len(e), D)
          <=> \E j \in 1 .. Len(e) : n = e[j].number /\ e[j].number \notin D /\ room(e[j].number)
    BY <1>4 DEF Admitted
  <2> QED
    BY <2>1, <2>2
<1> QED
  BY <1>2, <1>5 DEF D

\* A feed before the freeze.
LEMMA StagedIs ==
  ASSUME NEW payload, NEW e, Heard(payload, e), NEW s \in State, Kept(s.drivers),
         NEW r, Staging(r, s, e, Len(e))
  PROVE  LET g == Known(s.drivers)
         IN  /\ Known(r.state.drivers) = Roster!Staged(g, payload)
             /\ "limit" \in r.issues
                  <=> Roster!Mentioned(payload) \ DOMAIN g # Roster!Admitted(g, payload)
             /\ r.disposition = "noUpdate" => r.state = s
             /\ r.disposition = "staged" => Known(r.state.drivers) # g
             /\ "conflict" \notin r.issues
<1> DEFINE d == r.state.drivers
           d0 == s.drivers
           g == Known(d0)
           D == Numbers(d0)
           A == Admitted(e, Len(e), D)
<1>1. /\ r \in ReductionSet /\ Kept(d) /\ r.state = [s EXCEPT !.drivers = d]
      /\ Numbers(d) = D \cup A
      /\ Laid(d, d0, e, Len(e))
      /\ r.disposition = "noUpdate" => d = d0
      /\ r.disposition = "staged" => Changed(d, d0, e, Len(e))
      /\ "limit" \in r.issues <=> \E j \in 1 .. Len(e) : e[j].number \notin Numbers(d)
      /\ "conflict" \notin r.issues
  BY DEF Staging
<1>2. DOMAIN g = D /\ DOMAIN Known(d) = Numbers(d)
  BY DEF Known
<1>3. Roster!Admitted(g, payload) = A
  BY <1>2, AdmittedIs
<1>4. /\ Roster!Mentioned(payload) = Numbers(e)
      /\ \A i \in 1 .. Len(e) :
           /\ e[i].number \in Numbers(e)
           /\ Roster!Said(payload, e[i].number).tla = e[i].tla
           /\ Roster!Said(payload, e[i].number).racing = e[i].racing
  BY HeardIs
<1> HIDE DEF d, d0, g, D, A
<1>5. ASSUME NEW n \in D \cup A
      PROVE  Known(d)[n] = Roster!Staged(g, payload)[n]
  <2> DEFINE old == IF n \in DOMAIN g THEN g[n] ELSE [tla |-> Absent, racing |-> Absent]
             new == Roster!Said(payload, n)
  <2>1. Roster!Staged(g, payload)[n] =
          IF n \notin Roster!Mentioned(payload) THEN old
          ELSE [tla |-> Roster!Overlaid(old.tla, new.tla),
                racing |-> Roster!Overlaid(old.racing, new.racing)]
    BY <1>2, <1>3 DEF Roster!Staged
  <2>2. CASE n \in Numbers(e)
    <3>1. PICK j \in 1 .. Len(e) : e[j].number = n
      BY <2>2 DEF Numbers
    <3>2. Known(d)[n] = Over(g, e[j])
      BY <1>1, <3>1 DEF Laid, g, d0
    <3>3. Over(g, e[j]) = [tla |-> Roster!Overlaid(old.tla, e[j].tla),
                           racing |-> Roster!Overlaid(old.racing, e[j].racing)]
      BY <3>1 DEF Over
    <3>4. new.tla = e[j].tla /\ new.racing = e[j].racing
      BY <1>4, <3>1
    <3> HIDE DEF old, new
    <3> QED
      BY <1>4, <2>1, <2>2, <3>2, <3>3, <3>4
  <2>3. CASE n \notin Numbers(e)
    <3>1. \A j \in 1 .. Len(e) : e[j].number # n
      BY <2>3 DEF Numbers
    <3>2. n \in D
      BY <3>1 DEF A, Admitted
    <3>3. Known(d)[n] = g[n]
      BY <1>1, <3>1, <3>2 DEF Laid, D, d0, g
    <3> QED
      BY <1>2, <1>4, <2>1, <2>3, <3>2, <3>3
  <2> QED
    BY <2>2, <2>3
<1>6. Known(d) = Roster!Staged(g, payload)
  <2>1. Known(d) = [n \in D \cup A |-> Known(d)[n]]
    BY <1>1 DEF Known
  <2>2. Roster!Staged(g, payload) = [n \in D \cup A |-> Roster!Staged(g, payload)[n]]
    BY <1>2, <1>3 DEF Roster!Staged
  <2> HIDE DEF Known, Roster!Staged
  <2> QED
    BY <1>5, <2>1, <2>2
<1>7. (\E j \in 1 .. Len(e) : e[j].number \notin Numbers(d)) <=> Numbers(e) \ D # A
  <2>1. A \subseteq Numbers(e) \ D
    BY DEF A, Admitted, Numbers
  <2>2. Numbers(e) = { e[j].number : j \in 1 .. Len(e) }
    BY DEF Numbers
  <2> QED
    BY <1>1, <2>1, <2>2
<1>8. Changed(d, d0, e, Len(e)) => Known(d) # g
  <2> SUFFICES ASSUME Changed(d, d0, e, Len(e)), Known(d) = g PROVE FALSE
    OBVIOUS
  <2>1. PICK j \in 1 .. Len(e) : LET n == e[j].number
                                 IN  n \in Numbers(d) /\ (n \in Numbers(d0) => Known(d)[n] # Known(d0)[n])
    BY DEF Changed
  <2>2. Numbers(d) = D
    BY <1>2
  <2> QED
    BY <2>1, <2>2 DEF D, g
<1>9. r.disposition = "noUpdate" => r.state = s
  <2>1. [s EXCEPT !.drivers = d0] = s
    BY DEF d0, State
  <2> QED
    BY <1>1, <2>1
<1> QED
  BY <1>1, <1>2, <1>3, <1>4, <1>6, <1>7, <1>8, <1>9 DEF d, d0, g


\* A feed after the freeze: the array disagrees with what contradicts the roster.
LEMMA ConflictIs ==
  ASSUME NEW payload \in Payloads, payload.object, NEW d \in Seq(Entry), Sorted(d)
  PROVE  LET p == ParseDriverList(payload)
         IN  ("limit" \in p.issues \/ \E i \in DOMAIN p.entries : Disagrees(d, p.entries[i]))
               <=> Roster!Contradicts(Known(d), payload)
<1> DEFINE p == ParseDriverList(payload)
           e == p.entries
           g == Known(d)
<1>1. "limit" \in p.issues <=> Roster!TooMany(payload)
  BY LimitIs
<1>2. CASE Roster!TooMany(payload)
  BY <1>1, <1>2 DEF Roster!Contradicts
<1>3. CASE ~Roster!TooMany(payload)
  <2>1. Heard(payload, e)
    BY <1>3 DEF Heard
  <2> HIDE DEF e, g
  <2>2. /\ DOMAIN e = 1 .. Len(e) /\ Roster!Mentioned(payload) = Numbers(e)
        /\ \A i \in 1 .. Len(e) :
             /\ e[i] \in PatchSet /\ e[i].number \in Numbers(e)
             /\ Roster!Said(payload, e[i].number).whole <=> e[i].object /\ ~e[i].duplicate
             /\ Roster!Said(payload, e[i].number).tla = e[i].tla
             /\ Roster!Said(payload, e[i].number).racing = e[i].racing
    BY <2>1, HeardIs
  <2> DEFINE Contrary(n) ==
               LET s == Roster!Said(payload, n)
               IN  \/ n \notin DOMAIN g \/ ~s.whole \/ s.racing = Bad
                   \/ s.tla # Absent /\ s.tla # g[n].tla
  <2>3. ASSUME NEW i \in 1 .. Len(e) PROVE Disagrees(d, e[i]) <=> Contrary(e[i].number)
    <3> DEFINE n == e[i].number
               x == d[Index(d, n)]
    <3>1. n \in Nat
      BY <2>2 DEF PatchSet
    <3>2. /\ Found(d, n) <=> n \in Numbers(d)
          /\ Found(d, n) => Index(d, n) \in 1 .. Len(d) /\ x.number = n
      BY <3>1, IndexIs
    <3>3. DOMAIN g = Numbers(d) /\ (Found(d, n) => g[n].tla = x.tla)
      <4>1. Found(d, n) => Row(d, n) = x
        BY <3>2, RowIs
      <4> QED
        BY <3>2, <4>1 DEF Known, g
    <3>4. Disagrees(d, e[i]) <=> \/ ~Found(d, n) \/ ~e[i].object \/ e[i].duplicate
                                 \/ e[i].tla # Absent /\ e[i].tla # x.tla
                                 \/ e[i].racing = Bad
      BY Zenon DEF Disagrees
    <3>5. Contrary(n) <=> \/ n \notin DOMAIN g \/ ~Roster!Said(payload, n).whole
                          \/ Roster!Said(payload, n).racing = Bad
                          \/ /\ Roster!Said(payload, n).tla # Absent
                             /\ Roster!Said(payload, n).tla # g[n].tla
      BY Zenon
    <3>6. /\ Roster!Said(payload, n).whole <=> e[i].object /\ ~e[i].duplicate
          /\ Roster!Said(payload, n).tla = e[i].tla
          /\ Roster!Said(payload, n).racing = e[i].racing
      BY <2>2, Zenon
    <3> HIDE DEF Contrary, x, n
    <3>7. Contrary(n) <=> \/ n \notin Numbers(d) \/ ~(e[i].object /\ ~e[i].duplicate)
                          \/ e[i].racing = Bad
                          \/ e[i].tla # Absent /\ e[i].tla # g[n].tla
      BY <3>3, <3>5, <3>6, Zenon
    <3>8. Contrary(n) <=> \/ ~Found(d, n) \/ ~(e[i].object /\ ~e[i].duplicate)
                          \/ e[i].racing = Bad
                          \/ e[i].tla # Absent /\ e[i].tla # x.tla
      BY <3>2, <3>3, <3>7, Zenon
    <3> QED
      BY <3>4, <3>8, Zenon DEF n
  <2>4. (\E i \in DOMAIN e : Disagrees(d, e[i]))
          <=> \E n \in Roster!Mentioned(payload) : Contrary(n)
    <3> HIDE DEF Contrary
    <3> QED
      BY <2>2, <2>3 DEF Numbers
  <2>5. Roster!Contradicts(g, payload) <=> \E n \in Roster!Mentioned(payload) : Contrary(n)
    BY <1>3, Zenon DEF Roster!Contradicts
  <2> HIDE DEF Contrary
  <2> QED
    BY <1>1, <1>3, <2>4, <2>5 DEF e, g
<1> QED
  BY <1>2, <1>3

\* A snapshot is coherent to the parser when it is to the roster.
LEMMA CoherentIs ==
  ASSUME NEW payload \in Payloads
  PROVE  Coherent(ParseDriverList(payload)) <=> Roster!Coherent(payload)
<1> DEFINE p == ParseDriverList(payload)
           e == p.entries
<1>0. payload.object \in BOOLEAN
  BY ParseIs
<1>1. CASE ~payload.object
  <2>1. p = [entries |-> << >>, overflow |-> {}, object |-> FALSE, issues |-> {"shape"}]
    BY <1>1, ParseIs
  <2> QED
    BY <1>1, <2>1 DEF Coherent, Roster!Coherent
<1>2. CASE payload.object /\ Roster!TooMany(payload)
  <2>1. "limit" \in p.issues
    BY <1>2, LimitIs
  <2> QED
    BY <1>2, <2>1 DEF Coherent, Roster!Coherent
<1>3. CASE payload.object /\ ~Roster!TooMany(payload)
  <2>1. Heard(payload, e)
    BY <1>3 DEF Heard
  <2>2. "limit" \notin p.issues
    BY <1>3, LimitIs
  <2>3. p.object
    BY <1>3, ParseIs DEF ParseInv, Counted, Parsed
  <2>4. Coherent(p) <=> e # << >> /\ \A i \in DOMAIN e : Sound(e[i])
    BY <2>2, <2>3 DEF Coherent
  <2> HIDE DEF p, e
  <2>5. /\ e \in Seq(PatchSet) /\ Len(e) \in Nat
        /\ DOMAIN e = 1 .. Len(e) /\ Roster!Mentioned(payload) = Numbers(e)
        /\ \A i \in 1 .. Len(e) :
             /\ Roster!Said(payload, e[i].number).whole <=> e[i].object /\ ~e[i].duplicate
             /\ Roster!Said(payload, e[i].number).tla = e[i].tla
             /\ Roster!Said(payload, e[i].number).racing = e[i].racing
    BY <2>1, HeardIs
  <2> DEFINE Well(n) == LET s == Roster!Said(payload, n)
                        IN  s.whole /\ s.tla \notin {Absent, Bad} /\ s.racing # Bad
  <2>6. ASSUME NEW i \in 1 .. Len(e) PROVE Sound(e[i]) <=> Well(e[i].number)
    <3>1. /\ Roster!Said(payload, e[i].number).whole <=> e[i].object /\ ~e[i].duplicate
          /\ Roster!Said(payload, e[i].number).tla = e[i].tla
          /\ Roster!Said(payload, e[i].number).racing = e[i].racing
      BY <2>5
    <3> QED
      BY <3>1, Zenon DEF Sound
  <2>7. Roster!Coherent(payload) <=> Numbers(e) # {} /\ \A n \in Numbers(e) : Well(n)
    BY <1>3, <2>5, Zenon DEF Roster!Coherent
  <2> HIDE DEF Well
  <2>8. e # << >> <=> Numbers(e) # {}
    BY <2>5 DEF Numbers
  <2>9. (\A i \in DOMAIN e : Sound(e[i])) <=> \A n \in Numbers(e) : Well(n)
    BY <2>5, <2>6 DEF Numbers
  <2> QED
    BY <2>4, <2>7, <2>8, <2>9 DEF p
<1> QED
  BY <1>0, <1>1, <1>2, <1>3

\* The frozen array of a coherent snapshot.
LEMMA FrozenIs ==
  ASSUME NEW payload \in Payloads, Roster!Coherent(payload)
  PROVE  LET t == Frozen(ParseDriverList(payload))
         IN  /\ t \in State /\ Kept(t.drivers) /\ t.frozen /\ t.synchronized
             /\ Known(t.drivers) = [n \in Roster!Mentioned(payload) |->
                                      [tla |-> Roster!Names(payload)[n], racing |-> "own"]]
             /\ NamesOf(t.drivers) = Roster!Names(payload)
<1> DEFINE e == ParseDriverList(payload).entries
           t == Frozen(ParseDriverList(payload))
           f == FoldLeft(Insert, << >>, e)
<1>1. Heard(payload, e)
  BY DEF Heard, Roster!Coherent
<1>2. t = [drivers |-> f, frozen |-> TRUE, synchronized |-> TRUE]
  BY Zenon DEF Frozen
<1> HIDE DEF e, f, t
<1>3. /\ e \in Seq(PatchSet) /\ Once(e) /\ Len(e) <= MaxEntries
      /\ Roster!Mentioned(payload) = Numbers(e)
      /\ \A i \in 1 .. Len(e) : Roster!Said(payload, e[i].number).tla = e[i].tla
  BY <1>1, HeardIs
<1>4. Freezing(f, e, Len(e))
  BY <1>3, FreezeIs DEF f
<1>5. f \in Seq(Entry) /\ Kept(f) /\ Numbers(f) = Numbers(e)
  BY <1>3, <1>4 DEF Freezing, Kept, Numbers
<1>6. ASSUME NEW n \in Numbers(e)
      PROVE  Row(f, n).tla = Roster!Said(payload, n).tla /\ Row(f, n).racing = "own"
  <2>1. PICK j \in 1 .. Len(e) : e[j].number = n
    BY DEF Numbers
  <2>2. Blessed(e[j]) \in Rows(f) /\ Blessed(e[j]).number = n
    BY <1>4, <2>1 DEF Freezing, Blessed
  <2>3. Row(f, n) = Blessed(e[j])
    BY <1>5, <2>2, RowIs DEF Kept
  <2> QED
    BY <1>3, <2>1, <2>3 DEF Blessed
<1>7. Roster!Names(payload) = [n \in Numbers(e) |-> Roster!Said(payload, n).tla]
  BY <1>3 DEF Roster!Names
<1>8. NamesOf(f) = Roster!Names(payload)
  BY <1>5, <1>6, <1>7 DEF NamesOf
<1>9. Known(f) = [n \in Numbers(e) |-> [tla |-> Roster!Names(payload)[n], racing |-> "own"]]
  BY <1>5, <1>6, <1>7 DEF Known
<1>10. t \in State /\ t.drivers = f /\ t.frozen /\ t.synchronized
  BY <1>2, <1>5 DEF State
<1> QED
  BY <1>3, <1>5, <1>8, <1>9, <1>10 DEF t


-----------------------------------------------------------------------------
(* One payload, and the theorem.                                           *)

RosterOf(s) == [entries |-> Known(s.drivers), frozen |-> s.frozen, synchronized |-> s.synchronized]

\* The reduction r of a payload does to s what the roster promises.
Outcome(r, s, source, payload) ==
  /\ r.state \in State /\ Kept(r.state.drivers)
  /\ RosterOf(r.state) = Roster!After(RosterOf(s), source, payload)
  /\ "limit" \in r.issues <=> Roster!LeftOut(RosterOf(s), source, payload)
  /\ r.disposition = "noUpdate" => r.state = s
  /\ r.disposition = "staged" => Known(r.state.drivers) # Known(s.drivers)
  /\ "conflict" \in r.issues => r.state.frozen /\ ~r.state.synchronized

LEMMA UnsynchronizedIs ==
  ASSUME NEW s \in State
  PROVE  /\ Unsynchronized(s) \in State /\ Unsynchronized(s).drivers = s.drivers
         /\ Unsynchronized(s).frozen = s.frozen /\ ~Unsynchronized(s).synchronized
         /\ RosterOf(Unsynchronized(s)) =
              [entries |-> Known(s.drivers), frozen |-> s.frozen, synchronized |-> FALSE]
BY DEF Unsynchronized, State, RosterOf

\* What the roster does, field by field.
LEMMA AfterIs ==
  ASSUME NEW s \in State, NEW source, NEW payload
  PROVE  LET g == Known(s.drivers)
         IN  Roster!After(RosterOf(s), source, payload) =
               IF source = "snapshot" /\ Roster!Coherent(payload) /\ ~s.frozen
               THEN [ entries |-> [n \in Roster!Mentioned(payload) |->
                                     [tla |-> Roster!Names(payload)[n], racing |-> "own"]],
                      frozen |-> TRUE, synchronized |-> TRUE ]
               ELSE IF source = "snapshot"
               THEN [ entries |-> g, frozen |-> s.frozen,
                      synchronized |-> /\ Roster!Coherent(payload)
                                       /\ Roster!Names(payload) = NamesOf(s.drivers) ]
               ELSE IF s.frozen
               THEN [ entries |-> g, frozen |-> s.frozen,
                      synchronized |-> s.synchronized /\ ~Roster!Contradicts(g, payload) ]
               ELSE IF payload.object /\ ~Roster!TooMany(payload)
               THEN [ entries |-> Roster!Staged(g, payload), frozen |-> s.frozen,
                      synchronized |-> s.synchronized ]
               ELSE [ entries |-> g, frozen |-> s.frozen,
                      synchronized |-> s.synchronized /\ payload.object ]
<1> DEFINE w == RosterOf(s)
           g == Known(s.drivers)
<1>1. w = [entries |-> g, frozen |-> s.frozen, synchronized |-> s.synchronized]
  BY DEF RosterOf
<1>2. [n \in DOMAIN g |-> g[n].tla] = NamesOf(s.drivers)
  BY DEF Known, NamesOf
<1> HIDE DEF g, w
<1>3. /\ w.entries = g /\ w.frozen = s.frozen /\ w.synchronized = s.synchronized
      /\ \A b : [w EXCEPT !.synchronized = b] =
                  [entries |-> g, frozen |-> s.frozen, synchronized |-> b]
      /\ \A b : [w EXCEPT !.entries = b] =
                  [entries |-> b, frozen |-> s.frozen, synchronized |-> s.synchronized]
  BY <1>1
<1>4. [n \in DOMAIN w.entries |-> w.entries[n].tla] = NamesOf(s.drivers)
  BY <1>2, <1>3
<1>5. Roster!After(w, source, payload) =
        IF source = "snapshot" /\ Roster!Coherent(payload) /\ ~w.frozen
        THEN [ entries |-> [n \in Roster!Mentioned(payload) |->
                              [tla |-> Roster!Names(payload)[n], racing |-> "own"]],
               frozen |-> TRUE, synchronized |-> TRUE ]
        ELSE IF source = "snapshot"
        THEN [w EXCEPT !.synchronized =
                /\ Roster!Coherent(payload)
                /\ Roster!Names(payload) = [n \in DOMAIN w.entries |-> w.entries[n].tla]]
        ELSE IF w.frozen
        THEN [w EXCEPT !.synchronized = w.synchronized /\ ~Roster!Contradicts(w.entries, payload)]
        ELSE IF payload.object /\ ~Roster!TooMany(payload)
        THEN [w EXCEPT !.entries = Roster!Staged(w.entries, payload)]
        ELSE [w EXCEPT !.synchronized = w.synchronized /\ payload.object]
  BY Zenon DEF Roster!After
<1> QED
  BY <1>3, <1>4, <1>5, Zenon DEF w, g

LEMMA FeedIs ==
  ASSUME NEW s \in State, Kept(s.drivers), NEW payload \in Payloads
  PROVE  Outcome(ReduceFeed(s, ParseDriverList(payload)), s, "feed", payload)
<1> DEFINE p == ParseDriverList(payload)
           r == ReduceFeed(s, p)
           g == Known(s.drivers)
           w == RosterOf(s)
           u == Unsynchronized(s)
<1>0. payload.object \in BOOLEAN /\ s.frozen \in BOOLEAN /\ s.synchronized \in BOOLEAN
      /\ s.drivers \in Seq(Entry) /\ Sorted(s.drivers)
  BY ParseIs DEF State, Kept
<1>1. Roster!After(w, "feed", payload) =
        IF s.frozen
        THEN [ entries |-> g, frozen |-> s.frozen,
               synchronized |-> s.synchronized /\ ~Roster!Contradicts(g, payload) ]
        ELSE IF payload.object /\ ~Roster!TooMany(payload)
        THEN [ entries |-> Roster!Staged(g, payload), frozen |-> s.frozen,
               synchronized |-> s.synchronized ]
        ELSE [ entries |-> g, frozen |-> s.frozen,
               synchronized |-> s.synchronized /\ payload.object ]
  BY AfterIs
<1>2. Roster!LeftOut(w, "feed", payload) <=>
        \/ payload.object /\ Roster!TooMany(payload)
        \/ /\ payload.object /\ ~s.frozen
           /\ Roster!Mentioned(payload) \ DOMAIN g # Roster!Admitted(g, payload)
  BY DEF Roster!LeftOut, RosterOf
<1>3. w = [entries |-> g, frozen |-> s.frozen, synchronized |-> s.synchronized]
  BY DEF RosterOf
<1>4. /\ u \in State /\ Kept(u.drivers) /\ u.frozen = s.frozen /\ ~u.synchronized
      /\ RosterOf(u) = [entries |-> g, frozen |-> s.frozen, synchronized |-> FALSE]
  BY UnsynchronizedIs
<1>5. payload.object => /\ "limit" \in p.issues <=> Roster!TooMany(payload)
                        /\ "conflict" \notin p.issues /\ p.object /\ p.issues \in Issues
  BY LimitIs, ParseIs DEF ParseInv, Counted, Parsed
<1>6. \A a, b, c : /\ Reduction(a, b, c).state = a /\ Reduction(a, b, c).disposition = b
                   /\ Reduction(a, b, c).issues = c
  BY DEF Reduction
<1>7. CASE ~payload.object
  <2>1. p = [entries |-> << >>, overflow |-> {}, object |-> FALSE, issues |-> {"shape"}]
    BY <1>7, ParseIs
  <2>2. r = Reduction(u, "unavailable", {"shape"})
    BY <2>1 DEF ReduceFeed
  <2>3. Roster!After(w, "feed", payload) =
          [entries |-> g, frozen |-> s.frozen, synchronized |-> FALSE]
    <3>1. Roster!Contradicts(g, payload)
      BY <1>7 DEF Roster!Contradicts
    <3> QED
      BY <1>0, <1>1, <1>7, <3>1
  <2>4. r.state = u /\ r.disposition = "unavailable" /\ r.issues = {"shape"}
    BY <1>6, <2>2
  <2> HIDE DEF r, u, w
  <2> QED
    BY <1>2, <1>4, <1>7, <2>3, <2>4 DEF Outcome, r, u, w
<1>8. CASE payload.object /\ ~s.frozen /\ Roster!TooMany(payload)
  <2>1. r = Reduction(s, "noUpdate", p.issues)
    BY <1>5, <1>8 DEF ReduceFeed
  <2>2. Roster!After(w, "feed", payload) = w
    BY <1>0, <1>1, <1>3, <1>8
  <2>3. r.state = s /\ r.disposition = "noUpdate" /\ r.issues = p.issues
    BY <1>6, <2>1
  <2> HIDE DEF r, w, p
  <2> QED
    BY <1>2, <1>5, <1>8, <2>2, <2>3 DEF Outcome, r, w, p
<1>9. CASE payload.object /\ ~s.frozen /\ ~Roster!TooMany(payload)
  <2> DEFINE e == p.entries
  <2>1. r = FoldLeft(ApplyStagedDriverPatch, Reduction(s, "noUpdate", p.issues), e)
    BY <1>5, <1>9, Zenon DEF ReduceFeed
  <2>2. Heard(payload, e)
    BY <1>9 DEF Heard
  <2> HIDE DEF p, e, r
  <2>3. e \in Seq(PatchSet) /\ Once(e)
    BY <2>2, HeardIs
  <2>4. Staging(r, s, e, Len(e))
    BY <1>5, <1>9, <2>1, <2>3, StageIs
  <2>5. /\ Known(r.state.drivers) = Roster!Staged(g, payload)
        /\ "limit" \in r.issues
             <=> Roster!Mentioned(payload) \ DOMAIN g # Roster!Admitted(g, payload)
        /\ r.disposition = "noUpdate" => r.state = s
        /\ r.disposition = "staged" => Known(r.state.drivers) # g
        /\ "conflict" \notin r.issues
    BY <2>2, <2>4, StagedIs
  <2>6. /\ r.state \in State /\ Kept(r.state.drivers)
        /\ r.state.frozen = s.frozen /\ r.state.synchronized = s.synchronized
    BY <2>4 DEF Staging, ReductionSet, State
  <2>7. RosterOf(r.state) = Roster!After(w, "feed", payload)
    BY <1>1, <1>9, <2>5, <2>6 DEF RosterOf
  <2> HIDE DEF w
  <2> QED
    BY <1>2, <1>9, <2>5, <2>6, <2>7 DEF Outcome, r, w, p
<1>10. CASE payload.object /\ s.frozen
  <2> DEFINE Wrong == \/ "limit" \in p.issues
                      \/ \E i \in DOMAIN p.entries : Disagrees(s.drivers, p.entries[i])
  <2>1. Wrong <=> Roster!Contradicts(g, payload)
    BY <1>0, <1>10, ConflictIs
  <2>2. r = IF Wrong THEN Reduction(u, "conflict", p.issues \cup {"conflict"})
            ELSE Reduction(s, "noUpdate", p.issues)
    BY <1>5, <1>10, Zenon DEF ReduceFeed
  <2> HIDE DEF Wrong
  <2>3. CASE Wrong
    <3>1. Roster!After(w, "feed", payload) =
            [entries |-> g, frozen |-> s.frozen, synchronized |-> FALSE]
      BY <1>0, <1>1, <1>10, <2>1, <2>3
    <3>2. r.state = u /\ r.disposition = "conflict" /\ r.issues = p.issues \cup {"conflict"}
      BY <1>6, <2>2, <2>3
    <3> HIDE DEF r, u, w, p
    <3> QED
      BY <1>2, <1>4, <1>5, <1>10, <3>1, <3>2 DEF Outcome, r, u, w, p
  <2>4. CASE ~Wrong
    <3>1. Roster!After(w, "feed", payload) = w
      BY <1>0, <1>1, <1>3, <1>10, <2>1, <2>4
    <3>2. r.state = s /\ r.disposition = "noUpdate" /\ r.issues = p.issues
      BY <1>6, <2>2, <2>4
    <3> HIDE DEF r, w, p
    <3> QED
      BY <1>2, <1>5, <1>10, <3>1, <3>2 DEF Outcome, r, w, p
  <2> QED
    BY <2>3, <2>4
<1> QED
  BY <1>0, <1>7, <1>8, <1>9, <1>10


LEMMA SnapshotIs ==
  ASSUME NEW s \in State, Kept(s.drivers), NEW payload \in Payloads
  PROVE  Outcome(ReduceSnapshot(s, ParseDriverList(payload)), s, "snapshot", payload)
<1> DEFINE p == ParseDriverList(payload)
           r == ReduceSnapshot(s, p)
           t == Frozen(p)
           g == Known(s.drivers)
           w == RosterOf(s)
           u == Unsynchronized(s)
           c == Roster!Names(payload) = NamesOf(s.drivers)
<1>0. payload.object \in BOOLEAN /\ s.frozen \in BOOLEAN /\ s.synchronized \in BOOLEAN
      /\ s.drivers \in Seq(Entry) /\ Sorted(s.drivers)
  BY ParseIs DEF State, Kept
<1>1. Roster!After(w, "snapshot", payload) =
        IF Roster!Coherent(payload) /\ ~s.frozen
        THEN [ entries |-> [n \in Roster!Mentioned(payload) |->
                              [tla |-> Roster!Names(payload)[n], racing |-> "own"]],
               frozen |-> TRUE, synchronized |-> TRUE ]
        ELSE [ entries |-> g, frozen |-> s.frozen, synchronized |-> Roster!Coherent(payload) /\ c ]
  BY AfterIs
<1>2. Roster!LeftOut(w, "snapshot", payload) <=> payload.object /\ Roster!TooMany(payload)
  BY DEF Roster!LeftOut
<1>3. w = [entries |-> g, frozen |-> s.frozen, synchronized |-> s.synchronized]
  BY DEF RosterOf
<1>4. /\ u \in State /\ Kept(u.drivers) /\ u.frozen = s.frozen /\ ~u.synchronized
      /\ RosterOf(u) = [entries |-> g, frozen |-> s.frozen, synchronized |-> FALSE]
  BY UnsynchronizedIs
<1>5. /\ payload.object => /\ "limit" \in p.issues <=> Roster!TooMany(payload)
                           /\ "conflict" \notin p.issues
      /\ ~payload.object => "limit" \notin p.issues /\ "conflict" \notin p.issues
  BY LimitIs, ParseIs DEF ParseInv, Counted
<1>6. \A a, b, d : /\ Reduction(a, b, d).state = a /\ Reduction(a, b, d).disposition = b
                   /\ Reduction(a, b, d).issues = d
  BY DEF Reduction
<1>7. Coherent(p) <=> Roster!Coherent(payload)
  BY CoherentIs
<1>8. Roster!Coherent(payload) => payload.object /\ ~Roster!TooMany(payload)
  BY DEF Roster!Coherent
<1>9. CASE ~Roster!Coherent(payload)
  <2>1. r = Reduction(u, "unavailable", SnapshotIssues(p))
    BY <1>7, <1>9 DEF ReduceSnapshot
  <2>2. Roster!After(w, "snapshot", payload) =
          [entries |-> g, frozen |-> s.frozen, synchronized |-> FALSE]
    BY <1>1, <1>9
  <2>3. r.state = u /\ r.disposition = "unavailable" /\ r.issues = SnapshotIssues(p)
    BY <1>6, <2>1
  <2>4. /\ "limit" \in SnapshotIssues(p) <=> "limit" \in p.issues
        /\ "conflict" \in SnapshotIssues(p) <=> "conflict" \in p.issues
    BY DEF SnapshotIssues
  <2> HIDE DEF r, u, w, p
  <2> QED
    BY <1>0, <1>2, <1>4, <1>5, <2>2, <2>3, <2>4 DEF Outcome, r, u, w, p
<1>10. CASE Roster!Coherent(payload) /\ ~s.frozen
  <2>1. r = Reduction(t, "frozen", p.issues)
    BY <1>7, <1>10 DEF ReduceSnapshot
  <2>2. /\ t \in State /\ Kept(t.drivers) /\ t.frozen /\ t.synchronized
        /\ Known(t.drivers) = [n \in Roster!Mentioned(payload) |->
                                 [tla |-> Roster!Names(payload)[n], racing |-> "own"]]
    BY <1>10, FrozenIs
  <2>3. t.frozen = TRUE /\ t.synchronized = TRUE
    BY <2>2 DEF State
  <2>4. RosterOf(t) = Roster!After(w, "snapshot", payload)
    <3> HIDE DEF t, w
    <3> QED
      BY <1>1, <1>10, <2>2, <2>3 DEF RosterOf
  <2>5. r.state = t /\ r.disposition = "frozen" /\ r.issues = p.issues
    BY <1>6, <2>1
  <2> HIDE DEF r, t, w, p
  <2> QED
    BY <1>2, <1>5, <1>8, <1>10, <2>2, <2>4, <2>5 DEF Outcome, r, t, w, p
<1>11. CASE Roster!Coherent(payload) /\ s.frozen
  <2> DEFINE v == [s EXCEPT !.synchronized = TRUE]
  <2>1. r = IF Same(s, t) THEN Reduction(v, "refreshed", p.issues)
            ELSE Reduction(u, "conflict", p.issues \cup {"conflict"})
    BY <1>7, <1>11, Zenon DEF ReduceSnapshot
  <2>2. Same(s, t) <=> c
    <3>1. t \in State /\ Sorted(t.drivers) /\ NamesOf(t.drivers) = Roster!Names(payload)
      BY <1>11, FrozenIs DEF Kept
    <3>2. Same(s, t) <=> NamesOf(s.drivers) = NamesOf(t.drivers)
      BY <1>0, <3>1, SameIs
    <3> QED
      BY <3>1, <3>2
  <2> HIDE DEF c, t, v
  <2>3. CASE c
    <3>1. v \in State /\ Kept(v.drivers)
          /\ RosterOf(v) = [entries |-> g, frozen |-> s.frozen, synchronized |-> TRUE]
      BY DEF v, State, RosterOf
    <3>2. Roster!After(w, "snapshot", payload) =
            [entries |-> g, frozen |-> s.frozen, synchronized |-> TRUE]
      BY <1>1, <1>11, <2>3
    <3>3. r.state = v /\ r.disposition = "refreshed" /\ r.issues = p.issues
      BY <1>6, <2>1, <2>2, <2>3
    <3> HIDE DEF r, w, p
    <3> QED
      BY <1>2, <1>5, <1>8, <1>11, <3>1, <3>2, <3>3 DEF Outcome, r, w, p
  <2>4. CASE ~c
    <3>1. Roster!After(w, "snapshot", payload) =
            [entries |-> g, frozen |-> s.frozen, synchronized |-> FALSE]
      BY <1>1, <1>11, <2>4
    <3>2. r.state = u /\ r.disposition = "conflict" /\ r.issues = p.issues \cup {"conflict"}
      BY <1>6, <2>1, <2>2, <2>4
    <3> HIDE DEF r, u, w, p
    <3> QED
      BY <1>2, <1>4, <1>5, <1>8, <1>11, <3>1, <3>2 DEF Outcome, r, u, w, p
  <2> QED
    BY <2>3, <2>4
<1> QED
  BY <1>0, <1>9, <1>10, <1>11

LEMMA ReduceIs ==
  ASSUME NEW s \in State, Kept(s.drivers), NEW source \in Sources, NEW payload \in Payloads
  PROVE  Outcome(Reduce(s, source, ParseDriverList(payload)), s, source, payload)
<1>1. CASE source = "feed"
  BY <1>1, FeedIs DEF Reduce
<1>2. CASE source = "snapshot"
  BY <1>2, SnapshotIs DEF Reduce
<1> QED
  BY <1>1, <1>2 DEF Sources

\* The inductive invariant: the array is sorted by number and has room for what it holds.
RegistryInv == registry \in State /\ Kept(registry.drivers)

\* Whatever payloads come, the array stays sorted, each driver once, within its limit.
THEOREM ArrayIsKept == Spec => []RegistryInv
<1>1. Init => RegistryInv
  <2> SUFFICES ASSUME Init PROVE RegistryInv
    OBVIOUS
  <2>1. << >> \in Seq(Entry) /\ Len(<< >>) = 0 /\ MaxEntries \in Nat
    BY RegistryAssumption DEF RegistryAssumption
  <2>2. registry \in State /\ registry.drivers = << >>
    BY <2>1 DEF Init, State
  <2> QED
    BY <2>1, <2>2 DEF RegistryInv, Kept, Sorted
<1>2. RegistryInv /\ [Next]_registry => RegistryInv'
  <2> SUFFICES ASSUME RegistryInv, [Next]_registry PROVE RegistryInv'
    OBVIOUS
  <2>1. ASSUME NEW source \in Sources, NEW payload \in Payloads, Update(source, payload)
        PROVE  RegistryInv'
    <3> DEFINE r == Reduce(registry, source, ParseDriverList(payload))
    <3>1. Outcome(r, registry, source, payload)
      BY ReduceIs DEF RegistryInv
    <3>2. registry' = r.state
      BY <2>1 DEF Update
    <3> HIDE DEF r
    <3> QED
      BY <3>1, <3>2 DEF Outcome, RegistryInv
  <2>2. CASE UNCHANGED registry
    BY <2>2 DEF RegistryInv
  <2> QED
    BY <2>1, <2>2 DEF Next
<1> QED
  BY <1>1, <1>2, PTL DEF Spec

LEMMA InvKeepsRoster == RegistryInv => KeepsRoster
<1> SUFFICES ASSUME RegistryInv, NEW source \in Sources, NEW payload \in Payloads
             PROVE  LET r == Reduce(registry, source, ParseDriverList(payload))
                    IN  /\ View(r.state) = Roster!After(View(registry), source, payload)
                        /\ IsInjective([i \in DOMAIN r.state.drivers |-> r.state.drivers[i].number])
                        /\ "limit" \in r.issues <=> Roster!LeftOut(View(registry), source, payload)
                        /\ r.disposition = "noUpdate" => r.state = registry
                        /\ r.disposition = "staged" => View(r.state).entries # View(registry).entries
                        /\ "conflict" \in r.issues => r.state.frozen /\ ~r.state.synchronized
  BY Zenon DEF KeepsRoster
<1> DEFINE r == Reduce(registry, source, ParseDriverList(payload))
<1>1. Outcome(r, registry, source, payload)
  BY ReduceIs DEF RegistryInv
<1> HIDE DEF r
<1>2. registry \in State /\ r.state \in State /\ Kept(r.state.drivers)
  BY <1>1 DEF RegistryInv, Outcome
<1>3. View(registry) = RosterOf(registry) /\ View(r.state) = RosterOf(r.state)
  BY <1>2, ViewIs DEF RosterOf
<1>4. RosterOf(registry).entries = Known(registry.drivers)
      /\ RosterOf(r.state).entries = Known(r.state.drivers)
  BY DEF RosterOf
<1>5. IsInjective([i \in DOMAIN r.state.drivers |-> r.state.drivers[i].number])
  <2> DEFINE d == r.state.drivers
  <2>1. d \in Seq(Entry) /\ Once(d)
    BY <1>2, SortedOnce DEF Kept
  <2>2. DOMAIN d = 1 .. Len(d)
    BY <2>1
  <2> HIDE DEF d
  <2>3. IsInjective([i \in DOMAIN d |-> d[i].number])
    BY <2>1, <2>2 DEF Once, IsInjective
  <2> QED
    BY <2>3 DEF d
<1> QED
  BY <1>1, <1>3, <1>4, <1>5, Zenon DEF Outcome, r

\* In every reachable state a payload does to the array what it does to a roster:
\* what is admitted, staged, frozen, contradicted and restored is the same, nothing is
\* left out in silence, and the disposition says what happened.
THEOREM RosterIsKept == Spec => []KeepsRoster
<1>1. Spec => []RegistryInv
  BY ArrayIsKept
<1> QED
  BY <1>1, InvKeepsRoster, PTL
=============================================================================
