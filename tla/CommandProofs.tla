---------------------------- MODULE CommandProofs ----------------------------
(***************************************************************************)
(* Commands reach the device as they were meant: for every number of        *)
(* entities, of calls and of messages in flight.  DeviceFollows speaks of a *)
(* fold over the messages, which is unfolded here by induction over their   *)
(* number.                                                                  *)
(***************************************************************************)
EXTENDS CliActions, SequenceTheorems, WellFoundedInduction, TLAPS

(* A set of natural numbers that is not empty has a least element. *)
LEMMA LeastNumber ==
  ASSUME NEW T, T \subseteq Nat, T # {}
  PROVE  \E x \in T : \A y \in T : x <= y
  <1> DEFINE R == OpToRel(<, Nat)
  <1>1. IsWellFoundedOn(R, Nat)
    BY NatLessThanWellFounded
  <1>2. \A x, y \in Nat : y < x => <<y, x>> \in R
    BY DEF OpToRel
  <1> HIDE DEF R
  <1>3. PICK x \in T : \A y \in T : ~ (<<y, x>> \in R)
    BY <1>1, WFMin, Zenon
  <1>4. ASSUME NEW y \in T PROVE x <= y
    <2>1. x \in Nat /\ y \in Nat
      OBVIOUS
    <2>2. ~(y < x)
      BY <1>2, <1>3, <2>1, Zenon
    <2> QED
      BY <2>1, <2>2
  <1> QED
    BY <1>4

(* Induction over the natural numbers, for a set instead of a predicate. *)
LEMMA NumberInduction ==
  ASSUME NEW T, 0 \in T, \A n \in Nat : n \in T => n + 1 \in T
  PROVE  Nat \subseteq T
  <1> SUFFICES ASSUME Nat \ T # {} PROVE FALSE
    OBVIOUS
  <1>1. PICK x \in Nat \ T : \A y \in Nat \ T : x <= y
    BY LeastNumber
  <1>2. x # 0 /\ x - 1 \in Nat /\ ~(x - 1 \in Nat \ T)
    BY <1>1
  <1> QED
    BY <1>1, <1>2

(* The largest of finitely many positions. *)
LEMMA Largest ==
  ASSUME NEW k \in Nat, NEW s \in SUBSET (1..k), s # {}
  PROVE  Max(s) \in s /\ \A y \in s : Max(s) >= y
  <1> DEFINE T == {k - x : x \in s}
  <1>0. \A x \in s : x \in Nat /\ k - x \in Nat
    OBVIOUS
  <1>1. T \subseteq Nat /\ T # {}
    BY <1>0, Zenon
  <1>2. PICK t \in T : \A y \in T : t <= y
    BY <1>1, LeastNumber
  <1>3. PICK m \in s : t = k - m
    OBVIOUS
  <1>4. ASSUME NEW y \in s PROVE m >= y
    <2>1. k - y \in T
      OBVIOUS
    <2>2. t <= k - y
      BY <1>2, <2>1, Zenon
    <2>3. m \in Nat /\ y \in Nat
      BY <1>0, Zenon
    <2> QED
      BY <1>3, <2>2, <2>3
  <1>5. \E x \in s : \A y \in s : x >= y
    BY <1>4
  <1> HIDE DEF T
  <1> QED
    BY <1>5, Zenon DEF Max

-----------------------------------------------------------------------------
(* Messages, one after the other. *)

Step(d, dev, m) == [dev EXCEPT ![m.key] = Applies(d, @, m.msg)]

Fold(d, dev, box) ==
    FoldLeft(LAMBDA x, m : [x EXCEPT ![m.key] = Applies(d, @, m.msg)], dev, box)

(* h is the function that the fold chooses. *)
FoldsUp(h, d, dev, box) ==
    h = [s \in SUBSET (DOMAIN box) |->
            IF s = {} THEN dev
            ELSE LET x == Max(s)
                 IN  [h[s \ {x}] EXCEPT ![box[x].key] = Applies(d, @, box[x].msg)]]

(* The fold is a function that folds up, if there is one. *)
LEMMA FoldSums ==
  ASSUME NEW d, NEW dev, NEW box, NEW g, FoldsUp(g, d, dev, box)
  PROVE  \E h : FoldsUp(h, d, dev, box) /\ Fold(d, dev, box) = h[DOMAIN box]
  <1> DEFINE h == CHOOSE h : FoldsUp(h, d, dev, box)
  <1>1. FoldsUp(h, d, dev, box)
    BY Zenon
  <1>2. Fold(d, dev, box) = h[DOMAIN box]
    BY DEF Fold, FoldLeft, MapThenFoldSet, FoldsUp
  <1> HIDE DEF h
  <1> QED
    BY <1>1, <1>2, Zenon

(* There is one: sets of positions up to k, for every k. *)
LEMMA FoldsUpExists ==
  ASSUME NEW d, NEW dev, NEW S, NEW box \in Seq(S)
  PROVE  \E h : FoldsUp(h, d, dev, box)
  <1> DEFINE n == Len(box)
             B(h, s) == IF s = {} THEN dev ELSE Step(d, h[s \ {Max(s)}], box[Max(s)])
             U(h, k) == \A s \in SUBSET (1..k) : s \subseteq 1..n => h[s] = B(h, s)
             F(h) == [s \in SUBSET (1..n) |-> B(h, s)]
             T == {k \in Nat : \E h : U(h, k)}
  <1>0. n \in Nat /\ DOMAIN box = 1..n
    OBVIOUS
  <1>a. \A h : \A s \in SUBSET (1..n) : F(h)[s] = B(h, s)
    OBVIOUS
  <1> HIDE DEF F
  <1>1. ASSUME NEW h, NEW k \in Nat, U(h, k) PROVE U(F(h), k + 1)
    <2> SUFFICES ASSUME NEW s \in SUBSET (1..(k + 1)), s \subseteq 1..n
                 PROVE  F(h)[s] = B(F(h), s)
      BY Zenon
    <2>1. F(h)[s] = B(h, s)
      BY <1>a, Zenon
    <2>2. CASE s = {}
      BY <2>1, <2>2, Zenon
    <2>3. CASE s # {}
      <3> DEFINE r == s \ {Max(s)}
      <3>0. k + 1 \in Nat
        OBVIOUS
      <3>1. Max(s) \in s /\ \A y \in s : Max(s) >= y
        BY <2>3, <3>0, Largest, Zenon
      <3>2. r \in SUBSET (1..k) /\ r \in SUBSET (1..n)
        <4> DEFINE m == Max(s)
        <4>1. m \in s /\ \A y \in s : m >= y
          BY <3>1
        <4> HIDE DEF m
        <4>2. ASSUME NEW y \in s, y # m PROVE y \in 1..k /\ y \in 1..n
          <5>1. m \in 1..(k + 1) /\ y \in 1..(k + 1) /\ m >= y /\ y \in 1..n
            BY <4>1, Zenon
          <5> QED
            BY <4>2, <5>1
        <4> QED
          BY <4>2, Zenon DEF m
      <3>3. h[r] = F(h)[r]
        BY <1>1, <1>a, <3>2, Zenon
      <3> QED
        BY <2>1, <2>3, <3>3, Zenon
    <2> QED
      BY <2>2, <2>3
  <1>2. 0 \in T
    <2>1. F(0)[{}] = dev
      BY <1>a, Zenon
    <2>2. U(F(0), 0)
      <3> SUFFICES ASSUME NEW s \in SUBSET (1..0) PROVE F(0)[s] = B(F(0), s)
        BY Zenon
      <3>1. s = {}
        OBVIOUS
      <3> QED
        BY <2>1, <3>1, Zenon
    <2> HIDE DEF U
    <2> QED
      BY <2>2
  <1>3. ASSUME NEW k \in Nat, k \in T PROVE k + 1 \in T
    <2> HIDE DEF U
    <2>1. PICK h : U(h, k)
      BY <1>3
    <2>2. U(F(h), k + 1)
      BY <1>1, <2>1, Zenon
    <2>3. k + 1 \in Nat
      OBVIOUS
    <2> QED
      BY <2>2, <2>3, Zenon
  <1>4. n \in T
    <2>1. Nat \subseteq T
      <3> HIDE DEF T
      <3> QED
        BY <1>2, <1>3, NumberInduction
    <2> QED
      BY <1>0, <2>1, Zenon
  <1>5. PICK h : U(h, n)
    <2> HIDE DEF U
    <2> QED
      BY <1>4
  <1>6. \A s \in SUBSET (1..n) : F(h)[s] = B(h, s) /\ h[s] = B(h, s)
    BY <1>5, <1>a, Zenon
  <1>7. ASSUME NEW s \in SUBSET (1..n) PROVE F(h)[s] = B(F(h), s)
    <2>1. CASE s = {}
      BY <1>6, <2>1, Zenon
    <2>2. CASE s # {}
      <3> DEFINE r == s \ {Max(s)}
      <3>1. r \in SUBSET (1..n)
        OBVIOUS
      <3>2. h[r] = F(h)[r]
        BY <1>6, <3>1, Zenon
      <3> QED
        BY <1>6, <2>2, <3>2, Zenon
    <2> QED
      BY <2>1, <2>2
  <1>8. F(h) = [s \in SUBSET (1..n) |-> B(F(h), s)]
    <2>1. F(h) = [s \in SUBSET (1..n) |-> F(h)[s]]
      BY DEF F
    <2> QED
      BY <1>7, <2>1, Zenon
  <1>9. FoldsUp(F(h), d, dev, box)
    BY <1>0, <1>8, Zenon DEF FoldsUp, Step
  <1> QED
    BY <1>9, Zenon

(* The devices that the messages lead through. *)
IsChain(c, d, dev, box) ==
    /\ c[0] = dev
    /\ \A i \in 1..Len(box) : c[i] = Step(d, c[i - 1], box[i])

(* The fold is the end of a chain. *)
LEMMA FoldChain ==
  ASSUME NEW d, NEW dev, NEW S, NEW box \in Seq(S)
  PROVE  \E c : IsChain(c, d, dev, box) /\ Fold(d, dev, box) = c[Len(box)]
  <1>1. PICK h : FoldsUp(h, d, dev, box) /\ Fold(d, dev, box) = h[DOMAIN box]
    <2>1. PICK g : FoldsUp(g, d, dev, box)
      BY FoldsUpExists
    <2> QED
      BY <2>1, FoldSums, Zenon
  <1> DEFINE n == Len(box)
             c == [i \in 0..n |-> h[1..i]]
  <1>2. n \in Nat /\ DOMAIN box = 1..n
    OBVIOUS
  <1>3. h[{}] = dev
    BY <1>1 DEF FoldsUp
  <1>4. ASSUME NEW s \in SUBSET (1..n), s # {}
        PROVE  h[s] = Step(d, h[s \ {Max(s)}], box[Max(s)])
    BY <1>1, <1>2, <1>4 DEF FoldsUp, Step
  <1>5. \A i \in 0..n : c[i] = h[1..i]
    OBVIOUS
  <1> HIDE DEF c
  <1>6. c[0] = dev
    <2>1. 1..0 = {} /\ 0 \in 0..n
      BY <1>2
    <2> QED
      BY <1>3, <1>5, <2>1, Zenon
  <1>7. ASSUME NEW i \in 1..n PROVE c[i] = Step(d, c[i - 1], box[i])
    <2> DEFINE s == 1..i
    <2>0. i \in Nat /\ i \in 0..n /\ i - 1 \in 0..n /\ i \in s
      BY <1>2
    <2>a. \A x \in s : x \in 1..n
      BY <1>2
    <2>1. i \in Nat /\ i \in 0..n /\ i - 1 \in 0..n /\ s \in SUBSET (1..n) /\ s # {} /\ i \in s
      BY <2>0, <2>a, Zenon
    <2>2. s \in SUBSET (1..i)
      OBVIOUS
    <2>3. Max(s) \in s /\ \A y \in s : Max(s) >= y
      BY <2>1, <2>2, Largest, Zenon
    <2>4. Max(s) = i
      <3> DEFINE m == Max(s)
      <3>1. m \in 1..i /\ m >= i
        BY <2>1, <2>3, Zenon
      <3> HIDE DEF m
      <3>2. m = i
        BY <2>1, <3>1
      <3> QED
        BY <3>2 DEF m
    <2>5. s \ {i} = 1..(i - 1)
      BY <2>1
    <2>6. h[s] = Step(d, h[s \ {i}], box[i])
      BY <1>4, <2>1, <2>4, Zenon
    <2>7. c[i] = h[s] /\ c[i - 1] = h[1..(i - 1)]
      BY <1>5, <2>1, Zenon
    <2> QED
      BY <2>5, <2>6, <2>7, Zenon
  <1>8. c[n] = Fold(d, dev, box)
    <2>1. n \in 0..n
      BY <1>2
    <2> QED
      BY <1>1, <1>2, <1>5, <2>1, Zenon
  <1> QED
    BY <1>6, <1>7, <1>8, Zenon DEF IsChain

(* There is one chain. *)
LEMMA ChainUnique ==
  ASSUME NEW d, NEW dev, NEW box, Len(box) \in Nat, NEW c, NEW e,
         IsChain(c, d, dev, box), IsChain(e, d, dev, box)
  PROVE  \A i \in 0..Len(box) : c[i] = e[i]
  <1> DEFINE n == Len(box)
             T == {i \in Nat : i <= n => c[i] = e[i]}
  <1>1. 0 \in T
    BY DEF IsChain
  <1>2. ASSUME NEW i \in Nat, i \in T PROVE i + 1 \in T
    <2> SUFFICES ASSUME i + 1 <= n PROVE c[i + 1] = e[i + 1]
      OBVIOUS
    <2>1. i + 1 \in 1..n /\ (i + 1) - 1 = i /\ i <= n
      OBVIOUS
    <2>2. c[i] = e[i]
      BY <1>2, <2>1
    <2>3. c[i + 1] = Step(d, c[(i + 1) - 1], box[i + 1])
          /\ e[i + 1] = Step(d, e[(i + 1) - 1], box[i + 1])
      BY <2>1, Zenon DEF IsChain
    <2> QED
      BY <2>1, <2>2, <2>3, Zenon
  <1>3. Nat \subseteq T
    <2> HIDE DEF T
    <2> QED
      BY <1>1, <1>2, NumberInduction
  <1> QED
    BY <1>3

(* No message. *)
LEMMA FoldNothing ==
  ASSUME NEW d, NEW dev, NEW S, NEW box \in Seq(S), box = <<>>
  PROVE  Fold(d, dev, box) = dev
  <1>1. PICK c : IsChain(c, d, dev, box) /\ Fold(d, dev, box) = c[Len(box)]
    BY FoldChain
  <1> QED
    BY <1>1 DEF IsChain

(* One more message, and one message less. *)
LEMMA FoldFacts ==
  ASSUME NEW d, NEW dev, NEW S, NEW box \in Seq(S)
  PROVE  /\ \A m \in S : Fold(d, dev, Append(box, m)) = Step(d, Fold(d, dev, box), m)
         /\ box # <<>> => Fold(d, dev, box) = Fold(d, Step(d, dev, Head(box)), Tail(box))
  <1> DEFINE n == Len(box)
  <1>0. n \in Nat
    OBVIOUS
  <1>1. PICK c : IsChain(c, d, dev, box) /\ Fold(d, dev, box) = c[n]
    BY FoldChain
  <1>3. ASSUME NEW m \in S PROVE Fold(d, dev, Append(box, m)) = Step(d, Fold(d, dev, box), m)
    <2> DEFINE more == Append(box, m)
    <2>1. /\ more \in Seq(S) /\ Len(more) = n + 1 /\ more[n + 1] = m
          /\ \A i \in 1..n : more[i] = box[i]
      OBVIOUS
    <2> HIDE DEF more
    <2>2. PICK e : IsChain(e, d, dev, more) /\ Fold(d, dev, more) = e[Len(more)]
      BY <2>1, FoldChain, Zenon
    <2>3. n + 1 \in 1..(n + 1) /\ (n + 1) - 1 = n /\ \A i \in 1..n : i \in 1..(n + 1)
      BY <1>0
    <2>4. e[n + 1] = Step(d, e[n], m)
      <3>1. e[n + 1] = Step(d, e[(n + 1) - 1], more[n + 1])
        BY <2>1, <2>2, <2>3, Zenon DEF IsChain
      <3> QED
        BY <2>1, <2>3, <3>1, Zenon
    <2>5. IsChain(e, d, dev, box)
      <3>1. \A i \in 1..n : e[i] = Step(d, e[i - 1], more[i])
        BY <2>1, <2>2, <2>3, Zenon DEF IsChain
      <3>2. e[0] = dev
        BY <2>2, Zenon DEF IsChain
      <3> QED
        BY <2>1, <3>1, <3>2, Zenon DEF IsChain
    <2>6. n \in 0..n
      BY <1>0
    <2>7. e[n] = c[n]
      <3>1. \A i \in 0..n : e[i] = c[i]
        BY <1>0, <1>1, <2>5, ChainUnique
      <3> QED
        BY <2>6, <3>1, Zenon
    <2> QED
      BY <1>1, <2>1, <2>2, <2>4, <2>7, Zenon DEF more
  <1>4. ASSUME box # <<>>
        PROVE  Fold(d, dev, box) = Fold(d, Step(d, dev, Head(box)), Tail(box))
    <2> DEFINE less == Tail(box)
               to == Step(d, dev, Head(box))
               e == [i \in 0..(n - 1) |-> c[i + 1]]
    <2>1. /\ less \in Seq(S) /\ Len(less) = n - 1 /\ n - 1 \in Nat /\ n >= 1
          /\ \A i \in 1..(n - 1) : less[i] = box[i + 1]
          /\ Head(box) = box[1]
      BY <1>4
    <2>2. \A i \in 0..(n - 1) : e[i] = c[i + 1]
      OBVIOUS
    <2> HIDE DEF less, e
    <2>3. e[0] = to
      <3>1. 0 \in 0..(n - 1) /\ 0 + 1 = 1 /\ 1 \in 1..n /\ 1 - 1 = 0
        BY <2>1
      <3>2. c[1] = Step(d, c[1 - 1], box[1]) /\ c[0] = dev
        BY <1>1, <3>1, Zenon DEF IsChain
      <3> QED
        BY <2>1, <2>2, <3>1, <3>2
    <2>4. ASSUME NEW i \in 1..(n - 1) PROVE e[i] = Step(d, e[i - 1], less[i])
      <3>1. i \in 0..(n - 1) /\ i - 1 \in 0..(n - 1) /\ i + 1 \in 1..n
            /\ (i + 1) - 1 = i /\ (i - 1) + 1 = i
        BY <2>1
      <3>2. c[i + 1] = Step(d, c[(i + 1) - 1], box[i + 1])
        BY <1>1, <3>1, Zenon DEF IsChain
      <3>3. e[i] = c[i + 1] /\ e[i - 1] = c[(i - 1) + 1]
        BY <2>2, <3>1, Zenon
      <3>4. less[i] = box[i + 1]
        BY <2>1, Zenon
      <3> QED
        BY <3>1, <3>2, <3>3, <3>4, Zenon
    <2>5. IsChain(e, d, to, less)
      BY <2>1, <2>3, <2>4, Zenon DEF IsChain
    <2> HIDE DEF to
    <2>6. PICK g : IsChain(g, d, to, less) /\ Fold(d, to, less) = g[Len(less)]
      <3>1. less \in Seq(S)
        BY <2>1
      <3> QED
        BY <3>1, FoldChain
    <2>7. n - 1 \in 0..(n - 1) /\ (n - 1) + 1 = n
      BY <2>1
    <2>8. g[n - 1] = e[n - 1]
      <3>1. Len(less) \in Nat
        BY <2>1
      <3>2. \A i \in 0..Len(less) : g[i] = e[i]
        BY <2>5, <2>6, <3>1, ChainUnique
      <3> QED
        BY <2>1, <2>7, <3>2, Zenon
    <2> QED
      BY <1>1, <2>1, <2>2, <2>6, <2>7, <2>8, Zenon DEF less, to
  <1> QED
    BY <1>3, <1>4

-----------------------------------------------------------------------------
(* The domains. *)

(* The domains that have commands. *)
LEMMA CommandDomainsAre ==
  CommandDomains =
      {"Switch", "Light", "Cover", "Fan", "Climate", "Number", "Select", "Text", "Button",
       "Lock", "MediaPlayer", "Siren", "AlarmControlPanel", "Date", "Time", "DateTime",
       "Valve", "Update", "WaterHeater"}
  BY DEF CommandDomains, EntityDomains, TypesOf

(* The message of a command with optional members O and plain members P: the  *)
(* flags of the members that are engaged, and the values.                     *)
Shape(m, O, P, c) ==
    /\ m.has = O \cap DOMAIN c
    /\ DOMAIN m.value = (O \cap DOMAIN c) \cup P
    /\ \A f \in DOMAIN m.value : m.value[f] = c[f]

(* The three ways of building a message. *)
LEMMA Shapes ==
  ASSUME NEW c, NEW O, NEW P
  PROVE  /\ Shape(Flagged(c, O), O, {}, c)
         /\ Shape(Always(c, P), {}, P, c)
         /\ Shape(Both(Flagged(c, O), Always(c, P)), O, P, c)
  <1>1. Shape(Flagged(c, O), O, {}, c)
    BY DEF Shape, Flagged
  <1>2. Shape(Always(c, P), {}, P, c)
    BY DEF Shape, Always
  <1>3. Shape(Both(Flagged(c, O), Always(c, P)), O, P, c)
    <2> DEFINE m == Flagged(c, O)
               n == Always(c, P)
               b == Both(m, n)
    <2>1. b.has = m.has \cup n.has /\ b.value = With(m.value, n.value)
      BY DEF Both
    <2>2. b.has = O \cap DOMAIN c
      BY <2>1 DEF Flagged, Always
    <2>3. /\ DOMAIN m.value = O \cap DOMAIN c /\ DOMAIN n.value = P
          /\ \A f \in O \cap DOMAIN c : m.value[f] = c[f]
          /\ \A f \in P : n.value[f] = c[f]
      BY DEF Flagged, Always
    <2> HIDE DEF m, n
    <2>4. b.value = [f \in DOMAIN m.value \cup DOMAIN n.value |->
                        IF f \in DOMAIN m.value THEN m.value[f] ELSE n.value[f]]
      BY <2>1 DEF With
    <2> HIDE DEF b
    <2>5. Shape(b, O, P, c)
      BY <2>2, <2>3, <2>4 DEF Shape
    <2> QED
      BY <2>5 DEF b, m, n
  <1> QED
    BY <1>1, <1>2, <1>3

(* to_message() of every domain but two. *)
LEMMA MessageShape ==
  ASSUME NEW d \in CommandDomains \ {"Light", "WaterHeater"}, NEW c
  PROVE  Shape(to_message(d, c), TypesOf[d].optional, TypesOf[d].plain, c)
  <1>1. CASE d = "Switch"
    <2>1. TypesOf[d] = SwitchTypes
      BY <1>1 DEF TypesOf
    <2>2. to_message(d, c) = switch_to_message(c)
      BY <1>1 DEF to_message
    <2>3. Shape(switch_to_message(c), SwitchTypes.optional, SwitchTypes.plain, c)
      BY Shapes DEF switch_to_message, SwitchTypes, Types
    <2> QED
      BY <2>1, <2>2, <2>3, Zenon
  <1>2. CASE d = "Cover"
    <2>1. TypesOf[d] = CoverTypes
      BY <1>2 DEF TypesOf
    <2>2. to_message(d, c) = cover_to_message(c)
      BY <1>2 DEF to_message
    <2>3. Shape(cover_to_message(c), CoverTypes.optional, CoverTypes.plain, c)
      BY Shapes DEF cover_to_message, CoverTypes, Types
    <2> QED
      BY <2>1, <2>2, <2>3, Zenon
  <1>3. CASE d = "Fan"
    <2>1. TypesOf[d] = FanTypes
      BY <1>3 DEF TypesOf
    <2>2. to_message(d, c) = fan_to_message(c)
      BY <1>3 DEF to_message
    <2>3. Shape(fan_to_message(c), FanTypes.optional, FanTypes.plain, c)
      BY Shapes DEF fan_to_message, FanTypes, Types
    <2> QED
      BY <2>1, <2>2, <2>3, Zenon
  <1>4. CASE d = "Climate"
    <2>1. TypesOf[d] = ClimateTypes
      BY <1>4 DEF TypesOf
    <2>2. to_message(d, c) = climate_to_message(c)
      BY <1>4 DEF to_message
    <2>3. Shape(climate_to_message(c), ClimateTypes.optional, ClimateTypes.plain, c)
      BY Shapes DEF climate_to_message, ClimateTypes, Types
    <2> QED
      BY <2>1, <2>2, <2>3, Zenon
  <1>5. CASE d = "Number"
    <2>1. TypesOf[d] = NumberTypes
      BY <1>5 DEF TypesOf
    <2>2. to_message(d, c) = number_to_message(c)
      BY <1>5 DEF to_message
    <2>3. Shape(number_to_message(c), NumberTypes.optional, NumberTypes.plain, c)
      BY Shapes DEF number_to_message, NumberTypes, Types
    <2> QED
      BY <2>1, <2>2, <2>3, Zenon
  <1>6. CASE d = "Select"
    <2>1. TypesOf[d] = SelectTypes
      BY <1>6 DEF TypesOf
    <2>2. to_message(d, c) = select_to_message(c)
      BY <1>6 DEF to_message
    <2>3. Shape(select_to_message(c), SelectTypes.optional, SelectTypes.plain, c)
      BY Shapes DEF select_to_message, SelectTypes, Types
    <2> QED
      BY <2>1, <2>2, <2>3, Zenon
  <1>7. CASE d = "Text"
    <2>1. TypesOf[d] = TextTypes
      BY <1>7 DEF TypesOf
    <2>2. to_message(d, c) = text_to_message(c)
      BY <1>7 DEF to_message
    <2>3. Shape(text_to_message(c), TextTypes.optional, TextTypes.plain, c)
      BY Shapes DEF text_to_message, TextTypes, Types
    <2> QED
      BY <2>1, <2>2, <2>3, Zenon
  <1>8. CASE d = "Button"
    <2>1. TypesOf[d] = ButtonTypes
      BY <1>8 DEF TypesOf
    <2>2. to_message(d, c) = button_to_message(c)
      BY <1>8 DEF to_message
    <2>3. Shape(button_to_message(c), ButtonTypes.optional, ButtonTypes.plain, c)
      BY Shapes DEF button_to_message, ButtonTypes, Types
    <2> QED
      BY <2>1, <2>2, <2>3, Zenon
  <1>9. CASE d = "Lock"
    <2>1. TypesOf[d] = LockTypes
      BY <1>9 DEF TypesOf
    <2>2. to_message(d, c) = lock_to_message(c)
      BY <1>9 DEF to_message
    <2>3. Shape(lock_to_message(c), LockTypes.optional, LockTypes.plain, c)
      BY Shapes DEF lock_to_message, LockTypes, Types
    <2> QED
      BY <2>1, <2>2, <2>3, Zenon
  <1>10. CASE d = "MediaPlayer"
    <2>1. TypesOf[d] = MediaPlayerTypes
      BY <1>10 DEF TypesOf
    <2>2. to_message(d, c) = media_player_to_message(c)
      BY <1>10 DEF to_message
    <2>3. Shape(media_player_to_message(c), MediaPlayerTypes.optional, MediaPlayerTypes.plain, c)
      BY Shapes DEF media_player_to_message, MediaPlayerTypes, Types
    <2> QED
      BY <2>1, <2>2, <2>3, Zenon
  <1>11. CASE d = "Siren"
    <2>1. TypesOf[d] = SirenTypes
      BY <1>11 DEF TypesOf
    <2>2. to_message(d, c) = siren_to_message(c)
      BY <1>11 DEF to_message
    <2>3. Shape(siren_to_message(c), SirenTypes.optional, SirenTypes.plain, c)
      BY Shapes DEF siren_to_message, SirenTypes, Types
    <2> QED
      BY <2>1, <2>2, <2>3, Zenon
  <1>12. CASE d = "AlarmControlPanel"
    <2>1. TypesOf[d] = AlarmControlPanelTypes
      BY <1>12 DEF TypesOf
    <2>2. to_message(d, c) = alarm_control_panel_to_message(c)
      BY <1>12 DEF to_message
    <2>3. Shape(alarm_control_panel_to_message(c),
                AlarmControlPanelTypes.optional, AlarmControlPanelTypes.plain, c)
      BY Shapes DEF alarm_control_panel_to_message, AlarmControlPanelTypes, Types
    <2> QED
      BY <2>1, <2>2, <2>3, Zenon
  <1>13. CASE d = "Date"
    <2>1. TypesOf[d] = DateTypes
      BY <1>13 DEF TypesOf
    <2>2. to_message(d, c) = date_to_message(c)
      BY <1>13 DEF to_message
    <2>3. Shape(date_to_message(c), DateTypes.optional, DateTypes.plain, c)
      BY Shapes DEF date_to_message, DateTypes, Types
    <2> QED
      BY <2>1, <2>2, <2>3, Zenon
  <1>14. CASE d = "Time"
    <2>1. TypesOf[d] = TimeTypes
      BY <1>14 DEF TypesOf
    <2>2. to_message(d, c) = time_to_message(c)
      BY <1>14 DEF to_message
    <2>3. Shape(time_to_message(c), TimeTypes.optional, TimeTypes.plain, c)
      BY Shapes DEF time_to_message, TimeTypes, Types
    <2> QED
      BY <2>1, <2>2, <2>3, Zenon
  <1>15. CASE d = "DateTime"
    <2>1. TypesOf[d] = DateTimeTypes
      BY <1>15 DEF TypesOf
    <2>2. to_message(d, c) = datetime_to_message(c)
      BY <1>15 DEF to_message
    <2>3. Shape(datetime_to_message(c), DateTimeTypes.optional, DateTimeTypes.plain, c)
      BY Shapes DEF datetime_to_message, DateTimeTypes, Types
    <2> QED
      BY <2>1, <2>2, <2>3, Zenon
  <1>16. CASE d = "Valve"
    <2>1. TypesOf[d] = ValveTypes
      BY <1>16 DEF TypesOf
    <2>2. to_message(d, c) = valve_to_message(c)
      BY <1>16 DEF to_message
    <2>3. Shape(valve_to_message(c), ValveTypes.optional, ValveTypes.plain, c)
      BY Shapes DEF valve_to_message, ValveTypes, Types
    <2> QED
      BY <2>1, <2>2, <2>3, Zenon
  <1>17. CASE d = "Update"
    <2>1. TypesOf[d] = UpdateTypes
      BY <1>17 DEF TypesOf
    <2>2. to_message(d, c) = update_to_message(c)
      BY <1>17 DEF to_message
    <2>3. Shape(update_to_message(c), UpdateTypes.optional, UpdateTypes.plain, c)
      BY Shapes DEF update_to_message, UpdateTypes, Types
    <2> QED
      BY <2>1, <2>2, <2>3, Zenon
  <1> QED
    BY <1>1, <1>2, <1>3, <1>4, <1>5, <1>6, <1>7, <1>8, <1>9, <1>10, <1>11, <1>12, <1>13,
       <1>14, <1>15, <1>16, <1>17, CommandDomainsAre

(* A command of domain d: its plain members are there, the others may be. *)
IsCommand(d, c) ==
    /\ TypesOf[d].plain \subseteq DOMAIN c
    /\ DOMAIN c \subseteq TypesOf[d].optional \cup TypesOf[d].plain
    /\ d = "WaterHeater" => \A f \in DOMAIN c \cap {"on_state", "away_state"} : c[f] \in {0, 1}

(* The tables of the domains that have no members of their own kind. *)
LEMMA PlainTables ==
  ASSUME NEW d \in CommandDomains \ {"Light", "WaterHeater"}
  PROVE  /\ TypesOf[d].optional \cap TypesOf[d].plain = {}
         /\ "rgb" \notin TypesOf[d].optional \cup TypesOf[d].plain
  <1>1. CASE d = "Switch"
    <2>1. TypesOf[d] = SwitchTypes
      BY <1>1 DEF TypesOf
    <2> QED
      BY <2>1 DEF SwitchTypes, Types
  <1>2. CASE d = "Cover"
    <2>1. TypesOf[d] = CoverTypes
      BY <1>2 DEF TypesOf
    <2> QED
      BY <2>1 DEF CoverTypes, Types
  <1>3. CASE d = "Fan"
    <2>1. TypesOf[d] = FanTypes
      BY <1>3 DEF TypesOf
    <2> QED
      BY <2>1 DEF FanTypes, Types
  <1>4. CASE d = "Climate"
    <2>1. TypesOf[d] = ClimateTypes
      BY <1>4 DEF TypesOf
    <2> QED
      BY <2>1 DEF ClimateTypes, Types
  <1>5. CASE d = "Number"
    <2>1. TypesOf[d] = NumberTypes
      BY <1>5 DEF TypesOf
    <2> QED
      BY <2>1 DEF NumberTypes, Types
  <1>6. CASE d = "Select"
    <2>1. TypesOf[d] = SelectTypes
      BY <1>6 DEF TypesOf
    <2> QED
      BY <2>1 DEF SelectTypes, Types
  <1>7. CASE d = "Text"
    <2>1. TypesOf[d] = TextTypes
      BY <1>7 DEF TypesOf
    <2> QED
      BY <2>1 DEF TextTypes, Types
  <1>8. CASE d = "Button"
    <2>1. TypesOf[d] = ButtonTypes
      BY <1>8 DEF TypesOf
    <2> QED
      BY <2>1 DEF ButtonTypes, Types
  <1>9. CASE d = "Lock"
    <2>1. TypesOf[d] = LockTypes
      BY <1>9 DEF TypesOf
    <2> QED
      BY <2>1 DEF LockTypes, Types
  <1>10. CASE d = "MediaPlayer"
    <2>1. TypesOf[d] = MediaPlayerTypes
      BY <1>10 DEF TypesOf
    <2> QED
      BY <2>1 DEF MediaPlayerTypes, Types
  <1>11. CASE d = "Siren"
    <2>1. TypesOf[d] = SirenTypes
      BY <1>11 DEF TypesOf
    <2> QED
      BY <2>1 DEF SirenTypes, Types
  <1>12. CASE d = "AlarmControlPanel"
    <2>1. TypesOf[d] = AlarmControlPanelTypes
      BY <1>12 DEF TypesOf
    <2> QED
      BY <2>1 DEF AlarmControlPanelTypes, Types
  <1>13. CASE d = "Date"
    <2>1. TypesOf[d] = DateTypes
      BY <1>13 DEF TypesOf
    <2> QED
      BY <2>1 DEF DateTypes, Types
  <1>14. CASE d = "Time"
    <2>1. TypesOf[d] = TimeTypes
      BY <1>14 DEF TypesOf
    <2> QED
      BY <2>1 DEF TimeTypes, Types
  <1>15. CASE d = "DateTime"
    <2>1. TypesOf[d] = DateTimeTypes
      BY <1>15 DEF TypesOf
    <2> QED
      BY <2>1 DEF DateTimeTypes, Types
  <1>16. CASE d = "Valve"
    <2>1. TypesOf[d] = ValveTypes
      BY <1>16 DEF TypesOf
    <2> QED
      BY <2>1 DEF ValveTypes, Types
  <1>17. CASE d = "Update"
    <2>1. TypesOf[d] = UpdateTypes
      BY <1>17 DEF TypesOf
    <2> QED
      BY <2>1 DEF UpdateTypes, Types
  <1> QED
    BY <1>1, <1>2, <1>3, <1>4, <1>5, <1>6, <1>7, <1>8, <1>9, <1>10, <1>11, <1>12, <1>13,
       <1>14, <1>15, <1>16, <1>17, CommandDomainsAre

(* The device does what the command says. *)
LEMMA PlainApplies ==
  ASSUME NEW d \in CommandDomains \ {"Light", "WaterHeater"}, NEW c, IsCommand(d, c),
         NEW fields, DOMAIN fields = Targets(d)
  PROVE  Applies(d, fields, to_message(d, c)) = Asks(fields, c)
  <1> DEFINE O == TypesOf[d].optional
             P == TypesOf[d].plain
             m == to_message(d, c)
             a == Applies(d, fields, m)
             b == Asks(fields, c)
  <1>1. Shape(m, O, P, c)
    BY MessageShape
  <1>2. O \cap P = {} /\ "rgb" \notin O \cup P
    BY PlainTables
  <1>3. P \subseteq DOMAIN c /\ DOMAIN c \subseteq O \cup P
    BY DEF IsCommand
  <1>4. d # "Light" /\ d # "WaterHeater" /\ DOMAIN fields = O \cup P
    BY DEF Targets
  <1>5. a = [f \in DOMAIN fields |-> IF f \in O /\ f \notin m.has THEN fields[f]
                                     ELSE IF f \in DOMAIN m.value THEN m.value[f] ELSE 0]
    BY <1>4 DEF Applies
  <1>6. b = [f \in DOMAIN fields |-> IF f \in DOMAIN c THEN c[f] ELSE fields[f]]
    <2>1. "rgb" \notin DOMAIN c
      BY <1>2, <1>3
    <2> QED
      BY <2>1 DEF Asks
  <1> HIDE DEF O, P, m, a, b
  <1>7. ASSUME NEW f \in DOMAIN fields
        PROVE  (IF f \in O /\ f \notin m.has THEN fields[f]
                ELSE IF f \in DOMAIN m.value THEN m.value[f] ELSE 0)
               = IF f \in DOMAIN c THEN c[f] ELSE fields[f]
    BY <1>1, <1>2, <1>3, <1>4 DEF Shape
  <1>8. a = b
    BY <1>5, <1>6, <1>7, Zenon
  <1> QED
    BY <1>8 DEF a, b, m

LightMembers == {"state", "brightness", "color_mode", "color_brightness", "white",
                 "color_temperature", "cold_white", "warm_white",
                 "transition_length", "flash_length", "effect"}

(* The light, with one flag for the three channels. *)
LEMMA LightApplies ==
  ASSUME NEW c, IsCommand("Light", c), NEW fields, DOMAIN fields = Targets("Light")
  PROVE  Applies("Light", fields, to_message("Light", c)) = Asks(fields, c)
  <1> DEFINE O == TypesOf["Light"].optional
             m == to_message("Light", c)
             a == Applies("Light", fields, m)
             b == Asks(fields, c)
             rgb == [red |-> c.rgb[1], green |-> c.rgb[2], blue |-> c.rgb[3]]
  <1>1. TypesOf["Light"] = LightTypes
    BY DEF TypesOf
  <1>2. O = LightMembers \cup {"rgb"} /\ TypesOf["Light"].plain = {}
    BY <1>1 DEF LightTypes, Types, LightMembers
  <1>3. DOMAIN c \subseteq LightMembers \cup {"rgb"}
    BY <1>2 DEF IsCommand
  <1>4. DOMAIN fields = LightMembers \cup Channels
    <2>1. "rgb" \notin LightMembers
      BY DEF LightMembers
    <2> QED
      BY <1>2, <2>1 DEF Targets
  <1>5. LightMembers \cap (Channels \cup {"rgb"}) = {} /\ "rgb" \notin Channels
    BY DEF LightMembers, Channels
  <1> DEFINE F == Flagged(c, LightMembers)
             R == IF "rgb" \in DOMAIN c THEN [has |-> {"rgb"}, value |-> rgb]
                                        ELSE [has |-> {}, value |-> <<>>]
  <1>6. m = Both(F, R)
    BY DEF to_message, light_to_message, LightMembers
  <1>7. Shape(F, LightMembers, {}, c)
    BY Shapes
  <1>8. /\ R.has = DOMAIN c \cap {"rgb"}
        /\ DOMAIN R.value = IF "rgb" \in DOMAIN c THEN Channels ELSE {}
        /\ "rgb" \in DOMAIN c => R.value = rgb
    <2>1. CASE "rgb" \in DOMAIN c
      BY <2>1 DEF Channels
    <2>2. CASE "rgb" \notin DOMAIN c
      <3>1. R.value = <<>> /\ R.has = {}
        BY <2>2
      <3>2. DOMAIN <<>> = {}
        OBVIOUS
      <3> QED
        BY <2>2, <3>1, <3>2
    <2> QED
      BY <2>1, <2>2
  <1> HIDE DEF F, R
  <1>9. /\ m.has = F.has \cup R.has
        /\ m.value = [f \in DOMAIN F.value \cup DOMAIN R.value |->
                         IF f \in DOMAIN F.value THEN F.value[f] ELSE R.value[f]]
    BY <1>6 DEF Both, With
  <1>10. a = [f \in DOMAIN fields |->
                 IF f \in Channels
                 THEN IF "rgb" \notin m.has THEN fields[f]
                      ELSE IF f \in DOMAIN m.value THEN m.value[f] ELSE 0
                 ELSE IF f \in O /\ f \notin m.has THEN fields[f]
                      ELSE IF f \in DOMAIN m.value THEN m.value[f] ELSE 0]
    <2>1. "rgb" \in O
      BY <1>2
    <2> HIDE DEF m, O
    <2> QED
      BY <2>1 DEF Applies, O
  <1> HIDE DEF m, a, O
  <1>11. ASSUME NEW f \in LightMembers
         PROVE  a[f] = b[f]
    <2>1. a[f] = IF f \notin m.has THEN fields[f]
                 ELSE IF f \in DOMAIN m.value THEN m.value[f] ELSE 0
      BY <1>2, <1>4, <1>5, <1>10
    <2>2. f \in m.has <=> f \in DOMAIN c
      BY <1>5, <1>7, <1>8, <1>9 DEF Shape
    <2>3. f \in DOMAIN c => f \in DOMAIN m.value /\ m.value[f] = c[f]
      BY <1>7, <1>9 DEF Shape
    <2>4. b[f] = IF f \in DOMAIN c THEN c[f] ELSE fields[f]
      <3>1. f \in DOMAIN fields /\ f # "red" /\ f # "green" /\ f # "blue"
        BY <1>4, <1>5 DEF Channels
      <3> QED
        BY <3>1 DEF Asks
    <2> QED
      BY <2>1, <2>2, <2>3, <2>4
  <1>12. ASSUME NEW f \in Channels
         PROVE  a[f] = b[f]
    <2>1. a[f] = IF "rgb" \notin m.has THEN fields[f]
                 ELSE IF f \in DOMAIN m.value THEN m.value[f] ELSE 0
      BY <1>4, <1>10
    <2>2. "rgb" \in m.has <=> "rgb" \in DOMAIN c
      BY <1>5, <1>7, <1>8, <1>9 DEF Shape
    <2>3. f \notin DOMAIN c /\ f \notin DOMAIN F.value
      BY <1>3, <1>5, <1>7 DEF Shape
    <2>4. "rgb" \in DOMAIN c => f \in DOMAIN m.value /\ m.value[f] = rgb[f]
      BY <1>8, <1>9, <2>3
    <2>5. b[f] = IF "rgb" \in DOMAIN c THEN rgb[f] ELSE fields[f]
      BY <1>4, <2>3 DEF Asks, Channels
    <2> QED
      BY <2>1, <2>2, <2>4, <2>5
  <1>13. a = [f \in DOMAIN fields |-> a[f]] /\ b = [f \in DOMAIN fields |-> b[f]]
    BY <1>10 DEF Asks
  <1> HIDE DEF b
  <1>14. a = b
    BY <1>4, <1>11, <1>12, <1>13, Zenon
  <1> QED
    BY <1>14 DEF a, b, m

(* Six bits of a number. *)
LEMMA SixBits ==
  ASSUME NEW a \in {0, 1}, NEW b \in {0, 1}, NEW c \in {0, 1}, NEW d \in {0, 1},
         NEW e \in {0, 1}, NEW f \in {0, 1}
  PROVE  LET n == a + 2 * b + 8 * c + 16 * d + 32 * e + 64 * f
         IN  /\ BitSet(n, 1) <=> a = 1
             /\ BitSet(n, 2) <=> b = 1
             /\ BitSet(n, 8) <=> c = 1
             /\ BitSet(n, 16) <=> d = 1
             /\ BitSet(n, 32) <=> e = 1
             /\ BitSet(n, 64) <=> f = 1
  BY DEF BitSet

WaterHeaterMembers == {"mode", "target_temperature", "target_temperature_low",
                       "target_temperature_high", "on_state", "away_state"}

(* The flags of a water heater are the bits of a sum. *)
LEMMA FlagBits ==
  ASSUME NEW members, NEW f \in WaterHeaterMembers
  PROVE  BitSet(SumBits(members), HasBit[f]) <=> f \in members
  <1> DEFINE x(g) == IF g \in members THEN 1 ELSE 0
             a == x("mode")
             b == x("target_temperature")
             c == x("target_temperature_low")
             d == x("target_temperature_high")
             e == x("on_state")
             h == x("away_state")
             n == a + 2 * b + 8 * c + 16 * d + 32 * e + 64 * h
  <1>1. /\ a \in {0, 1} /\ b \in {0, 1} /\ c \in {0, 1} /\ d \in {0, 1} /\ e \in {0, 1}
        /\ h \in {0, 1}
    OBVIOUS
  <1>2. SumBits(members) = n
    BY DEF SumBits, HasBit
  <1>3. /\ BitSet(n, 1) <=> a = 1
        /\ BitSet(n, 2) <=> b = 1
        /\ BitSet(n, 8) <=> c = 1
        /\ BitSet(n, 16) <=> d = 1
        /\ BitSet(n, 32) <=> e = 1
        /\ BitSet(n, 64) <=> h = 1
    <2> HIDE DEF a, b, c, d, e, h
    <2> QED
      BY <1>1, SixBits
  <1> HIDE DEF n
  <1>4. /\ HasBit["mode"] = 1 /\ HasBit["target_temperature"] = 2
        /\ HasBit["target_temperature_low"] = 8 /\ HasBit["target_temperature_high"] = 16
        /\ HasBit["on_state"] = 32 /\ HasBit["away_state"] = 64
    BY DEF HasBit
  <1> QED
    BY <1>2, <1>3, <1>4 DEF WaterHeaterMembers

(* Two bits. *)
LEMMA TwoBits ==
  ASSUME NEW a \in {0, 1}, NEW b \in {0, 1}
  PROVE  ((2 * a + b) \div 2) % 2 = a /\ (2 * a + b) % 2 = b
  OBVIOUS

(* The water heater, whose flags and switches are bits. *)
LEMMA WaterHeaterApplies ==
  ASSUME NEW c, IsCommand("WaterHeater", c), NEW fields,
         DOMAIN fields = Targets("WaterHeater")
  PROVE  Applies("WaterHeater", fields, to_message("WaterHeater", c)) = Asks(fields, c)
  <1> DEFINE m == to_message("WaterHeater", c)
             a == Applies("WaterHeater", fields, m)
             b == Asks(fields, c)
             on == IF "on_state" \in DOMAIN c THEN c.on_state ELSE 0
             away == IF "away_state" \in DOMAIN c THEN c.away_state ELSE 0
             plain == DOMAIN c \ {"on_state", "away_state"}
             p == [f \in plain |-> c[f]]
             q == [has_fields |-> SumBits(DOMAIN c), state |-> 2 * on + away]
  <1>1. TypesOf["WaterHeater"] = WaterHeaterTypes
    BY DEF TypesOf
  <1>2. TypesOf["WaterHeater"].optional = WaterHeaterMembers /\ TypesOf["WaterHeater"].plain = {}
    BY <1>1 DEF WaterHeaterTypes, Types, WaterHeaterMembers
  <1>3. DOMAIN c \subseteq WaterHeaterMembers /\ DOMAIN fields = WaterHeaterMembers
    BY <1>2 DEF IsCommand, Targets
  <1>4. on \in {0, 1} /\ away \in {0, 1}
    BY DEF IsCommand
  <1>5. m.value = With(p, q)
    BY DEF to_message, water_heater_to_message
  <1>6. /\ "has_fields" \notin WaterHeaterMembers /\ "state" \notin WaterHeaterMembers
        /\ "rgb" \notin WaterHeaterMembers /\ Channels \cap WaterHeaterMembers = {}
    BY DEF WaterHeaterMembers, Channels
  <1>7. /\ DOMAIN p = plain /\ DOMAIN q = {"has_fields", "state"}
        /\ \A f \in plain : p[f] = c[f]
        /\ q["has_fields"] = SumBits(DOMAIN c) /\ q["state"] = 2 * on + away
    OBVIOUS
  <1> HIDE DEF p, q
  <1>8. /\ m.value["has_fields"] = SumBits(DOMAIN c) /\ m.value["state"] = 2 * on + away
        /\ \A f \in plain : m.value[f] = c[f]
    <2>1. m.value = [x \in DOMAIN p \cup DOMAIN q |->
                        IF x \in DOMAIN p THEN p[x] ELSE q[x]]
      BY <1>5 DEF With
    <2> HIDE DEF m
    <2>2. "has_fields" \notin plain /\ "state" \notin plain
      BY <1>3, <1>6
    <2>3. DOMAIN p \cup DOMAIN q = plain \cup {"has_fields", "state"}
      BY <1>7
    <2>4. \A x \in plain \cup {"has_fields", "state"} :
             m.value[x] = IF x \in plain THEN p[x] ELSE q[x]
      BY <1>7, <2>1, <2>3
    <2> HIDE DEF plain, on, away
    <2>5. m.value["has_fields"] = q["has_fields"] /\ m.value["state"] = q["state"]
      BY <2>2, <2>4
    <2>6. \A f \in plain : m.value[f] = p[f]
      BY <2>4
    <2> QED
      BY <1>7, <2>5, <2>6
  <1>9. a = [f \in WaterHeaterMembers |->
                IF ~BitSet(m.value["has_fields"], HasBit[f]) THEN fields[f]
                ELSE CASE f = "on_state" -> (m.value["state"] \div 2) % 2
                       [] f = "away_state" -> m.value["state"] % 2
                       [] OTHER -> m.value[f]]
    BY <1>3 DEF Applies, water_heater_applies
  <1>10. b = [f \in WaterHeaterMembers |-> IF f \in DOMAIN c THEN c[f] ELSE fields[f]]
    BY <1>3, <1>6 DEF Asks, Channels
  <1>11. (m.value["state"] \div 2) % 2 = on /\ m.value["state"] % 2 = away
    <2> HIDE DEF on, away, m
    <2> QED
      BY <1>4, <1>8, TwoBits
  <1> HIDE DEF m, a, b
  <1>12. ASSUME NEW f \in WaterHeaterMembers PROVE a[f] = b[f]
    <2>1. BitSet(m.value["has_fields"], HasBit[f]) <=> f \in DOMAIN c
      BY <1>8, FlagBits
    <2>2. b[f] = IF f \in DOMAIN c THEN c[f] ELSE fields[f]
      BY <1>10
    <2>3. CASE f \notin DOMAIN c
      BY <1>9, <2>1, <2>2, <2>3
    <2>4. CASE f \in DOMAIN c /\ f = "on_state"
      BY <1>9, <1>11, <2>1, <2>2, <2>4
    <2>5. CASE f \in DOMAIN c /\ f = "away_state"
      BY <1>9, <1>11, <2>1, <2>2, <2>5
    <2>6. CASE f \in plain
      BY <1>8, <1>9, <2>1, <2>2, <2>6
    <2> QED
      BY <2>3, <2>4, <2>5, <2>6
  <1>13. a = [f \in WaterHeaterMembers |-> a[f]] /\ b = [f \in WaterHeaterMembers |-> b[f]]
    BY <1>9, <1>10
  <1>14. a = b
    BY <1>12, <1>13, Zenon
  <1> QED
    BY <1>14 DEF a, b, m

(* to_message() and the device, for every domain: the members that the        *)
(* command engages change, and nothing else.                                  *)
LEMMA AppliesAsks ==
  ASSUME NEW d \in CommandDomains, NEW c, IsCommand(d, c), NEW fields,
         DOMAIN fields = Targets(d)
  PROVE  Applies(d, fields, to_message(d, c)) = Asks(fields, c)
  <1>1. CASE d = "Light"
    BY <1>1, LightApplies
  <1>2. CASE d = "WaterHeater"
    BY <1>2, WaterHeaterApplies
  <1>3. CASE d \notin {"Light", "WaterHeater"}
    <2>1. d \in CommandDomains \ {"Light", "WaterHeater"}
      BY <1>3
    <2> QED
      BY <2>1, PlainApplies, Zenon
  <1> QED
    BY <1>1, <1>2, <1>3
-----------------------------------------------------------------------------
(* What was typed. *)

NumberToken(t) ==
    /\ t.kind \in {"integer", "decimal"} => t.n \in Int
    /\ t.kind = "percent" => (t.of.kind \in {"integer", "decimal"} => t.of.n \in Int)

Values == Int \cup {Bad, NaN, Infinity, MinusInfinity}

IsList(p) ==
    /\ Len(p) \in Nat /\ DOMAIN p = 1..Len(p)
    /\ \A i \in DOMAIN p : NumberToken(p[i])

IsToken(t) == NumberToken(t) /\ (t.kind = "list" => IsList(t.parts))

AreTokens(values) ==
    /\ Len(values) \in Nat /\ DOMAIN values = 1..Len(values)
    /\ \A i \in DOMAIN values : IsToken(values[i])
    /\ values # <<>> => 1 \in DOMAIN values

(* The tokens that the model tries. *)
LEMMA TokensAre ==
  /\ \A t \in Tokens : IsToken(t)
  /\ \A values \in Triples : AreTokens(values)
  <1>1. \A n \in Int : /\ Integer(n).kind = "integer" /\ Integer(n).n = n
                       /\ IsToken(Integer(n)) /\ NumberToken(Integer(n))
    BY DEF Integer, IsToken, NumberToken
  <1>2. \A w : IsToken(Word(w))
    BY DEF Word, IsToken, NumberToken
  <1>3. ASSUME NEW t \in Numbers PROVE IsToken(t)
    <2>1. CASE t \in {Integer(n) : n \in {-1, 0, 1, IntLimit, 2 * IntLimit + 1}}
      <3>1. PICK n \in {-1, 0, 1, IntLimit, 2 * IntLimit + 1} : t = Integer(n)
        BY <2>1
      <3>2. n \in Int
        BY CliAssumption
      <3> QED
        BY <1>1, <3>1, <3>2
    <2>2. CASE t \in {[kind |-> "decimal", n |-> 1], Percent(Integer(50)),
                      Percent(Integer(150)), Percent(Word("nan"))}
      BY <2>2 DEF IsToken, NumberToken, Percent, Integer, Word
    <2> QED
      BY <2>1, <2>2 DEF Numbers
  <1>4. ASSUME NEW a, NEW b, NEW c,
               \A t \in {a, b, c} : IsToken(t) /\ NumberToken(t)
        PROVE  IsList(<<a, b, c>>) /\ AreTokens(<<a, b, c>>)
    <2> DEFINE p == <<a, b, c>>
    <2>1. Len(p) = 3 /\ DOMAIN p = 1..3
      OBVIOUS
    <2>2. p[1] = a /\ p[2] = b /\ p[3] = c
      OBVIOUS
    <2> HIDE DEF p
    <2>3. \A i \in 1..3 : IsToken(p[i]) /\ NumberToken(p[i])
      BY <1>4, <2>2
    <2>4. IsList(p) /\ AreTokens(p)
      BY <2>1, <2>3 DEF IsList, AreTokens
    <2> QED
      BY <2>4 DEF p
  <1>5. IsList(<<Integer(7), Integer(5)>>)
    <2> DEFINE p == <<Integer(7), Integer(5)>>
    <2>1. Len(p) = 2 /\ DOMAIN p = 1..2
      OBVIOUS
    <2>2. p[1] = Integer(7) /\ p[2] = Integer(5)
      OBVIOUS
    <2> HIDE DEF p
    <2>3. \A i \in 1..2 : NumberToken(p[i])
      BY <1>1, <2>2
    <2>4. IsList(p)
      BY <2>1, <2>3 DEF IsList
    <2> QED
      BY <2>4 DEF p
  <1>6. \A p \in Triples : IsList(p) /\ AreTokens(p)
    <2>1. \A w : NumberToken(Word(w))
      BY DEF Word, NumberToken
    <2> QED
      BY <1>1, <1>2, <1>4, <2>1 DEF Triples
  <1>7. ASSUME NEW p, IsList(p) PROVE IsToken(List(p))
    <2>1. List(p).kind = "list" /\ List(p).parts = p
      BY DEF List
    <2> QED
      BY <1>7, <2>1 DEF IsToken, NumberToken
  <1>8. ASSUME NEW t \in Tokens PROVE IsToken(t)
    <2>1. CASE t \in Numbers
      BY <1>3, <2>1
    <2>2. CASE t \in {Word(w) : w \in {"on", "off", "heat", "nan", "inf", "-inf"}}
      BY <1>2, <2>2
    <2>3. CASE t \in {List(p) : p \in Triples \cup {<<Integer(7), Integer(5)>>}}
      BY <1>5, <1>6, <1>7, <2>3
    <2> QED
      BY <2>1, <2>2, <2>3 DEF Tokens
  <1> QED
    BY <1>6, <1>8

(* A value that a parser does not refuse has its range, or is NaN. *)
LEMMA Parsed ==
  ASSUME NEW t, IsToken(t)
  PROVE  /\ parse_uint(t) = Bad \/ parse_uint(t) \in Nat
         /\ parse_percent_or_unit(t) = Bad \/ parse_percent_or_unit(t) \in Limited
         /\ parse_component(t) = Bad \/ parse_component(t) \in Limited
  <1>1. \A x \in Values : Clamp(x) = Bad \/ Clamp(x) \in Limited
    BY UnitAssumption, CliAssumption DEF Clamp, IsFinite, Values, Limited
  <1>2. \A x \in Values : \A n \in Nat \ {0} : Divided(x, n) \in Values
    BY DEF Divided, IsFinite, Values
  <1>3. ASSUME NEW u, u.kind \in {"integer", "decimal"} => u.n \in Int
        PROVE  parse_float(u) \in Values
    BY <1>3, UnitAssumption DEF parse_float, Values
  <1>4. parse_float(t) \in Values
    BY <1>3 DEF IsToken, NumberToken
  <1>5. \A n \in Int : ToInt32(n) \in Int
    BY CliAssumption DEF ToInt32
  <1>6. parse_int(t) = Bad \/ parse_int(t) \in Int
    BY <1>5 DEF parse_int, IsToken, NumberToken
  <1>7. parse_uint(t) = Bad \/ parse_uint(t) \in Nat
    BY <1>6 DEF parse_uint
  <1>8. parse_percent_or_unit(t) = Bad \/ parse_percent_or_unit(t) \in Limited
    <2>1. CASE t.kind = "percent"
      <3>1. parse_float(t.of) \in Values
        BY <1>3, <2>1 DEF IsToken, NumberToken
      <3>2. percent_value(t) \in Values
        BY <1>2, <2>1, <3>1 DEF percent_value
      <3> QED
        BY <1>1, <3>2 DEF parse_percent_or_unit
    <2>2. CASE t.kind # "percent"
      BY <1>1, <1>4, <2>2 DEF parse_percent_or_unit, percent_value
    <2> QED
      BY <2>1, <2>2
  <1>9. parse_component(t) = Bad \/ parse_component(t) \in Limited
    <2> DEFINE v == parse_float(t)
               above == IF IsFinite(v) THEN v > Unit ELSE v = Infinity
    <2>1. parse_component(t) = Clamp(IF above THEN Divided(v, 255) ELSE v)
      BY DEF parse_component
    <2>2. Divided(v, 255) \in Values /\ v \in Values
      BY <1>2, <1>4
    <2> HIDE DEF v, above
    <2> QED
      BY <1>1, <2>1, <2>2
  <1> QED
    BY <1>7, <1>8, <1>9

(* Three components. *)
LEMMA ParsedRgb ==
  ASSUME NEW values, AreTokens(values), parse_rgb(values) # Bad
  PROVE  \A i \in 1..3 : parse_rgb(values)[i] \in Limited
  <1> DEFINE parts == IF Len(values) = 1 /\ values[1].kind = "list" THEN values[1].parts
                                                                    ELSE values
             comp == [i \in DOMAIN parts |-> parse_component(parts[i])]
  <1>1. /\ Len(parts) \in Nat /\ DOMAIN parts = 1..Len(parts)
        /\ \A i \in DOMAIN parts : NumberToken(parts[i])
    <2>1. CASE Len(values) = 1 /\ values[1].kind = "list"
      <3>1. IsToken(values[1]) /\ parts = values[1].parts
        BY <2>1 DEF AreTokens
      <3>2. IsList(parts)
        BY <2>1, <3>1 DEF IsToken
      <3> QED
        BY <3>2 DEF IsList
    <2>2. CASE ~(Len(values) = 1 /\ values[1].kind = "list")
      <3>1. parts = values
        BY <2>2
      <3> QED
        BY <3>1 DEF AreTokens, IsToken
    <2> QED
      BY <2>1, <2>2
  <1>2. parse_rgb(values) = IF Len(parts) # 3 \/ AnyBad(comp) THEN Bad ELSE comp
    BY DEF parse_rgb
  <1> HIDE DEF parts
  <1>3. Len(parts) = 3 /\ ~AnyBad(comp) /\ parse_rgb(values) = comp
    BY <1>2
  <1>4. DOMAIN comp = 1..3 /\ \A i \in 1..3 : comp[i] = parse_component(parts[i])
    BY <1>1, <1>3
  <1>5. ASSUME NEW i \in 1..3 PROVE comp[i] \in Limited
    <2>1. comp[i] # Bad
      BY <1>3, <1>4 DEF AnyBad
    <2>2. parse_float(parts[i]) # Bad
      <3> SUFFICES ASSUME parse_float(parts[i]) = Bad PROVE comp[i] = Bad
        BY <2>1
      <3>1. ~IsFinite(Bad) /\ Bad # Infinity /\ Clamp(Bad) = Bad
        BY CliAssumption DEF IsFinite, Clamp
      <3> QED
        BY <1>4, <3>1 DEF parse_component
    <2>3. parts[i].kind # "list"
      BY <2>2 DEF parse_float
    <2>4. IsToken(parts[i])
      BY <1>1, <1>3, <2>3 DEF IsToken
    <2> QED
      BY <1>4, <2>1, <2>4, Parsed
  <1> QED
    BY <1>3, <1>5
(* The parts of a token: a list, or the token alone. *)
LEMMA PartsAre ==
  ASSUME NEW t, IsToken(t)
  PROVE  /\ Len(Parts(t)) \in Nat /\ DOMAIN Parts(t) = 1..Len(Parts(t))
         /\ \A i \in DOMAIN Parts(t) : NumberToken(Parts(t)[i])
  <1>1. CASE t.kind = "list"
    <2>1. Parts(t) = t.parts /\ IsList(t.parts)
      BY <1>1 DEF Parts, IsToken
    <2> QED
      BY <2>1 DEF IsList
  <1>2. CASE t.kind # "list"
    <2>1. Parts(t) = <<t>> /\ NumberToken(t)
      BY <1>2 DEF Parts, IsToken
    <2>2. Len(<<t>>) = 1 /\ DOMAIN <<t>> = 1..1 /\ <<t>>[1] = t
      OBVIOUS
    <2>3. \A i \in 1..1 : i = 1
      OBVIOUS
    <2> QED
      BY <2>1, <2>2, <2>3
  <1> QED
    BY <1>1, <1>2

(* Three numbers of a date or a time. *)
LEMMA ParsedDate ==
  ASSUME NEW t, IsToken(t), date_set(t) # Bad
  PROVE  \A i \in 1..3 : date_set(t)[i] \in Nat
  <1> DEFINE parts == Parts(t)
             p == [i \in DOMAIN parts |-> parse_uint(parts[i])]
  <1>1. /\ Len(parts) \in Nat /\ DOMAIN parts = 1..Len(parts)
        /\ \A i \in DOMAIN parts : NumberToken(parts[i])
    BY PartsAre
  <1>2. date_set(t) = IF Len(p) # 3 \/ AnyBad(p) THEN Bad ELSE p
    BY DEF date_set
  <1> HIDE DEF parts
  <1>3. Len(p) = Len(parts) /\ DOMAIN p = 1..Len(parts)
    BY <1>1
  <1>4. Len(parts) = 3 /\ ~AnyBad(p) /\ date_set(t) = p
    BY <1>2, <1>3
  <1>5. \A i \in 1..3 : p[i] = parse_uint(parts[i]) /\ i \in DOMAIN p
    BY <1>1, <1>4
  <1>6. ASSUME NEW i \in 1..3 PROVE p[i] \in Nat
    <2>1. p[i] # Bad
      BY <1>4, <1>5 DEF AnyBad
    <2>2. parts[i].kind = "integer"
      BY <1>5, <2>1 DEF parse_uint, parse_int
    <2>3. IsToken(parts[i])
      BY <1>1, <1>4, <2>2 DEF IsToken
    <2> QED
      BY <1>5, <2>1, <2>3, Parsed
  <1> QED
    BY <1>4, <1>6

(* A function from 1..n is a sequence. *)
LEMMA IsSequence ==
  ASSUME NEW n \in Nat, NEW S, NEW r \in [1..n -> S]
  PROVE  r \in Seq(S) /\ Len(r) = n
  OBVIOUS

(* A sequence and one more element. *)
LEMMA OneMore ==
  ASSUME NEW S, NEW r \in Seq(S), NEW q \in Seq(S), Len(q) = 1
  PROVE  /\ \A i \in 1..Len(r) : (r \o q)[i] = r[i]
         /\ (r \o q)[Len(r) + 1] = q[1]
  <1> DEFINE x == r \o q
             n == Len(r)
             l == Len(q)
  <1>1. \A i \in 1..n + l : x[i] = IF i <= n THEN r[i] ELSE q[i - n]
    BY ConcatProperties
  <1>2. n \in Nat /\ l = 1
    OBVIOUS
  <1> HIDE DEF x, n, l
  <1>3. \A i \in 1..n : i \in 1..n + l /\ i <= n
    BY <1>2
  <1>4. \A k \in Nat : k = n + 1 => k \in 1..n + l /\ ~(k <= n) /\ k - n = 1
    BY <1>2
  <1>5. \A i \in 1..n : x[i] = r[i]
    BY <1>1, <1>3
  <1>6. \A k \in Nat : k = n + 1 => x[k] = q[1]
    BY <1>1, <1>4
  <1>7. n + 1 \in Nat
    BY <1>2
  <1> QED
    BY <1>5, <1>6, <1>7 DEF x, n

(* A time of two parts has no seconds. *)
LEMMA ParsedTime ==
  ASSUME NEW t, IsToken(t), time_set(t) # Bad
  PROVE  \A i \in 1..3 : time_set(t)[i] \in Nat
  <1> DEFINE p == Parts(t)
             n == IF Len(p) > 2 THEN 3 ELSE Len(p)
             read == [i \in 1..n |-> parse_uint(p[i])]
  <1>1. /\ Len(p) \in Nat /\ DOMAIN p = 1..Len(p)
        /\ \A i \in DOMAIN p : NumberToken(p[i])
    BY PartsAre
  <1>2. time_set(t) = IF Len(p) < 2 \/ AnyBad(read) THEN Bad
                      ELSE IF Len(p) > 2 THEN read ELSE read \o <<0>>
    BY DEF time_set
  <1> HIDE DEF p
  <1>3. Len(p) >= 2 /\ ~AnyBad(read) /\ n \in {2, 3} /\ (n = 3 <=> Len(p) > 2) /\ n <= Len(p)
    BY <1>1, <1>2
  <1>4. time_set(t) = IF n = 3 THEN read ELSE read \o <<0>>
    BY <1>2, <1>3
  <1> HIDE DEF n
  <1>5. DOMAIN read = 1..n /\ \A i \in 1..n : read[i] = parse_uint(p[i])
    BY <1>3
  <1>6. ASSUME NEW i \in 1..n PROVE read[i] \in Nat
    <2>1. read[i] # Bad
      BY <1>3, <1>5 DEF AnyBad
    <2>2. p[i].kind = "integer"
      BY <1>5, <2>1 DEF parse_uint, parse_int
    <2>3. IsToken(p[i])
      BY <1>1, <1>3, <2>2 DEF IsToken
    <2> QED
      BY <1>5, <2>1, <2>3, Parsed
  <1>7. CASE n = 3
    BY <1>4, <1>6, <1>7
  <1>8. CASE n = 2
    <2>1. read \in [1..2 -> Nat]
      BY <1>5, <1>6, <1>8
    <2> HIDE DEF read
    <2>2. read \in Seq(Nat) /\ Len(read) = 2
      <3>1. \A n2 \in Nat : \A r \in [1..n2 -> Nat] : r \in Seq(Nat) /\ Len(r) = n2
        BY IsSequence
      <3> QED
        BY <2>1, <3>1, 2 \in Nat, Zenon
    <2>4. <<0>> \in Seq(Nat) /\ Len(<<0>>) = 1 /\ <<0>>[1] = 0
      OBVIOUS
    <2> DEFINE q == <<0>>
    <2> HIDE DEF q
    <2>5. q \in Seq(Nat) /\ Len(q) = 1 /\ q[1] = 0
      BY <2>4 DEF q
    <2>6. /\ (read \o q)[1] = read[1] /\ (read \o q)[2] = read[2] /\ (read \o q)[3] = q[1]
      <3>1. /\ \A i \in 1..Len(read) : (read \o q)[i] = read[i]
            /\ (read \o q)[Len(read) + 1] = q[1]
        BY <2>2, <2>5, OneMore
      <3>2. 1 \in 1..Len(read) /\ 2 \in 1..Len(read) /\ Len(read) + 1 = 3
        BY <2>2
      <3> QED
        BY <3>1, <3>2
    <2>7. time_set(t) = read \o q
      BY <1>4, <1>8 DEF q
    <2>8. read[1] \in Nat /\ read[2] \in Nat
      BY <2>1
    <2>9. \A i \in 1..3 : i = 1 \/ i = 2 \/ i = 3
      OBVIOUS
    <2> QED
      <3> DEFINE r == read \o q
      <3>1. r[1] \in Nat /\ r[2] \in Nat /\ r[3] \in Nat
        BY <2>5, <2>6, <2>8
      <3> HIDE DEF r
      <3>2. \A i \in 1..3 : r[i] \in Nat
        BY <2>9, <3>1
      <3> QED
        BY <2>7, <3>2 DEF r
  <1> QED
    BY <1>3, <1>7, <1>8

(* key=value: the last token of a field. *)
LEMMA LastToken ==
  ASSUME NEW values, Len(values) \in Nat, DOMAIN values = 1..Len(values), NEW Field,
         NEW f \in {Field[values[i].key] : i \in DOMAIN values}
  PROVE  \E i \in DOMAIN values :
            /\ Field[values[i].key] = f
            /\ \A j \in DOMAIN values : Field[values[j].key] = f => j <= i
  <1> DEFINE at(i) == Field[values[i].key]
             s == {i \in DOMAIN values : at(i) = f}
  <1>1. s \in SUBSET (1..Len(values)) /\ s # {}
    OBVIOUS
  <1> HIDE DEF s
  <1>2. Max(s) \in s /\ \A y \in s : Max(s) >= y
    BY <1>1, Largest
  <1> USE DEF s
  <1>3. PICK i \in DOMAIN values : at(i) = f /\ \A j \in DOMAIN values : at(j) = f => j <= i
    BY <1>2
  <1> QED
    BY <1>3

(* The members of a command have values that their type admits. *)
InRange(c) ==
    /\ \A f \in DOMAIN c \cap Fractions : c[f] \in Limited
    /\ \A f \in DOMAIN c \cap Unsigned : c[f] >= 0
    /\ "rgb" \in DOMAIN c => \A i \in 1..3 : c["rgb"][i] \in Limited

(* Tokens behind keys. *)
AreKeyValues(values) ==
    /\ Len(values) \in Nat /\ DOMAIN values = 1..Len(values)
    /\ \A i \in DOMAIN values : IsToken(values[i].value)

(* What may stand after the name of an action. *)
LEMMA ValueListsAre ==
  ASSUME NEW name, NEW values \in ValueLists(name)
  PROVE  IF name = "command" THEN AreKeyValues(values) ELSE AreTokens(values)
  <1>1. \A k, t : KeyValue(k, t).value = t
    BY DEF KeyValue
  <1>2. ASSUME NEW a, IsToken(a.value) PROVE AreKeyValues(<<a>>)
    <2>1. Len(<<a>>) = 1 /\ DOMAIN <<a>> = 1..1 /\ <<a>>[1] = a
      OBVIOUS
    <2>2. \A i \in 1..1 : i = 1
      OBVIOUS
    <2> QED
      BY <1>2, <2>1, <2>2 DEF AreKeyValues
  <1>3. ASSUME NEW a, NEW b, IsToken(a.value), IsToken(b.value) PROVE AreKeyValues(<<a, b>>)
    <2>1. Len(<<a, b>>) = 2 /\ DOMAIN <<a, b>> = 1..2 /\ <<a, b>>[1] = a /\ <<a, b>>[2] = b
      OBVIOUS
    <2>2. \A i \in 1..2 : i = 1 \/ i = 2
      OBVIOUS
    <2> QED
      BY <1>3, <2>1, <2>2 DEF AreKeyValues
  <1>4. ASSUME NEW a, IsToken(a) PROVE AreTokens(<<a>>)
    <2>1. Len(<<a>>) = 1 /\ DOMAIN <<a>> = 1..1 /\ <<a>>[1] = a
      OBVIOUS
    <2>2. \A i \in 1..1 : i = 1
      OBVIOUS
    <2> QED
      BY <1>4, <2>1, <2>2 DEF AreTokens
  <1>5. AreTokens(<<>>)
    <2>1. Len(<<>>) = 0 /\ DOMAIN <<>> = 1..0 /\ \A i \in 1..0 : FALSE
      OBVIOUS
    <2> QED
      BY <2>1 DEF AreTokens
  <1>6. \A n \in Int : IsToken(Integer(n))
    BY DEF Integer, IsToken, NumberToken
  <1>7. \A w : IsToken(Word(w))
    BY DEF Word, IsToken, NumberToken
  <1>8. CASE name = "command"
    <2> DEFINE keys == {"brightness", "rgb", "effect", "transition", "transition_length",
                        "temperature", "target_temperature", "mode"}
               one == {<<KeyValue(k, t)>> : k \in keys, t \in Tokens}
               two == {<<KeyValue("transition_length", t), KeyValue("transition", u)>> :
                           t, u \in {Integer(0), Integer(1), Word("on")}}
    <2>1. values \in one \cup two
      BY <1>8 DEF ValueLists
    <2>2. CASE values \in one
      <3>1. PICK k \in keys, t \in Tokens : values = <<KeyValue(k, t)>>
        BY <2>2
      <3>2. IsToken(KeyValue(k, t).value)
        BY <1>1, TokensAre
      <3> QED
        BY <1>2, <1>8, <3>1, <3>2
    <2>3. CASE values \in two
      <3>1. PICK t \in {Integer(0), Integer(1), Word("on")},
                 u \in {Integer(0), Integer(1), Word("on")} :
               values = <<KeyValue("transition_length", t), KeyValue("transition", u)>>
        BY <2>3
      <3>2. IsToken(t) /\ IsToken(u)
        BY <1>6, <1>7
      <3>3. AreKeyValues(<<KeyValue("transition_length", t), KeyValue("transition", u)>>)
        BY <1>1, <1>3, <3>2
      <3> QED
        BY <1>8, <3>1, <3>3
    <2> QED
      BY <2>1, <2>2, <2>3
  <1>9. CASE name # "command"
    <2>1. values \in {<<>>} \cup {<<t>> : t \in Tokens} \cup Triples
      BY <1>9 DEF ValueLists
    <2>2. CASE values \in {<<t>> : t \in Tokens}
      <3>1. PICK t \in Tokens : values = <<t>>
        BY <2>2
      <3> QED
        BY <1>4, <1>9, <3>1, TokensAre
    <2> QED
      BY <1>5, <1>9, <2>1, <2>2, TokensAre
  <1> QED
    BY <1>8, <1>9

(* light command key=value... *)
LEMMA LightCommand ==
  ASSUME NEW values, AreKeyValues(values), light_command(values) # Bad
  PROVE  IsCommand("Light", light_command(values)) /\ InRange(light_command(values))
  <1> DEFINE known(t) == t.kind = "kv" /\ t.key \in DOMAIN LightField
             at(i) == LightField[values[i].key]
             parsed == [i \in DOMAIN values |->
                          IF known(values[i]) THEN light_value(at(i), values[i].value)
                                              ELSE Bad]
             fields == {at(i) : i \in DOMAIN values}
             last(f) == CHOOSE i \in DOMAIN values :
                          at(i) = f /\ \A j \in DOMAIN values : at(j) = f => j <= i
             c == light_command(values)
             members == {"state", "brightness", "color_brightness", "rgb", "white",
                         "color_temperature", "cold_white", "warm_white",
                         "transition_length", "flash_length", "effect"}
  <1>1. c = IF AnyBad(parsed) THEN Bad ELSE [f \in fields |-> parsed[last(f)]]
    BY DEF light_command, KeyValues
  <1>2. ~AnyBad(parsed) /\ c = [f \in fields |-> parsed[last(f)]]
    BY <1>1
  <1>3. \A i \in DOMAIN values :
           /\ parsed[i] # Bad /\ known(values[i])
           /\ parsed[i] = light_value(at(i), values[i].value)
    BY <1>2 DEF AnyBad
  <1>4. DOMAIN c = fields /\ \A f \in fields : c[f] = parsed[last(f)]
    BY <1>2
  <1>5. \A f \in fields : last(f) \in DOMAIN values /\ at(last(f)) = f
    <2>1. Len(values) \in Nat /\ DOMAIN values = 1..Len(values)
      BY DEF AreKeyValues
    <2> SUFFICES ASSUME NEW f \in fields
                 PROVE  last(f) \in DOMAIN values /\ at(last(f)) = f
      OBVIOUS
    <2>2. PICK i \in DOMAIN values :
             at(i) = f /\ \A j \in DOMAIN values : at(j) = f => j <= i
      BY <2>1, LastToken
    <2> QED
      BY <2>2
  <1>6. \A key \in DOMAIN LightField : LightField[key] \in members
    BY DEF LightField
  <1> HIDE DEF parsed, c, last, members
  <1>7. DOMAIN c \subseteq members
    BY <1>3, <1>4, <1>6
  <1>8. IsCommand("Light", c)
    <2>1. TypesOf["Light"].plain = {} /\ members \subseteq TypesOf["Light"].optional
      BY DEF TypesOf, LightTypes, Types, members
    <2> QED
      BY <1>7, <2>1 DEF IsCommand
  <1>9. ASSUME NEW f \in DOMAIN c
        PROVE  \E t : IsToken(t) /\ c[f] = light_value(f, t) /\ c[f] # Bad
    <2>1. last(f) \in DOMAIN values /\ at(last(f)) = f /\ c[f] = parsed[last(f)]
      BY <1>4, <1>5
    <2>2. IsToken(values[last(f)].value)
      BY <2>1 DEF AreKeyValues
    <2> QED
      BY <1>3, <2>1, <2>2
  <1>10. ASSUME NEW f \in DOMAIN c, f \in Fractions PROVE c[f] \in Limited
    <2>1. PICK t : IsToken(t) /\ c[f] = light_value(f, t) /\ c[f] # Bad
      BY <1>9
    <2>2. f \notin {"state", "rgb", "color_temperature", "transition_length", "flash_length",
                    "effect"}
      BY <1>10 DEF Fractions
    <2>3. light_value(f, t) = parse_percent_or_unit(t)
      BY <2>2 DEF light_value
    <2> QED
      BY <2>1, <2>3, Parsed
  <1>11. ASSUME NEW f \in DOMAIN c, f \in Unsigned PROVE c[f] >= 0
    <2>1. PICK t : IsToken(t) /\ c[f] = light_value(f, t) /\ c[f] # Bad
      BY <1>9
    <2>2. f \in {"transition_length", "flash_length"}
      BY <1>7, <1>11 DEF Unsigned, members
    <2>3. light_value(f, t) = parse_uint(t)
      BY <2>2 DEF light_value
    <2>4. c[f] \in Nat
      BY <2>1, <2>3, Parsed
    <2> QED
      BY <2>4
  <1>12. ASSUME "rgb" \in DOMAIN c PROVE \A i \in 1..3 : c["rgb"][i] \in Limited
    <2>1. PICK t : IsToken(t) /\ c["rgb"] = light_value("rgb", t) /\ c["rgb"] # Bad
      BY <1>9, <1>12
    <2>2. light_value("rgb", t) = parse_rgb(<<t>>)
      BY DEF light_value
    <2>3. AreTokens(<<t>>)
      <3>1. Len(<<t>>) = 1 /\ DOMAIN <<t>> = 1..1 /\ <<t>>[1] = t
        OBVIOUS
      <3>2. \A i \in 1..1 : i = 1
        OBVIOUS
      <3> QED
        BY <2>1, <3>1, <3>2 DEF AreTokens
    <2> QED
      BY <2>1, <2>2, <2>3, ParsedRgb
  <1>13. InRange(c)
    BY <1>10, <1>11, <1>12 DEF InRange
  <1> QED
    BY <1>8, <1>13 DEF c

(* climate command key=value... *)
LEMMA ClimateCommand ==
  ASSUME NEW values, AreKeyValues(values), climate_command(values) # Bad
  PROVE  IsCommand("Climate", climate_command(values)) /\ InRange(climate_command(values))
  <1> DEFINE known(t) == t.kind = "kv" /\ t.key \in DOMAIN ClimateField
             at(i) == ClimateField[values[i].key]
             parsed == [i \in DOMAIN values |->
                          IF known(values[i]) THEN climate_value(at(i), values[i].value)
                                              ELSE Bad]
             fields == {at(i) : i \in DOMAIN values}
             last(f) == CHOOSE i \in DOMAIN values :
                          at(i) = f /\ \A j \in DOMAIN values : at(j) = f => j <= i
             c == climate_command(values)
             members == {"mode", "target_temperature", "target_temperature_low",
                         "target_temperature_high", "target_humidity"}
  <1>1. c = IF AnyBad(parsed) THEN Bad ELSE [f \in fields |-> parsed[last(f)]]
    BY DEF climate_command, KeyValues
  <1>2. ~AnyBad(parsed) /\ c = [f \in fields |-> parsed[last(f)]]
    BY <1>1
  <1>3. \A i \in DOMAIN values : parsed[i] # Bad /\ known(values[i])
    BY <1>2 DEF AnyBad
  <1>4. DOMAIN c = fields
    BY <1>2
  <1>5. \A key \in DOMAIN ClimateField : ClimateField[key] \in members
    BY DEF ClimateField
  <1> HIDE DEF parsed, c, members
  <1>6. DOMAIN c \subseteq members
    BY <1>3, <1>4, <1>5
  <1>7. TypesOf["Climate"].plain = {} /\ members \subseteq TypesOf["Climate"].optional
    BY DEF TypesOf, ClimateTypes, Types, members
  <1>8. members \cap Fractions = {} /\ members \cap Unsigned = {} /\ "rgb" \notin members
    BY DEF members, Fractions, Unsigned
  <1>9. IsCommand("Climate", c) /\ InRange(c)
    BY <1>6, <1>7, <1>8 DEF IsCommand, InRange
  <1> QED
    BY <1>9 DEF c
-----------------------------------------------------------------------------
(* What the actions send. *)

Good(d, c) == IsCommand(d, c) /\ InRange(c)

(* A method whose value was not refused. *)
LEMMA MethodIs ==
  ASSUME NEW d, NEW v, NEW on, NEW name, Method(d, v, on, name) # Bad
  PROVE  v # Bad /\ Method(d, v, on, name) = EntityHandle(d, v, on).methods[name]
  BY DEF Method

(* The members of a domain are the ones of its command. *)
LEMMA GoodMembers ==
  ASSUME NEW d \in CommandDomains \ {"WaterHeater"}, NEW c,
         TypesOf[d].plain \subseteq DOMAIN c,
         DOMAIN c \subseteq TypesOf[d].optional \cup TypesOf[d].plain,
         InRange(c)
  PROVE  Good(d, c)
  BY DEF Good, IsCommand

(* Members whose type admits every value. *)
LEMMA FreeMembers ==
  ASSUME NEW c, DOMAIN c \cap (Fractions \cup Unsigned \cup {"rgb"}) = {}
  PROVE  InRange(c)
  BY DEF InRange

(* The first value. *)
LEMMA FirstValue ==
  ASSUME NEW values, AreTokens(values)
  PROVE  /\ First(values, parse_percent_or_unit) = Bad \/
            First(values, parse_percent_or_unit) \in Limited
         /\ First(values, parse_uint) = Bad \/ First(values, parse_uint) \in Nat
         /\ First(values, date_set) # Bad =>
               \A i \in 1..3 : First(values, date_set)[i] \in Nat
         /\ First(values, time_set) # Bad =>
               \A i \in 1..3 : First(values, time_set)[i] \in Nat
  <1>1. CASE values = <<>>
    BY <1>1 DEF First
  <1>2. CASE values # <<>>
    <2>1. IsToken(values[1])
      BY <1>2 DEF AreTokens
    <2> DEFINE t == values[1]
    <2>2. /\ First(values, parse_percent_or_unit) = parse_percent_or_unit(t)
          /\ First(values, parse_uint) = parse_uint(t)
          /\ First(values, date_set) = date_set(t)
          /\ First(values, time_set) = time_set(t)
      BY <1>2 DEF First
    <2>3. IsToken(t)
      BY <2>1
    <2> HIDE DEF t
    <2> QED
      BY <2>2, <2>3, Parsed, ParsedDate, ParsedTime
  <1> QED
    BY <1>1, <1>2

(* Switching on and off. *)
LEMMA PowerGood ==
  ASSUME NEW d \in {"Switch", "Light", "Fan", "Siren"}, NEW x
  PROVE  Good(d, [state |-> x])
  <1> DEFINE c == [state |-> x]
  <1>1. DOMAIN c = {"state"}
    OBVIOUS
  <1> HIDE DEF c
  <1>2. InRange(c)
    BY <1>1, FreeMembers DEF Fractions, Unsigned
  <1>3. d \in CommandDomains \ {"WaterHeater"}
    BY CommandDomainsAre
  <1>4. /\ TypesOf["Switch"] = SwitchTypes /\ TypesOf["Light"] = LightTypes
        /\ TypesOf["Fan"] = FanTypes /\ TypesOf["Siren"] = SirenTypes
    BY DEF TypesOf
  <1>5. /\ TypesOf[d].plain \subseteq {"state"}
        /\ "state" \in TypesOf[d].optional \cup TypesOf[d].plain
    BY <1>4 DEF SwitchTypes, LightTypes, FanTypes, SirenTypes, Types
  <1>6. Good(d, c)
    BY <1>1, <1>2, <1>3, <1>5, GoodMembers
  <1> QED
    BY <1>6 DEF c

(* Switch. *)
LEMMA SwitchActions ==
  ASSUME NEW name \in ActionsOf("Switch"), NEW values, NEW on,
         find_action("Switch", name, values, on) # Bad
  PROVE  Good("Switch", find_action("Switch", name, values, on))
  <1> DEFINE c == find_action("Switch", name, values, on)
  <1>1. name \in {"turn_on", "turn_off", "toggle", "set"}
    BY DEF ActionsOf
  <1>2. c = switch_actions(name, values, on)
    BY DEF find_action
  <1>3. \E x : c = [state |-> x]
    <2>1. CASE name = "set"
      BY <1>2, <2>1 DEF switch_actions, set_power
    <2>2. CASE name # "set"
      <3>1. c = Method("Switch", 0, on, name)
        BY <1>2, <2>2 DEF switch_actions
      <3>2. c = EntityHandle("Switch", 0, on).methods[name]
        BY <3>1, MethodIs
      <3>3. EntityHandle("Switch", 0, on).methods =
               [turn_on |-> [state |-> 1], turn_off |-> [state |-> 0],
                toggle |-> [state |-> 1 - on]]
        BY DEF EntityHandle, SwitchEntity, Handle, ToggleEntity, set_power
      <3> QED
        BY <1>1, <2>2, <3>2, <3>3
    <2> QED
      BY <2>1, <2>2
  <1> QED
    BY <1>3, PowerGood

(* Siren. *)
LEMMA SirenActions ==
  ASSUME NEW name \in ActionsOf("Siren"), NEW values, NEW on,
         find_action("Siren", name, values, on) # Bad
  PROVE  Good("Siren", find_action("Siren", name, values, on))
  <1> DEFINE c == find_action("Siren", name, values, on)
  <1>1. name \in {"turn_on", "turn_off", "toggle"}
    BY DEF ActionsOf
  <1>2. c = Method("Siren", 0, on, name)
    BY DEF find_action
  <1>3. c = EntityHandle("Siren", 0, on).methods[name]
    BY <1>2, MethodIs
  <1>4. EntityHandle("Siren", 0, on).methods =
           [turn_on |-> [state |-> 1], turn_off |-> [state |-> 0],
            toggle |-> [state |-> 1 - on]]
    BY DEF EntityHandle, SirenEntity, Handle, ToggleEntity, set_power
  <1>5. \E x : c = [state |-> x]
    BY <1>1, <1>3, <1>4
  <1> QED
    BY <1>5, PowerGood

(* Fan. *)
LEMMA FanActions ==
  ASSUME NEW name \in ActionsOf("Fan"), NEW values, NEW on,
         find_action("Fan", name, values, on) # Bad
  PROVE  Good("Fan", find_action("Fan", name, values, on))
  <1> DEFINE c == find_action("Fan", name, values, on)
             v == IF name = "set_speed" THEN First(values, parse_int) ELSE 0
             a == [turn_on |-> [state |-> 1], turn_off |-> [state |-> 0],
                   toggle |-> [state |-> 1 - on]]
             b == [set_speed |-> [speed_level |-> v]]
  <1>1. name \in {"turn_on", "turn_off", "toggle", "set_speed"}
    BY DEF ActionsOf
  <1>2. c = Method("Fan", v, on, name)
    BY DEF find_action, fan_actions
  <1> HIDE DEF v
  <1>3. c = EntityHandle("Fan", v, on).methods[name]
    BY <1>2, MethodIs
  <1>4. EntityHandle("Fan", v, on).methods = With(a, b)
    BY DEF EntityHandle, FanEntity, Handle, ToggleEntity, set_power
  <1>5. c = IF name = "set_speed" THEN [speed_level |-> v] ELSE a[name]
    BY <1>1, <1>3, <1>4 DEF With
  <1>6. CASE name # "set_speed"
    <2>1. \E x : c = [state |-> x]
      BY <1>1, <1>5, <1>6
    <2> QED
      BY <2>1, PowerGood
  <1>7. CASE name = "set_speed"
    <2>1. DOMAIN c = {"speed_level"}
      BY <1>5, <1>7
    <2> HIDE DEF c
    <2>2. InRange(c)
      BY <2>1, FreeMembers DEF Fractions, Unsigned
    <2>3. "Fan" \in CommandDomains \ {"WaterHeater"}
      BY CommandDomainsAre
    <2>4. TypesOf["Fan"].plain = {} /\ "speed_level" \in TypesOf["Fan"].optional
      BY DEF TypesOf, FanTypes, Types
    <2>5. Good("Fan", c)
      BY <2>1, <2>2, <2>3, <2>4, GoodMembers
    <2> QED
      BY <2>5 DEF c
  <1> QED
    BY <1>6, <1>7

(* Light. *)
LEMMA LightActions ==
  ASSUME NEW name \in ActionsOf("Light"), NEW values \in ValueLists(name), NEW on,
         find_action("Light", name, values, on) # Bad
  PROVE  Good("Light", find_action("Light", name, values, on))
  <1> DEFINE c == find_action("Light", name, values, on)
             a == [turn_on |-> [state |-> 1], turn_off |-> [state |-> 0],
                   toggle |-> [state |-> 1 - on]]
             b(v) == [set_brightness |-> [state |-> 1, brightness |-> v],
                      set_rgb |-> [state |-> 1, rgb |-> v]]
  <1>1. name \in {"turn_on", "turn_off", "toggle", "set_brightness", "set_rgb", "command"}
    BY DEF ActionsOf
  <1>2. c = light_actions(name, values, on)
    BY DEF find_action
  <1>3. ASSUME NEW v PROVE EntityHandle("Light", v, on).methods = With(a, b(v))
    BY DEF EntityHandle, LightEntity, Handle, ToggleEntity, set_power
  <1>4. \A v : /\ With(a, b(v))["set_brightness"] = [state |-> 1, brightness |-> v]
               /\ With(a, b(v))["set_rgb"] = [state |-> 1, rgb |-> v]
               /\ \A f \in {"turn_on", "turn_off", "toggle"} : With(a, b(v))[f] = a[f]
    BY DEF With
  <1>5. "Light" \in CommandDomains \ {"WaterHeater"}
    BY CommandDomainsAre
  <1>6. /\ TypesOf["Light"].plain = {}
        /\ {"state", "brightness", "rgb"} \subseteq TypesOf["Light"].optional
    BY DEF TypesOf, LightTypes, Types
  <1>7. ASSUME NEW v, v = Bad \/ v \in Limited, c = Method("Light", v, on, "set_brightness")
        PROVE  Good("Light", c)
    <2>1. v \in Limited /\ c = [state |-> 1, brightness |-> v]
      <3>1. v # Bad /\ c = EntityHandle("Light", v, on).methods["set_brightness"]
        BY <1>7, MethodIs
      <3>2. EntityHandle("Light", v, on).methods = With(a, b(v))
        BY <1>3
      <3>3. c = With(a, b(v))["set_brightness"]
        BY <3>1, <3>2, Zenon
      <3> QED
        BY <1>4, <1>7, <3>1, <3>3, Zenon
    <2>2. DOMAIN c = {"state", "brightness"} /\ c["brightness"] = v
      BY <2>1
    <2> HIDE DEF c
    <2>3. InRange(c)
      BY <2>1, <2>2 DEF InRange, Fractions, Unsigned
    <2> QED
      BY <1>5, <1>6, <2>2, <2>3, GoodMembers
  <1>8. name # "command" => AreTokens(values)
    BY ValueListsAre
  <1>9. CASE name = "turn_on" /\ values # <<>>
    <2>1. c = Method("Light", parse_percent_or_unit(values[1]), on, "set_brightness")
      BY <1>2, <1>9 DEF light_actions
    <2>2. IsToken(values[1])
      <3>1. AreTokens(values)
        BY <1>8, <1>9
      <3>2. values # <<>> => 1 \in DOMAIN values
        BY <3>1 DEF AreTokens
      <3> QED
        BY <1>9, <3>1, <3>2 DEF AreTokens
    <2> QED
      BY <1>7, <2>1, <2>2, Parsed
  <1>10. CASE name = "set_brightness"
    <2>1. c = Method("Light", First(values, parse_percent_or_unit), on, "set_brightness")
      BY <1>2, <1>10 DEF light_actions
    <2>2. First(values, parse_percent_or_unit) = Bad \/
          First(values, parse_percent_or_unit) \in Limited
      BY <1>8, <1>10, FirstValue
    <2> QED
      BY <1>7, <2>1, <2>2
  <1>11. CASE name = "set_rgb"
    <2>1. c = Method("Light", parse_rgb(values), on, "set_rgb")
      BY <1>2, <1>11 DEF light_actions
    <2>2. parse_rgb(values) # Bad /\ c = [state |-> 1, rgb |-> parse_rgb(values)]
      <3> DEFINE v == parse_rgb(values)
      <3>1. v # Bad /\ c = EntityHandle("Light", v, on).methods["set_rgb"]
        BY <2>1, MethodIs
      <3> HIDE DEF v
      <3>2. EntityHandle("Light", v, on).methods = With(a, b(v))
        BY <1>3
      <3>3. c = With(a, b(v))["set_rgb"]
        BY <3>1, <3>2, Zenon
      <3>4. c = [state |-> 1, rgb |-> v]
        BY <1>4, <3>3, Zenon
      <3> QED
        BY <3>1, <3>4 DEF v
    <2>3. DOMAIN c = {"state", "rgb"} /\ c["rgb"] = parse_rgb(values)
      BY <2>2
    <2>4. \A i \in 1..3 : parse_rgb(values)[i] \in Limited
      BY <1>8, <1>11, <2>2, ParsedRgb
    <2> HIDE DEF c
    <2>5. InRange(c)
      BY <2>3, <2>4 DEF InRange, Fractions, Unsigned
    <2>6. Good("Light", c)
      BY <1>5, <1>6, <2>3, <2>5, GoodMembers
    <2> QED
      BY <2>6 DEF c
  <1>12. CASE name = "command"
    <2>1. AreKeyValues(values)
      BY <1>12, ValueListsAre
    <2>2. c = light_command(values)
      BY <1>2, <1>12 DEF light_actions
    <2> QED
      BY <2>1, <2>2, LightCommand DEF Good
  <1>13. CASE name \in {"turn_off", "toggle"} \/ (name = "turn_on" /\ values = <<>>)
    <2>1. c = Method("Light", 0, on, name)
      BY <1>2, <1>13 DEF light_actions
    <2>2. c = a[name]
      <3>1. c = EntityHandle("Light", 0, on).methods[name]
        BY <2>1, MethodIs
      <3>2. EntityHandle("Light", 0, on).methods = With(a, b(0))
        BY <1>3
      <3>3. c = With(a, b(0))[name]
        BY <3>1, <3>2, Zenon
      <3>4. name \in {"turn_on", "turn_off", "toggle"}
        BY <1>13
      <3> QED
        BY <1>4, <3>3, <3>4, Zenon
    <2>3. \E x : c = [state |-> x]
      BY <1>13, <2>2
    <2> QED
      BY <2>3, PowerGood
  <1> QED
    BY <1>1, <1>9, <1>10, <1>11, <1>12, <1>13
(* A valve's command. *)
LEMMA ValveGood ==
  ASSUME NEW c, \/ DOMAIN c = {"stop"}
                \/ DOMAIN c = {"position", "stop"} /\ c["position"] \in Limited
  PROVE  Good("Valve", c)
  <1>1. TypesOf["Valve"] = ValveTypes /\ "Valve" \in CommandDomains \ {"WaterHeater"}
    BY CommandDomainsAre DEF TypesOf
  <1>2. /\ TypesOf["Valve"].plain \subseteq DOMAIN c
        /\ DOMAIN c \subseteq TypesOf["Valve"].optional \cup TypesOf["Valve"].plain
    BY <1>1 DEF ValveTypes, Types
  <1>3. InRange(c)
    BY DEF InRange, Fractions, Unsigned
  <1> QED
    BY <1>1, <1>2, <1>3, GoodMembers
(* Number. *)
LEMMA NumberActions ==
  ASSUME NEW name \in ActionsOf("Number"), NEW values, NEW on,
         find_action("Number", name, values, on) # Bad
  PROVE  Good("Number", find_action("Number", name, values, on))
  <1> DEFINE c == find_action("Number", name, values, on)
  <1>1. name \in {"set"}
    BY DEF ActionsOf
  <1>2. PICK v : c = Method("Number", v, on, name)
    BY DEF find_action
  <1>3. c = EntityHandle("Number", v, on).methods[name]
    BY <1>2, MethodIs
  <1>4. EntityHandle("Number", v, on).methods =
           [set |-> [state |-> v]]
    BY DEF EntityHandle, NumberEntity, Handle
  <1>5. DOMAIN c = {"state"}
    BY <1>1, <1>3, <1>4
  <1> HIDE DEF c
  <1>6. TypesOf["Number"] = NumberTypes /\ "Number" \in CommandDomains \ {"WaterHeater"}
    BY CommandDomainsAre DEF TypesOf
  <1>7. /\ TypesOf["Number"].plain \subseteq DOMAIN c
        /\ DOMAIN c \subseteq TypesOf["Number"].optional \cup TypesOf["Number"].plain
    BY <1>5, <1>6 DEF NumberTypes, Types
  <1>8. InRange(c)
    BY <1>5, FreeMembers DEF Fractions, Unsigned
  <1>9. Good("Number", c)
    BY <1>6, <1>7, <1>8, GoodMembers
  <1> QED
    BY <1>9 DEF c

(* Select. *)
LEMMA SelectActions ==
  ASSUME NEW name \in ActionsOf("Select"), NEW values, NEW on,
         find_action("Select", name, values, on) # Bad
  PROVE  Good("Select", find_action("Select", name, values, on))
  <1> DEFINE c == find_action("Select", name, values, on)
  <1>1. name \in {"set"}
    BY DEF ActionsOf
  <1>2. PICK v : c = Method("Select", v, on, name)
    BY DEF find_action
  <1>3. c = EntityHandle("Select", v, on).methods[name]
    BY <1>2, MethodIs
  <1>4. EntityHandle("Select", v, on).methods =
           [set |-> [state |-> v]]
    BY DEF EntityHandle, SelectEntity, Handle
  <1>5. DOMAIN c = {"state"}
    BY <1>1, <1>3, <1>4
  <1> HIDE DEF c
  <1>6. TypesOf["Select"] = SelectTypes /\ "Select" \in CommandDomains \ {"WaterHeater"}
    BY CommandDomainsAre DEF TypesOf
  <1>7. /\ TypesOf["Select"].plain \subseteq DOMAIN c
        /\ DOMAIN c \subseteq TypesOf["Select"].optional \cup TypesOf["Select"].plain
    BY <1>5, <1>6 DEF SelectTypes, Types
  <1>8. InRange(c)
    BY <1>5, FreeMembers DEF Fractions, Unsigned
  <1>9. Good("Select", c)
    BY <1>6, <1>7, <1>8, GoodMembers
  <1> QED
    BY <1>9 DEF c

(* Text. *)
LEMMA TextActions ==
  ASSUME NEW name \in ActionsOf("Text"), NEW values, NEW on,
         find_action("Text", name, values, on) # Bad
  PROVE  Good("Text", find_action("Text", name, values, on))
  <1> DEFINE c == find_action("Text", name, values, on)
  <1>1. name \in {"set"}
    BY DEF ActionsOf
  <1>2. PICK v : c = Method("Text", v, on, name)
    BY DEF find_action
  <1>3. c = EntityHandle("Text", v, on).methods[name]
    BY <1>2, MethodIs
  <1>4. EntityHandle("Text", v, on).methods =
           [set |-> [state |-> v]]
    BY DEF EntityHandle, TextEntity, Handle
  <1>5. DOMAIN c = {"state"}
    BY <1>1, <1>3, <1>4
  <1> HIDE DEF c
  <1>6. TypesOf["Text"] = TextTypes /\ "Text" \in CommandDomains \ {"WaterHeater"}
    BY CommandDomainsAre DEF TypesOf
  <1>7. /\ TypesOf["Text"].plain \subseteq DOMAIN c
        /\ DOMAIN c \subseteq TypesOf["Text"].optional \cup TypesOf["Text"].plain
    BY <1>5, <1>6 DEF TextTypes, Types
  <1>8. InRange(c)
    BY <1>5, FreeMembers DEF Fractions, Unsigned
  <1>9. Good("Text", c)
    BY <1>6, <1>7, <1>8, GoodMembers
  <1> QED
    BY <1>9 DEF c

(* Button. *)
LEMMA ButtonActions ==
  ASSUME NEW name \in ActionsOf("Button"), NEW values, NEW on,
         find_action("Button", name, values, on) # Bad
  PROVE  Good("Button", find_action("Button", name, values, on))
  <1> DEFINE c == find_action("Button", name, values, on)
  <1>1. name \in {"press"}
    BY DEF ActionsOf
  <1>2. PICK v : c = Method("Button", v, on, name)
    BY DEF find_action
  <1>3. c = EntityHandle("Button", v, on).methods[name]
    BY <1>2, MethodIs
  <1>4. EntityHandle("Button", v, on).methods =
           [press |-> <<>>]
    BY DEF EntityHandle, ButtonEntity, Handle
  <1>5. DOMAIN c = {}
    BY <1>1, <1>3, <1>4
  <1> HIDE DEF c
  <1>6. TypesOf["Button"] = ButtonTypes /\ "Button" \in CommandDomains \ {"WaterHeater"}
    BY CommandDomainsAre DEF TypesOf
  <1>7. /\ TypesOf["Button"].plain \subseteq DOMAIN c
        /\ DOMAIN c \subseteq TypesOf["Button"].optional \cup TypesOf["Button"].plain
    BY <1>5, <1>6 DEF ButtonTypes, Types
  <1>8. InRange(c)
    BY <1>5, FreeMembers DEF Fractions, Unsigned
  <1>9. Good("Button", c)
    BY <1>6, <1>7, <1>8, GoodMembers
  <1> QED
    BY <1>9 DEF c

(* Lock. *)
LEMMA LockActions ==
  ASSUME NEW name \in ActionsOf("Lock"), NEW values, NEW on,
         find_action("Lock", name, values, on) # Bad
  PROVE  Good("Lock", find_action("Lock", name, values, on))
  <1> DEFINE c == find_action("Lock", name, values, on)
  <1>1. name \in {"lock", "unlock", "open"}
    BY DEF ActionsOf
  <1>2. PICK v : c = Method("Lock", v, on, name)
    BY DEF find_action
  <1>3. c = EntityHandle("Lock", v, on).methods[name]
    BY <1>2, MethodIs
  <1>4. EntityHandle("Lock", v, on).methods =
           [lock |-> [command |-> 1], unlock |-> [command |-> 0],
            open |-> [command |-> 2]]
    BY DEF EntityHandle, LockEntity, Handle, LockCommand
  <1>5. DOMAIN c = {"command"}
    BY <1>1, <1>3, <1>4
  <1> HIDE DEF c
  <1>6. TypesOf["Lock"] = LockTypes /\ "Lock" \in CommandDomains \ {"WaterHeater"}
    BY CommandDomainsAre DEF TypesOf
  <1>7. /\ TypesOf["Lock"].plain \subseteq DOMAIN c
        /\ DOMAIN c \subseteq TypesOf["Lock"].optional \cup TypesOf["Lock"].plain
    BY <1>5, <1>6 DEF LockTypes, Types
  <1>8. InRange(c)
    BY <1>5, FreeMembers DEF Fractions, Unsigned
  <1>9. Good("Lock", c)
    BY <1>6, <1>7, <1>8, GoodMembers
  <1> QED
    BY <1>9 DEF c

(* Update. *)
LEMMA UpdateActions ==
  ASSUME NEW name \in ActionsOf("Update"), NEW values, NEW on,
         find_action("Update", name, values, on) # Bad
  PROVE  Good("Update", find_action("Update", name, values, on))
  <1> DEFINE c == find_action("Update", name, values, on)
  <1>1. name \in {"install", "check"}
    BY DEF ActionsOf
  <1>2. PICK v : c = Method("Update", v, on, name)
    BY DEF find_action
  <1>3. c = EntityHandle("Update", v, on).methods[name]
    BY <1>2, MethodIs
  <1>4. EntityHandle("Update", v, on).methods =
           [install |-> [command |-> 1], check |-> [command |-> 2]]
    BY DEF EntityHandle, UpdateEntity, Handle, UpdateCommand
  <1>5. DOMAIN c = {"command"}
    BY <1>1, <1>3, <1>4
  <1> HIDE DEF c
  <1>6. TypesOf["Update"] = UpdateTypes /\ "Update" \in CommandDomains \ {"WaterHeater"}
    BY CommandDomainsAre DEF TypesOf
  <1>7. /\ TypesOf["Update"].plain \subseteq DOMAIN c
        /\ DOMAIN c \subseteq TypesOf["Update"].optional \cup TypesOf["Update"].plain
    BY <1>5, <1>6 DEF UpdateTypes, Types
  <1>8. InRange(c)
    BY <1>5, FreeMembers DEF Fractions, Unsigned
  <1>9. Good("Update", c)
    BY <1>6, <1>7, <1>8, GoodMembers
  <1> QED
    BY <1>9 DEF c

(* Alarm control panel. *)
LEMMA AlarmControlPanelActions ==
  ASSUME NEW name \in ActionsOf("AlarmControlPanel"), NEW values, NEW on,
         find_action("AlarmControlPanel", name, values, on) # Bad
  PROVE  Good("AlarmControlPanel", find_action("AlarmControlPanel", name, values, on))
  <1> DEFINE c == find_action("AlarmControlPanel", name, values, on)
  <1>1. name \in {"arm_away", "arm_home", "disarm"}
    BY DEF ActionsOf
  <1>2. PICK v : c = Method("AlarmControlPanel", v, on, name)
    BY DEF find_action, alarm_control_panel_actions
  <1>3. c = EntityHandle("AlarmControlPanel", v, on).methods[name]
    BY <1>2, MethodIs
  <1>4. EntityHandle("AlarmControlPanel", v, on).methods =
           [disarm |-> [command |-> 0, code |-> v], arm_away |-> [command |-> 1, code |-> v],
            arm_home |-> [command |-> 2, code |-> v]]
    BY DEF EntityHandle, AlarmControlPanelEntity, Handle, AlarmControlPanelStateCommand
  <1>5. DOMAIN c = {"command", "code"}
    BY <1>1, <1>3, <1>4
  <1> HIDE DEF c
  <1>6. /\ TypesOf["AlarmControlPanel"] = AlarmControlPanelTypes
        /\ "AlarmControlPanel" \in CommandDomains \ {"WaterHeater"}
    BY CommandDomainsAre DEF TypesOf
  <1>7. /\ TypesOf["AlarmControlPanel"].plain \subseteq DOMAIN c
        /\ DOMAIN c \subseteq TypesOf["AlarmControlPanel"].optional
                            \cup TypesOf["AlarmControlPanel"].plain
    BY <1>5, <1>6 DEF AlarmControlPanelTypes, Types
  <1>8. InRange(c)
    BY <1>5, FreeMembers DEF Fractions, Unsigned
  <1>9. Good("AlarmControlPanel", c)
    BY <1>6, <1>7, <1>8, GoodMembers
  <1> QED
    BY <1>9 DEF c

(* Cover. *)
LEMMA CoverActions ==
  ASSUME NEW name \in ActionsOf("Cover"), NEW values \in ValueLists(name), NEW on,
         find_action("Cover", name, values, on) # Bad
  PROVE  Good("Cover", find_action("Cover", name, values, on))
  <1> DEFINE c == find_action("Cover", name, values, on)
             v == IF name = "set_position" THEN First(values, parse_percent_or_unit) ELSE 0
  <1>1. name \in {"open", "close", "stop", "set_position"} /\ name # "command"
    BY DEF ActionsOf
  <1>2. AreTokens(values)
    BY <1>1, ValueListsAre
  <1>3. c = Method("Cover", v, on, name)
    BY DEF find_action, cover_actions
  <1>4. v # Bad /\ c = EntityHandle("Cover", v, on).methods[name]
    BY <1>3, MethodIs
  <1>5. v \in Limited
    BY <1>2, <1>4, FirstValue, UnitAssumption DEF Limited
  <1> HIDE DEF v
  <1>6. EntityHandle("Cover", v, on).methods =
           [open |-> [position |-> Unit, stop |-> 0],
            close |-> [position |-> 0, stop |-> 0],
            stop |-> [stop |-> 1], set_position |-> [position |-> v, stop |-> 0]]
    BY DEF EntityHandle, CoverEntity, Handle
  <1>7. \/ DOMAIN c = {"stop"}
        \/ DOMAIN c = {"position", "stop"} /\ c["position"] \in Limited
    BY <1>1, <1>4, <1>5, <1>6, UnitAssumption DEF Limited
  <1> HIDE DEF c
  <1>8. TypesOf["Cover"] = CoverTypes /\ "Cover" \in CommandDomains \ {"WaterHeater"}
    BY CommandDomainsAre DEF TypesOf
  <1>9. /\ TypesOf["Cover"].plain \subseteq DOMAIN c
        /\ DOMAIN c \subseteq TypesOf["Cover"].optional \cup TypesOf["Cover"].plain
    BY <1>7, <1>8 DEF CoverTypes, Types
  <1>10. InRange(c)
    BY <1>7 DEF InRange, Fractions, Unsigned
  <1>11. Good("Cover", c)
    BY <1>8, <1>9, <1>10, GoodMembers
  <1> QED
    BY <1>11 DEF c

(* Media player. *)
LEMMA MediaPlayerActions ==
  ASSUME NEW name \in ActionsOf("MediaPlayer"), NEW values \in ValueLists(name), NEW on,
         find_action("MediaPlayer", name, values, on) # Bad
  PROVE  Good("MediaPlayer", find_action("MediaPlayer", name, values, on))
  <1> DEFINE c == find_action("MediaPlayer", name, values, on)
             v == IF name = "set_volume" THEN First(values, parse_percent_or_unit) ELSE 0
  <1>1. name \in {"play", "pause", "stop", "set_volume"} /\ name # "command"
    BY DEF ActionsOf
  <1>2. AreTokens(values)
    BY <1>1, ValueListsAre
  <1>3. c = Method("MediaPlayer", v, on, name)
    BY DEF find_action, media_player_actions
  <1>4. v # Bad /\ c = EntityHandle("MediaPlayer", v, on).methods[name]
    BY <1>3, MethodIs
  <1>5. v \in Limited
    BY <1>2, <1>4, FirstValue, UnitAssumption DEF Limited
  <1> HIDE DEF v
  <1>6. EntityHandle("MediaPlayer", v, on).methods =
           [play |-> [command |-> 0], pause |-> [command |-> 1],
            stop |-> [command |-> 2], set_volume |-> [volume |-> v]]
    BY DEF EntityHandle, MediaPlayerEntity, Handle, MediaPlayerCommand
  <1>7. \/ DOMAIN c = {"command"}
        \/ DOMAIN c = {"volume"} /\ c["volume"] \in Limited
    BY <1>1, <1>4, <1>5, <1>6, UnitAssumption
  <1> HIDE DEF c
  <1>8. /\ TypesOf["MediaPlayer"] = MediaPlayerTypes
        /\ "MediaPlayer" \in CommandDomains \ {"WaterHeater"}
    BY CommandDomainsAre DEF TypesOf
  <1>9. /\ TypesOf["MediaPlayer"].plain \subseteq DOMAIN c
        /\ DOMAIN c \subseteq TypesOf["MediaPlayer"].optional \cup TypesOf["MediaPlayer"].plain
    BY <1>7, <1>8 DEF MediaPlayerTypes, Types
  <1>10. InRange(c)
    BY <1>7 DEF InRange, Fractions, Unsigned
  <1>11. Good("MediaPlayer", c)
    BY <1>8, <1>9, <1>10, GoodMembers
  <1> QED
    BY <1>11 DEF c

(* Date. *)
LEMMA DateActions ==
  ASSUME NEW name \in ActionsOf("Date"), NEW values \in ValueLists(name), NEW on,
         find_action("Date", name, values, on) # Bad
  PROVE  Good("Date", find_action("Date", name, values, on))
  <1> DEFINE c == find_action("Date", name, values, on)
             v == First(values, date_set)
  <1>1. name \in {"set"} /\ name # "command"
    BY DEF ActionsOf
  <1>2. AreTokens(values)
    BY <1>1, ValueListsAre
  <1>3. c = Method("Date", v, on, name)
    BY DEF find_action
  <1>4. v # Bad /\ c = EntityHandle("Date", v, on).methods[name]
    BY <1>3, MethodIs
  <1>5. v[1] \in Nat /\ v[2] \in Nat /\ v[3] \in Nat
    BY <1>2, <1>4, FirstValue
  <1> HIDE DEF v
  <1>6. EntityHandle("Date", v, on).methods =
           [set |-> [year |-> v[1], month |-> v[2], day |-> v[3]]]
    BY DEF EntityHandle, DateEntity, Handle
  <1>7. /\ DOMAIN c = {"year", "month", "day"}
        /\ c["year"] >= 0 /\ c["month"] >= 0 /\ c["day"] >= 0
    BY <1>1, <1>4, <1>5, <1>6, UnitAssumption
  <1> HIDE DEF c
  <1>8. TypesOf["Date"] = DateTypes /\ "Date" \in CommandDomains \ {"WaterHeater"}
    BY CommandDomainsAre DEF TypesOf
  <1>9. /\ TypesOf["Date"].plain \subseteq DOMAIN c
        /\ DOMAIN c \subseteq TypesOf["Date"].optional \cup TypesOf["Date"].plain
    BY <1>7, <1>8 DEF DateTypes, Types
  <1>10. InRange(c)
    BY <1>7 DEF InRange, Fractions, Unsigned
  <1>11. Good("Date", c)
    BY <1>8, <1>9, <1>10, GoodMembers
  <1> QED
    BY <1>11 DEF c

(* Time. *)
LEMMA TimeActions ==
  ASSUME NEW name \in ActionsOf("Time"), NEW values \in ValueLists(name), NEW on,
         find_action("Time", name, values, on) # Bad
  PROVE  Good("Time", find_action("Time", name, values, on))
  <1> DEFINE c == find_action("Time", name, values, on)
             v == First(values, time_set)
  <1>1. name \in {"set"} /\ name # "command"
    BY DEF ActionsOf
  <1>2. AreTokens(values)
    BY <1>1, ValueListsAre
  <1>3. c = Method("Time", v, on, name)
    BY DEF find_action
  <1>4. v # Bad /\ c = EntityHandle("Time", v, on).methods[name]
    BY <1>3, MethodIs
  <1>5. v[1] \in Nat /\ v[2] \in Nat /\ v[3] \in Nat
    BY <1>2, <1>4, FirstValue
  <1> HIDE DEF v
  <1>6. EntityHandle("Time", v, on).methods =
           [set |-> [hour |-> v[1], minute |-> v[2], second |-> v[3]]]
    BY DEF EntityHandle, TimeEntity, Handle
  <1>7. /\ DOMAIN c = {"hour", "minute", "second"}
        /\ c["hour"] >= 0 /\ c["minute"] >= 0 /\ c["second"] >= 0
    BY <1>1, <1>4, <1>5, <1>6, UnitAssumption
  <1> HIDE DEF c
  <1>8. TypesOf["Time"] = TimeTypes /\ "Time" \in CommandDomains \ {"WaterHeater"}
    BY CommandDomainsAre DEF TypesOf
  <1>9. /\ TypesOf["Time"].plain \subseteq DOMAIN c
        /\ DOMAIN c \subseteq TypesOf["Time"].optional \cup TypesOf["Time"].plain
    BY <1>7, <1>8 DEF TimeTypes, Types
  <1>10. InRange(c)
    BY <1>7 DEF InRange, Fractions, Unsigned
  <1>11. Good("Time", c)
    BY <1>8, <1>9, <1>10, GoodMembers
  <1> QED
    BY <1>11 DEF c

(* Date and time. *)
LEMMA DateTimeActions ==
  ASSUME NEW name \in ActionsOf("DateTime"), NEW values \in ValueLists(name), NEW on,
         find_action("DateTime", name, values, on) # Bad
  PROVE  Good("DateTime", find_action("DateTime", name, values, on))
  <1> DEFINE c == find_action("DateTime", name, values, on)
             v == First(values, parse_uint)
  <1>1. name \in {"set"} /\ name # "command"
    BY DEF ActionsOf
  <1>2. AreTokens(values)
    BY <1>1, ValueListsAre
  <1>3. c = Method("DateTime", v, on, name)
    BY DEF find_action
  <1>4. v # Bad /\ c = EntityHandle("DateTime", v, on).methods[name]
    BY <1>3, MethodIs
  <1>5. v \in Nat
    BY <1>2, <1>4, FirstValue
  <1> HIDE DEF v
  <1>6. EntityHandle("DateTime", v, on).methods =
           [set |-> [epoch_seconds |-> v]]
    BY DEF EntityHandle, DateTimeEntity, Handle
  <1>7. DOMAIN c = {"epoch_seconds"} /\ c["epoch_seconds"] >= 0
    BY <1>1, <1>4, <1>5, <1>6, UnitAssumption
  <1> HIDE DEF c
  <1>8. TypesOf["DateTime"] = DateTimeTypes /\ "DateTime" \in CommandDomains \ {"WaterHeater"}
    BY CommandDomainsAre DEF TypesOf
  <1>9. /\ TypesOf["DateTime"].plain \subseteq DOMAIN c
        /\ DOMAIN c \subseteq TypesOf["DateTime"].optional \cup TypesOf["DateTime"].plain
    BY <1>7, <1>8 DEF DateTimeTypes, Types
  <1>10. InRange(c)
    BY <1>7 DEF InRange, Fractions, Unsigned
  <1>11. Good("DateTime", c)
    BY <1>8, <1>9, <1>10, GoodMembers
  <1> QED
    BY <1>11 DEF c

(* Valve. *)
LEMMA ValveActions ==
  ASSUME NEW name \in ActionsOf("Valve"), NEW values \in ValueLists(name), NEW on,
         find_action("Valve", name, values, on) # Bad
  PROVE  Good("Valve", find_action("Valve", name, values, on))
  <1> DEFINE c == find_action("Valve", name, values, on)
             p == First(values, parse_percent_or_unit)
  <1>1. name \in {"open", "close", "stop", "set_position"} /\ name # "command"
    BY DEF ActionsOf
  <1>2. AreTokens(values)
    BY <1>1, ValueListsAre
  <1>3. c = IF name = "set_position"
            THEN IF p = Bad THEN Bad ELSE [position |-> p, stop |-> 0]
            ELSE Method("Valve", 0, on, name)
    BY DEF find_action, valve_actions
  <1>4. p = Bad \/ p \in Limited
    BY <1>2, FirstValue
  <1> HIDE DEF p
  <1>5. EntityHandle("Valve", 0, on).methods =
           [open |-> [position |-> Unit, stop |-> 0],
            close |-> [position |-> 0, stop |-> 0], stop |-> [stop |-> 1]]
    BY DEF EntityHandle, ValveEntity, Handle
  <1>6. CASE name = "set_position"
    <2>1. p \in Limited /\ c = [position |-> p, stop |-> 0]
      BY <1>3, <1>4, <1>6
    <2>2. DOMAIN c = {"position", "stop"} /\ c["position"] \in Limited
      BY <2>1
    <2> QED
      BY <2>2, ValveGood
  <1>7. CASE name # "set_position"
    <2>1. c = EntityHandle("Valve", 0, on).methods[name]
      BY <1>3, <1>7, MethodIs
    <2>2. \/ DOMAIN c = {"stop"}
          \/ DOMAIN c = {"position", "stop"} /\ c["position"] \in Limited
      BY <1>1, <1>5, <1>7, <2>1, UnitAssumption DEF Limited
    <2> QED
      BY <2>2, ValveGood
  <1> QED
    BY <1>6, <1>7

(* Climate. *)
LEMMA ClimateActions ==
  ASSUME NEW name \in ActionsOf("Climate"), NEW values \in ValueLists(name), NEW on,
         find_action("Climate", name, values, on) # Bad
  PROVE  Good("Climate", find_action("Climate", name, values, on))
  <1> DEFINE c == find_action("Climate", name, values, on)
  <1>1. name \in {"set_mode", "set_target_temperature", "command"}
    BY DEF ActionsOf
  <1>2. c = climate_actions(name, values, on)
    BY DEF find_action
  <1>3. CASE name = "command"
    <2>1. AreKeyValues(values)
      BY <1>3, ValueListsAre
    <2>2. c = climate_command(values)
      BY <1>2, <1>3 DEF climate_actions
    <2> QED
      BY <2>1, <2>2, ClimateCommand DEF Good
  <1>4. CASE name # "command"
    <2>1. PICK v : c = Method("Climate", v, on, name)
      BY <1>1, <1>2, <1>4 DEF climate_actions
    <2>2. c = EntityHandle("Climate", v, on).methods[name]
      BY <2>1, MethodIs
    <2>3. EntityHandle("Climate", v, on).methods =
             [set_mode |-> [mode |-> v],
              set_target_temperature |-> [target_temperature |-> v]]
      BY DEF EntityHandle, ClimateEntity, Handle
    <2>4. DOMAIN c = {"mode"} \/ DOMAIN c = {"target_temperature"}
      BY <1>1, <1>4, <2>2, <2>3
    <2> HIDE DEF c
    <2>5. TypesOf["Climate"] = ClimateTypes /\ "Climate" \in CommandDomains \ {"WaterHeater"}
      BY CommandDomainsAre DEF TypesOf
    <2>6. /\ TypesOf["Climate"].plain \subseteq DOMAIN c
          /\ DOMAIN c \subseteq TypesOf["Climate"].optional \cup TypesOf["Climate"].plain
      BY <2>4, <2>5 DEF ClimateTypes, Types
    <2>7. InRange(c)
      BY <2>4, FreeMembers DEF Fractions, Unsigned
    <2>8. Good("Climate", c)
      BY <2>5, <2>6, <2>7, GoodMembers
    <2> QED
      BY <2>8 DEF c
  <1> QED
    BY <1>3, <1>4
(* Every action sends a command of its domain, with values in their ranges,   *)
(* unless a value is refused.                                                 *)
LEMMA ActionIsGood ==
  ASSUME NEW d \in CommandDomains, NEW name \in ActionsOf(d), NEW values \in ValueLists(name),
         NEW on, find_action(d, name, values, on) # Bad
  PROVE  Good(d, find_action(d, name, values, on))
  <1>1. CASE d \in {"Switch", "Siren", "Fan", "Light"}
    BY <1>1, SwitchActions, SirenActions, FanActions, LightActions, Zenon
  <1>2. CASE d \in {"Cover", "Valve", "MediaPlayer", "Climate"}
    BY <1>2, CoverActions, ValveActions, MediaPlayerActions, ClimateActions, Zenon
  <1>3. CASE d \in {"Number", "Select", "Text", "Button"}
    BY <1>3, NumberActions, SelectActions, TextActions, ButtonActions, Zenon
  <1>4. CASE d \in {"Lock", "Update", "AlarmControlPanel"}
    BY <1>4, LockActions, UpdateActions, AlarmControlPanelActions, Zenon
  <1>5. CASE d \in {"Date", "Time", "DateTime"}
    BY <1>5, DateActions, TimeActions, DateTimeActions, Zenon
  <1>6. CASE d = "WaterHeater"
    <2>1. ActionsOf("WaterHeater") = {}
      BY DEF ActionsOf
    <2> QED
      BY <1>6, <2>1
  <1> QED
    BY <1>1, <1>2, <1>3, <1>4, <1>5, <1>6, CommandDomainsAre

(* So are the whole commands of the handles. *)
LEMMA CommandIsGood ==
  ASSUME NEW d \in CommandDomains, NEW c \in Commands(d)
  PROVE  Good(d, c)
  <1> DEFINE A == {s \in SUBSET TypesOf[d].optional : Cardinality(s) <= 2}
             make(s, v) == [f \in s \cup TypesOf[d].plain |->
                               IF f = "rgb" THEN <<v, Unit, Unit - v>> ELSE v]
  <1>1. \A s \in A : s \subseteq TypesOf[d].optional
    OBVIOUS
  <1>2. c \in {make(s, v) : s \in A, v \in {0, 1}}
    <2>1. Commands(d) = {make(s, v) : s \in A, v \in {0, 1}}
      BY DEF Commands
    <2> HIDE DEF A, make
    <2> QED
      BY <2>1
  <1> HIDE DEF A, make
  <1>3. PICK engaged \in A, v \in {0, 1} : c = make(engaged, v)
    BY <1>2
  <1>4. c = [f \in engaged \cup TypesOf[d].plain |->
                IF f = "rgb" THEN <<v, Unit, Unit - v>> ELSE v]
    BY <1>3 DEF make
  <1>5. engaged \subseteq TypesOf[d].optional
    BY <1>1
  <1>6. DOMAIN c = engaged \cup TypesOf[d].plain
    BY <1>4
  <1>7. \A f \in DOMAIN c : c[f] = IF f = "rgb" THEN <<v, Unit, Unit - v>> ELSE v
    BY <1>4
  <1>8. v \in Limited /\ v >= 0
    BY UnitAssumption DEF Limited
  <1>9. \A f \in Fractions \cup Unsigned : f # "rgb"
    BY DEF Fractions, Unsigned
  <1>10. \A f \in DOMAIN c : f # "rgb" => c[f] \in {0, 1} /\ c[f] \in Limited /\ c[f] >= 0
    BY <1>7, <1>8
  <1>11. "rgb" \in DOMAIN c => \A i \in 1..3 : c["rgb"][i] \in Limited
    <2>1. \A i \in 1..3 : <<v, Unit, Unit - v>>[i] \in Limited
      BY UnitAssumption DEF Limited
    <2> QED
      BY <1>7, <2>1
  <1>12. InRange(c)
    BY <1>9, <1>10, <1>11 DEF InRange
  <1>13. IsCommand(d, c)
    <2>1. DOMAIN c \subseteq TypesOf[d].optional \cup TypesOf[d].plain
      BY <1>5, <1>6
    <2>2. \A f \in DOMAIN c \cap {"on_state", "away_state"} : c[f] \in {0, 1}
      BY <1>10
    <2> QED
      BY <1>6, <2>1, <2>2 DEF IsCommand
  <1> QED
    BY <1>12, <1>13 DEF Good

-----------------------------------------------------------------------------
(* The behaviours. *)

Follows == intended = Fold(domain, device, outbox)

(* The device and the wish have the members that a command can change, every  *)
(* message names an entity, and the messages lead from the device to the wish. *)
CliInv ==
    /\ domain \in CommandDomains
    /\ DOMAIN device = Keys /\ DOMAIN intended = Keys
    /\ \A k \in Keys :
          DOMAIN device[k] = Targets(domain) /\ DOMAIN intended[k] = Targets(domain)
    /\ \E S : outbox \in Seq([key : Keys, msg : S])
    /\ Follows

(* DeviceFollows, by the name of its fold. *)
LEMMA FollowsFold == DeviceFollows <=> Follows
  BY DEF DeviceFollows, Follows, Fold

(* A command changes no domain of a function. *)
LEMMA SameMembers ==
  ASSUME NEW d, NEW fields, NEW c, NEW m
  PROVE  DOMAIN Asks(fields, c) = DOMAIN fields /\ DOMAIN Applies(d, fields, m) = DOMAIN fields
  BY DEF Asks, Applies, water_heater_applies

(* Sending a command. *)
LEMMA SendFollows ==
  ASSUME CliInv, NEW k \in Keys, NEW c, Good(domain, c), send_command(k, c)
  PROVE  CliInv'
  <1> DEFINE m == [key |-> k, msg |-> to_message(domain, c)]
  <1>1. /\ outbox' = Append(outbox, m)
        /\ intended' = [intended EXCEPT ![k] = Asks(@, c)]
        /\ domain' = domain /\ device' = device
    BY DEF send_command
  <1>2. PICK S : outbox \in Seq([key : Keys, msg : S])
    BY DEF CliInv
  <1> DEFINE T == [key : Keys, msg : S \cup {m.msg}]
  <1>3. m \in T /\ [key : Keys, msg : S] \subseteq T
    OBVIOUS
  <1>4. outbox \in Seq(T)
    <2> HIDE DEF T
    <2> QED
      BY <1>2, <1>3, SeqMonotonic
  <1> HIDE DEF T, m
  <1>5. outbox' \in Seq(T)
    BY <1>1, <1>3, <1>4
  <1>6. /\ domain \in CommandDomains /\ DOMAIN device = Keys /\ DOMAIN intended = Keys
        /\ \A j \in Keys : DOMAIN device[j] = Targets(domain)
                           /\ DOMAIN intended[j] = Targets(domain)
        /\ Follows
    BY Zenon DEF CliInv
  <1>7. Fold(domain, device, Append(outbox, m)) = Step(domain, Fold(domain, device, outbox), m)
    BY <1>3, <1>4, FoldFacts
  <1>8. intended = Fold(domain, device, outbox)
    BY <1>6 DEF Follows
  <1>9. Fold(domain', device', outbox') = Step(domain, intended, m)
    BY <1>1, <1>7, <1>8
  <1>10. m.key = k /\ m.msg = to_message(domain, c)
    BY DEF m
  <1>11. Step(domain, intended, m) =
            [intended EXCEPT ![k] = Applies(domain, intended[k], to_message(domain, c))]
    BY <1>10 DEF Step
  <1>12. Applies(domain, intended[k], to_message(domain, c)) = Asks(intended[k], c)
    BY <1>6, AppliesAsks DEF Good
  <1>13. intended' = [intended EXCEPT ![k] = Asks(intended[k], c)]
    BY <1>1
  <1>14. Follows'
    <2>1. intended' = Fold(domain', device', outbox')
      BY <1>9, <1>11, <1>12, <1>13, Zenon
    <2> QED
      BY <2>1 DEF Follows
  <1>15. /\ DOMAIN intended' = Keys
         /\ \A j \in Keys : DOMAIN intended'[j] = Targets(domain)
    <2>1. DOMAIN Asks(intended[k], c) = Targets(domain)
      BY <1>6, SameMembers
    <2> QED
      BY <1>6, <1>13, <2>1
  <1>16. \E R : outbox' \in Seq([key : Keys, msg : R])
    BY <1>5 DEF T
  <1> QED
    BY <1>1, <1>6, <1>14, <1>15, <1>16 DEF CliInv

(* The device takes a message. *)
LEMMA ApplyFollows ==
  ASSUME CliInv, DeviceApplies
  PROVE  CliInv'
  <1> DEFINE m == Head(outbox)
  <1>1. /\ outbox # <<>> /\ outbox' = Tail(outbox)
        /\ device' = [device EXCEPT ![m.key] = Applies(domain, @, m.msg)]
        /\ domain' = domain /\ intended' = intended
    BY DEF DeviceApplies
  <1>2. PICK S : outbox \in Seq([key : Keys, msg : S])
    BY DEF CliInv
  <1> DEFINE T == [key : Keys, msg : S]
  <1>3. m \in T /\ Tail(outbox) \in Seq(T)
    <2>1. outbox \in Seq(T)
      BY <1>2
    <2> HIDE DEF T
    <2> QED
      BY <1>1, <2>1, HeadTailProperties
  <1>4. m.key \in Keys
    BY <1>3
  <1>5. /\ domain \in CommandDomains /\ DOMAIN device = Keys /\ DOMAIN intended = Keys
        /\ \A j \in Keys : DOMAIN device[j] = Targets(domain)
                           /\ DOMAIN intended[j] = Targets(domain)
        /\ Follows
    BY Zenon DEF CliInv
  <1>6. intended = Fold(domain, device, outbox)
    BY <1>5 DEF Follows
  <1> HIDE DEF T
  <1>7. Fold(domain, device, outbox) = Fold(domain, Step(domain, device, m), Tail(outbox))
    <2>1. outbox \in Seq(T)
      BY <1>2 DEF T
    <2> QED
      BY <1>1, <2>1, FoldFacts
  <1>8. device' = Step(domain, device, m)
    BY <1>1 DEF Step
  <1>9. Follows'
    <2>1. intended' = Fold(domain', device', outbox')
      BY <1>1, <1>6, <1>7, <1>8, Zenon
    <2> QED
      BY <2>1 DEF Follows
  <1> HIDE DEF m
  <1>10. DOMAIN device' = Keys /\ \A j \in Keys : DOMAIN device'[j] = Targets(domain)
    <2>1. DOMAIN Applies(domain, device[m.key], m.msg) = DOMAIN device[m.key]
      BY SameMembers
    <2>2. DOMAIN Applies(domain, device[m.key], m.msg) = Targets(domain)
      BY <1>4, <1>5, <2>1
    <2> QED
      BY <1>1, <1>4, <1>5, <2>2
  <1>11. \E R : outbox' \in Seq([key : Keys, msg : R])
    BY <1>1, <1>3 DEF T
  <1> QED
    BY <1>1, <1>5, <1>9, <1>10, <1>11 DEF CliInv

(* Nothing is sent and nothing arrives. *)
LEMMA StayFollows ==
  ASSUME CliInv, UNCHANGED <<domain, device, outbox, intended>>
  PROVE  CliInv'
  BY DEF CliInv, Follows

(* The first state. *)
LEMMA InitFollows ==
  ASSUME CliInit
  PROVE  CliInv
  <1>1. /\ domain \in Domains /\ device = [k \in Keys |-> [f \in Targets(domain) |-> 1]]
        /\ intended = device /\ outbox = <<>>
    BY DEF CliInit
  <1>2. outbox \in Seq([key : Keys, msg : {}])
    BY <1>1
  <1>3. Fold(domain, device, outbox) = device
    <2> DEFINE R == [key : Keys, msg : {}]
    <2>1. outbox \in Seq(R)
      BY <1>2
    <2> HIDE DEF R
    <2>2. ASSUME NEW S, outbox \in Seq(S), outbox = <<>>
          PROVE  Fold(domain, device, outbox) = device
      BY <2>2, FoldNothing
    <2> QED
      BY <1>1, <2>1, <2>2
  <1>4. Follows
    BY <1>1, <1>3 DEF Follows
  <1>5. domain \in CommandDomains
    BY <1>1, CliAssumption
  <1>6. \A k \in Keys : DOMAIN device[k] = Targets(domain)
    BY <1>1
  <1> QED
    BY <1>1, <1>2, <1>4, <1>5, <1>6 DEF CliInv

(* What a step is, for the proofs below. *)
LEMMA Steps ==
  ASSUME domain \in CommandDomains, CliNext
  PROVE  \/ \E k \in Keys : \E c : Good(domain, c) /\ send_command(k, c)
         \/ DeviceApplies
         \/ \E k \in Keys : DeviceReports(k)
         \/ UNCHANGED <<domain, device, outbox, cached, fresh, intended>>
  <1>1. CASE \E k \in Keys : HandleCommand(k)
    BY <1>1, CommandIsGood DEF HandleCommand
  <1>2. CASE \E k \in Keys : CliAction(k)
    <2>1. PICK k \in Keys : CliAction(k)
      BY <1>2
    <2>2. PICK name \in ActionsOf(domain) : \E values \in ValueLists(name) :
             LET c == find_action(domain, name, values, is_on(k))
             IN  IF c = Bad THEN UNCHANGED <<domain, device, outbox, cached, fresh, intended>>
                            ELSE send_command(k, c)
      BY <2>1 DEF CliAction
    <2>3. PICK values \in ValueLists(name) :
             LET c == find_action(domain, name, values, is_on(k))
             IN  IF c = Bad THEN UNCHANGED <<domain, device, outbox, cached, fresh, intended>>
                            ELSE send_command(k, c)
      BY <2>2
    <2> DEFINE c == find_action(domain, name, values, is_on(k))
    <2>4. CASE c = Bad
      BY <2>3, <2>4
    <2>5. CASE c # Bad
      <3>1. Good(domain, c)
        BY <2>5, ActionIsGood
      <3>2. send_command(k, c)
        BY <2>3, <2>5
      <3> QED
        BY <3>1, <3>2
    <2> QED
      BY <2>4, <2>5
  <1>3. CASE DeviceApplies
    BY <1>3
  <1>4. CASE \E k \in Keys : DeviceReports(k)
    BY <1>4
  <1> QED
    BY <1>1, <1>2, <1>3, <1>4 DEF CliNext

(* A step of the program or of the device, or none. *)
LEMMA NextFollows ==
  ASSUME CliInv, [CliNext]_cli_vars
  PROVE  CliInv'
  <1>1. CASE UNCHANGED cli_vars
    BY <1>1, StayFollows DEF cli_vars
  <1>2. CASE CliNext
    <2>1. domain \in CommandDomains
      BY DEF CliInv
    <2>2. CASE \E k \in Keys : \E c : Good(domain, c) /\ send_command(k, c)
      BY <2>2, SendFollows
    <2>3. CASE DeviceApplies
      BY <2>3, ApplyFollows
    <2>4. CASE \E k \in Keys : DeviceReports(k)
      BY <2>4, StayFollows DEF DeviceReports
    <2>5. CASE UNCHANGED <<domain, device, outbox, cached, fresh, intended>>
      BY <2>5, StayFollows
    <2> QED
      BY <1>2, <2>1, <2>2, <2>3, <2>4, <2>5, Steps
  <1> QED
    BY <1>1, <1>2

(* The invariant holds. *)
LEMMA CliInvHolds == CliSpec => []CliInv
  <1>1. CliInit => CliInv
    BY InitFollows
  <1>2. CliInv /\ [CliNext]_cli_vars => CliInv'
    BY NextFollows
  <1> QED
    BY <1>1, <1>2, PTL DEF CliSpec

(* The messages in flight change the device into what the calls asked for:    *)
(* to_message() of every domain says what the command engages and nothing     *)
(* else, for every number of entities, calls and messages in flight.          *)
THEOREM DeviceFollowsHolds == CliSpec => []DeviceFollows
  <1>1. CliInv => DeviceFollows
    BY FollowsFold DEF CliInv
  <1> QED
    BY <1>1, CliInvHolds, PTL
-----------------------------------------------------------------------------
(* The values. *)

FieldsInRange(fields) ==
    /\ \A f \in DOMAIN fields \cap Fractions : fields[f] \in Limited
    /\ \A f \in DOMAIN fields \cap Unsigned : fields[f] >= 0

RangeInv == \A k \in Keys : FieldsInRange(intended[k])

(* A command of values in range leaves values in range. *)
LEMMA AsksInRange ==
  ASSUME NEW fields, FieldsInRange(fields), NEW c, InRange(c)
  PROVE  FieldsInRange(Asks(fields, c))
  <1> DEFINE a == Asks(fields, c)
  <1>1. /\ DOMAIN a = DOMAIN fields
        /\ \A f \in DOMAIN fields :
              a[f] = CASE f \in DOMAIN c -> c[f]
                       [] f = "red" /\ "rgb" \in DOMAIN c -> c.rgb[1]
                       [] f = "green" /\ "rgb" \in DOMAIN c -> c.rgb[2]
                       [] f = "blue" /\ "rgb" \in DOMAIN c -> c.rgb[3]
                       [] OTHER -> fields[f]
    BY DEF Asks
  <1> HIDE DEF a
  <1>2. "rgb" \in DOMAIN c =>
           c.rgb[1] \in Limited /\ c.rgb[2] \in Limited /\ c.rgb[3] \in Limited
    BY DEF InRange
  <1>3. ASSUME NEW f \in DOMAIN fields, f \in Fractions PROVE a[f] \in Limited
    <2>1. CASE f \in DOMAIN c
      BY <1>1, <1>3, <2>1 DEF InRange
    <2>2. CASE f \notin DOMAIN c /\ f \in Channels /\ "rgb" \in DOMAIN c
      BY <1>1, <1>2, <2>2 DEF Channels
    <2>3. CASE f \notin DOMAIN c /\ ~(f \in Channels /\ "rgb" \in DOMAIN c)
      <3>1. a[f] = fields[f]
        BY <1>1, <2>3 DEF Channels
      <3> QED
        BY <1>3, <3>1 DEF FieldsInRange
    <2> QED
      BY <2>1, <2>2, <2>3
  <1>4. ASSUME NEW f \in DOMAIN fields, f \in Unsigned PROVE a[f] >= 0
    <2>1. CASE f \in DOMAIN c
      <3>1. a[f] = c[f]
        BY <1>1, <1>4, <2>1 DEF Unsigned
      <3>2. c[f] >= 0
        BY <1>4, <2>1, Zenon DEF InRange
      <3> QED
        BY <3>1, <3>2
    <2>2. CASE f \notin DOMAIN c
      <3>1. f \notin Channels
        BY <1>4 DEF Unsigned, Channels
      <3>2. a[f] = fields[f]
        BY <1>1, <2>2, <3>1 DEF Channels
      <3> QED
        BY <1>4, <3>2 DEF FieldsInRange
    <2> QED
      BY <2>1, <2>2
  <1>5. FieldsInRange(a)
    BY <1>1, <1>3, <1>4 DEF FieldsInRange
  <1> QED
    BY <1>5 DEF a

(* At first every member is 1. *)
LEMMA InitInRange ==
  ASSUME CliInit
  PROVE  RangeInv
  <1> SUFFICES ASSUME NEW k \in Keys PROVE FieldsInRange(intended[k])
    BY DEF RangeInv
  <1>1. intended[k] = [f \in Targets(domain) |-> 1]
    BY DEF CliInit
  <1>2. \A f \in DOMAIN intended[k] : intended[k][f] = 1
    BY <1>1
  <1>3. 1 \in Limited /\ 1 >= 0
    BY UnitAssumption DEF Limited
  <1> QED
    BY <1>2, <1>3 DEF FieldsInRange

(* Only a command changes what is asked for. *)
LEMMA NextInRange ==
  ASSUME CliInv, RangeInv, [CliNext]_cli_vars
  PROVE  RangeInv'
  <1>1. CASE intended' = intended
    BY <1>1 DEF RangeInv, FieldsInRange
  <1>2. CASE \E k \in Keys : \E c : Good(domain, c) /\ send_command(k, c)
    <2>1. PICK k \in Keys : \E c : Good(domain, c) /\ send_command(k, c)
      BY <1>2
    <2>2. PICK c : Good(domain, c) /\ send_command(k, c)
      BY <2>1
    <2>3. intended' = [intended EXCEPT ![k] = Asks(intended[k], c)]
      BY <2>2 DEF send_command
    <2>4. DOMAIN intended = Keys
      BY DEF CliInv
    <2>5. FieldsInRange(Asks(intended[k], c))
      BY <2>2, AsksInRange DEF Good, RangeInv
    <2>6. ASSUME NEW j \in Keys PROVE FieldsInRange(intended'[j])
      <3>1. intended'[j] = IF j = k THEN Asks(intended[k], c) ELSE intended[j]
        BY <2>3, <2>4
      <3>2. CASE j = k
        BY <2>5, <3>1, <3>2
      <3>3. CASE j # k
        BY <3>1, <3>3 DEF RangeInv
      <3> QED
        BY <3>2, <3>3
    <2>7. \A j \in Keys : FieldsInRange(intended'[j])
      BY <2>6
    <2> QED
      BY <2>7 DEF RangeInv, FieldsInRange
  <1>3. CASE CliNext
    <2>1. domain \in CommandDomains
      BY DEF CliInv
    <2> QED
      BY <1>1, <1>2, <1>3, <2>1, Steps DEF DeviceApplies, DeviceReports
  <1>4. CASE UNCHANGED cli_vars
    BY <1>1, <1>4 DEF cli_vars
  <1> QED
    BY <1>3, <1>4

(* No number outside of 0.0 to 1.0 is sent for a fraction and no negative one *)
(* for an unsigned member, whatever was typed: the parsers refuse or limit    *)
(* every number on the way to the command, in every action of every domain.   *)
(* What passes is NaN, which std::clamp does not limit.                       *)
THEOREM ValuesLimitedHolds == CliSpec => []ValuesLimited
  <1>1. CliInit => RangeInv
    BY InitInRange
  <1>2. CliInv /\ RangeInv /\ [CliNext]_cli_vars => RangeInv'
    BY NextInRange
  <1>3. CliInv /\ RangeInv => ValuesLimited
    <2> SUFFICES ASSUME CliInv, RangeInv, NEW k \in Keys, NEW f \in Targets(domain)
                 PROVE  /\ f \in Fractions => intended[k][f] \in Limited
                        /\ f \in Unsigned => intended[k][f] >= 0
      BY DEF ValuesLimited
    <2>1. DOMAIN intended[k] = Targets(domain)
      BY DEF CliInv
    <2> QED
      BY <2>1 DEF RangeInv, FieldsInRange
  <1> QED
    BY <1>1, <1>2, <1>3, CliInvHolds, PTL DEF CliSpec

-----------------------------------------------------------------------------
(* The cache. *)

(* Messages for other entities leave an entity alone. *)
LEMMA FoldUntouched ==
  ASSUME NEW d, NEW dev, NEW S, NEW box \in Seq(S), NEW k \in DOMAIN dev,
         \A i \in DOMAIN box : box[i].key # k
  PROVE  Fold(d, dev, box)[k] = dev[k]
  <1> DEFINE n == Len(box)
  <1>1. n \in Nat /\ DOMAIN box = 1..n
    OBVIOUS
  <1>2. PICK c : IsChain(c, d, dev, box) /\ Fold(d, dev, box) = c[n]
    BY FoldChain
  <1>3. c[0] = dev /\ \A i \in 1..n : c[i] = Step(d, c[i - 1], box[i])
    BY <1>2 DEF IsChain
  <1> HIDE DEF n
  <1> DEFINE T == {i \in Nat : i <= n => k \in DOMAIN c[i] /\ c[i][k] = dev[k]}
  <1>4. 0 \in T
    BY <1>3
  <1>5. ASSUME NEW i \in Nat, i \in T PROVE i + 1 \in T
    <2> SUFFICES ASSUME i + 1 <= n
                 PROVE  k \in DOMAIN c[i + 1] /\ c[i + 1][k] = dev[k]
      OBVIOUS
    <2> DEFINE j == i + 1
    <2>1. j \in 1..n /\ j - 1 = i /\ i <= n
      BY <1>1
    <2> HIDE DEF j
    <2>2. k \in DOMAIN c[i] /\ c[i][k] = dev[k]
      BY <1>5, <2>1
    <2> HIDE DEF T
    <2>3. c[j] = Step(d, c[j - 1], box[j])
      BY <1>3, <2>1, Zenon
    <2>4. c[j] = Step(d, c[i], box[j])
      BY <2>1, <2>3, Zenon
    <2>5. box[j].key # k
      BY <1>1, <2>1
    <2>6. k \in DOMAIN c[j] /\ c[j][k] = c[i][k]
      BY <2>2, <2>4, <2>5 DEF Step
    <2> QED
      BY <2>2, <2>6 DEF j
  <1> HIDE DEF T
  <1>6. Nat \subseteq T
    BY <1>4, <1>5, NumberInduction
  <1>7. n \in T
    BY <1>1, <1>6
  <1>8. c[n][k] = dev[k]
    BY <1>1, <1>7 DEF T
  <1> QED
    BY <1>2, <1>8

(* The parse functions fill every member of Info and State. *)
LEMMA ParsedTables ==
  ASSUME NEW d \in CommandDomains
  PROVE  /\ TypesOf[d].info \subseteq ParsedOf[d].info
         /\ TypesOf[d].state \subseteq ParsedOf[d].state
  <1>1. CASE d \in {"Switch", "Light", "Cover", "Fan"}
    <2>1. CASE d = "Switch"
      <3>1. TypesOf[d] = SwitchTypes /\ ParsedOf[d] = parse_switch
        BY <2>1 DEF TypesOf, ParsedOf
      <3> QED
        BY <3>1 DEF SwitchTypes, parse_switch, Types, Copies
    <2>2. CASE d = "Light"
      <3>1. TypesOf[d] = LightTypes /\ ParsedOf[d] = parse_light
        BY <2>2 DEF TypesOf, ParsedOf
      <3> QED
        BY <3>1 DEF LightTypes, parse_light, Types, Copies
    <2>3. CASE d = "Cover"
      <3>1. TypesOf[d] = CoverTypes /\ ParsedOf[d] = parse_cover
        BY <2>3 DEF TypesOf, ParsedOf
      <3> QED
        BY <3>1 DEF CoverTypes, parse_cover, Types, Copies
    <2>4. CASE d = "Fan"
      <3>1. TypesOf[d] = FanTypes /\ ParsedOf[d] = parse_fan
        BY <2>4 DEF TypesOf, ParsedOf
      <3> QED
        BY <3>1 DEF FanTypes, parse_fan, Types, Copies
    <2> QED
      BY <1>1, <2>1, <2>2, <2>3, <2>4
  <1>2. CASE d \in {"Climate", "Number", "Select", "Text"}
    <2>1. CASE d = "Climate"
      <3>1. TypesOf[d] = ClimateTypes /\ ParsedOf[d] = parse_climate
        BY <2>1 DEF TypesOf, ParsedOf
      <3> QED
        BY <3>1 DEF ClimateTypes, parse_climate, Types, Copies
    <2>2. CASE d = "Number"
      <3>1. TypesOf[d] = NumberTypes /\ ParsedOf[d] = parse_number
        BY <2>2 DEF TypesOf, ParsedOf
      <3> QED
        BY <3>1 DEF NumberTypes, parse_number, Types, Copies
    <2>3. CASE d = "Select"
      <3>1. TypesOf[d] = SelectTypes /\ ParsedOf[d] = parse_select
        BY <2>3 DEF TypesOf, ParsedOf
      <3> QED
        BY <3>1 DEF SelectTypes, parse_select, Types, Copies
    <2>4. CASE d = "Text"
      <3>1. TypesOf[d] = TextTypes /\ ParsedOf[d] = parse_text
        BY <2>4 DEF TypesOf, ParsedOf
      <3> QED
        BY <3>1 DEF TextTypes, parse_text, Types, Copies
    <2> QED
      BY <1>2, <2>1, <2>2, <2>3, <2>4
  <1>3. CASE d \in {"Button", "Lock", "MediaPlayer", "Siren"}
    <2>1. CASE d = "Button"
      <3>1. TypesOf[d] = ButtonTypes /\ ParsedOf[d] = parse_button
        BY <2>1 DEF TypesOf, ParsedOf
      <3> QED
        BY <3>1 DEF ButtonTypes, parse_button, Types, Copies
    <2>2. CASE d = "Lock"
      <3>1. TypesOf[d] = LockTypes /\ ParsedOf[d] = parse_lock
        BY <2>2 DEF TypesOf, ParsedOf
      <3> QED
        BY <3>1 DEF LockTypes, parse_lock, Types, Copies
    <2>3. CASE d = "MediaPlayer"
      <3>1. TypesOf[d] = MediaPlayerTypes /\ ParsedOf[d] = parse_media_player
        BY <2>3 DEF TypesOf, ParsedOf
      <3> QED
        BY <3>1 DEF MediaPlayerTypes, parse_media_player, Types, Copies
    <2>4. CASE d = "Siren"
      <3>1. TypesOf[d] = SirenTypes /\ ParsedOf[d] = parse_siren
        BY <2>4 DEF TypesOf, ParsedOf
      <3> QED
        BY <3>1 DEF SirenTypes, parse_siren, Types, Copies
    <2> QED
      BY <1>3, <2>1, <2>2, <2>3, <2>4
  <1>4. CASE d \in {"AlarmControlPanel", "Date", "Time", "DateTime"}
    <2>1. CASE d = "AlarmControlPanel"
      <3>1. TypesOf[d] = AlarmControlPanelTypes /\ ParsedOf[d] = parse_alarm_control_panel
        BY <2>1 DEF TypesOf, ParsedOf
      <3> QED
        BY <3>1 DEF AlarmControlPanelTypes, parse_alarm_control_panel, Types, Copies
    <2>2. CASE d = "Date"
      <3>1. TypesOf[d] = DateTypes /\ ParsedOf[d] = parse_date
        BY <2>2 DEF TypesOf, ParsedOf
      <3> QED
        BY <3>1 DEF DateTypes, parse_date, Types, Copies
    <2>3. CASE d = "Time"
      <3>1. TypesOf[d] = TimeTypes /\ ParsedOf[d] = parse_time
        BY <2>3 DEF TypesOf, ParsedOf
      <3> QED
        BY <3>1 DEF TimeTypes, parse_time, Types, Copies
    <2>4. CASE d = "DateTime"
      <3>1. TypesOf[d] = DateTimeTypes /\ ParsedOf[d] = parse_datetime
        BY <2>4 DEF TypesOf, ParsedOf
      <3> QED
        BY <3>1 DEF DateTimeTypes, parse_datetime, Types, Copies
    <2> QED
      BY <1>4, <2>1, <2>2, <2>3, <2>4
  <1>5. CASE d \in {"Valve", "Update", "WaterHeater"}
    <2>1. CASE d = "Valve"
      <3>1. TypesOf[d] = ValveTypes /\ ParsedOf[d] = parse_valve
        BY <2>1 DEF TypesOf, ParsedOf
      <3> QED
        BY <3>1 DEF ValveTypes, parse_valve, Types, Copies
    <2>2. CASE d = "Update"
      <3>1. TypesOf[d] = UpdateTypes /\ ParsedOf[d] = parse_update
        BY <2>2 DEF TypesOf, ParsedOf
      <3> QED
        BY <3>1 DEF UpdateTypes, parse_update, Types, Copies
    <2>3. CASE d = "WaterHeater"
      <3>1. TypesOf[d] = WaterHeaterTypes /\ ParsedOf[d] = parse_water_heater
        BY <2>3 DEF TypesOf, ParsedOf
      <3> QED
        BY <3>1 DEF WaterHeaterTypes, parse_water_heater, Types, Copies
    <2> QED
      BY <1>5, <2>1, <2>2, <2>3
  <1> QED
    BY <1>1, <1>2, <1>3, <1>4, <1>5, CommandDomainsAre

(* What was reported after the last change is what the device has. *)
CacheInv ==
    /\ DOMAIN cached = Keys /\ fresh \subseteq Keys
    /\ \A k \in fresh :
          /\ \A f \in TypesOf[domain].info : cached[k].info[f] = 1
          /\ \A f \in TypesOf[domain].state \cap Targets(domain) :
                cached[k].state[f] = device[k][f]

(* The device takes a message: what it changes is no longer fresh. *)
LEMMA ApplyCached ==
  ASSUME CliInv, CacheInv, DeviceApplies
  PROVE  CacheInv'
  <1> DEFINE m == Head(outbox)
  <1>1. /\ device' = [device EXCEPT ![m.key] = Applies(domain, @, m.msg)]
        /\ fresh' = fresh \ {m.key} /\ domain' = domain /\ cached' = cached
    BY DEF DeviceApplies
  <1> HIDE DEF m
  <1>2. DOMAIN device = Keys
    BY DEF CliInv
  <1>3. \A k \in fresh' : k \in fresh /\ k \in Keys /\ device'[k] = device[k]
    BY <1>1, <1>2 DEF CacheInv
  <1> QED
    BY <1>1, <1>3 DEF CacheInv

(* The device reports, and the parse functions fill the structures. *)
LEMMA ReportCached ==
  ASSUME CliInv, CacheInv, NEW k \in Keys, DeviceReports(k)
  PROVE  CacheInv'
  <1> DEFINE info == [f \in TypesOf[domain].info |->
                         IF f \in ParsedOf[domain].info THEN 1 ELSE 0]
             state == [f \in TypesOf[domain].state |->
                          IF f \in ParsedOf[domain].state \cap Targets(domain)
                          THEN device[k][f] ELSE 0]
             entry == [info |-> info, state |-> state]
  <1>1. /\ cached' = [cached EXCEPT ![k] = entry] /\ fresh' = fresh \cup {k}
        /\ domain' = domain /\ device' = device
    BY DEF DeviceReports
  <1>2. domain \in CommandDomains
    BY DEF CliInv
  <1>3. /\ TypesOf[domain].info \subseteq ParsedOf[domain].info
        /\ TypesOf[domain].state \subseteq ParsedOf[domain].state
    BY <1>2, ParsedTables
  <1>4. /\ \A f \in TypesOf[domain].info : info[f] = 1
        /\ \A f \in TypesOf[domain].state \cap Targets(domain) : state[f] = device[k][f]
    BY <1>3
  <1>5. entry.info = info /\ entry.state = state
    OBVIOUS
  <1> HIDE DEF info, state, entry
  <1>6. \A j \in Keys : cached'[j] = IF j = k THEN entry ELSE cached[j]
    BY <1>1 DEF CacheInv
  <1>7. DOMAIN cached' = Keys /\ fresh' \subseteq Keys
    BY <1>1 DEF CacheInv
  <1>8. ASSUME NEW j \in fresh'
        PROVE  /\ \A f \in TypesOf[domain].info : cached'[j].info[f] = 1
               /\ \A f \in TypesOf[domain].state \cap Targets(domain) :
                     cached'[j].state[f] = device[j][f]
    <2>1. CASE j = k
      BY <1>4, <1>5, <1>6, <2>1
    <2>2. CASE j # k
      <3>1. j \in fresh /\ j \in Keys /\ cached'[j] = cached[j]
        BY <1>1, <1>6, <1>7, <2>2
      <3> QED
        BY <3>1 DEF CacheInv
    <2> QED
      BY <2>1, <2>2
  <1> QED
    BY <1>1, <1>7, <1>8 DEF CacheInv

(* A step of the program or of the device, or none. *)
LEMMA NextCached ==
  ASSUME CliInv, CacheInv, [CliNext]_cli_vars
  PROVE  CacheInv'
  <1>1. CASE UNCHANGED <<domain, device, cached, fresh>>
    BY <1>1 DEF CacheInv
  <1>2. CASE UNCHANGED cli_vars
    BY <1>1, <1>2 DEF cli_vars
  <1>3. CASE CliNext
    <2>1. domain \in CommandDomains
      BY DEF CliInv
    <2>2. CASE \E k \in Keys : \E c : Good(domain, c) /\ send_command(k, c)
      BY <1>1, <2>2 DEF send_command
    <2>3. CASE UNCHANGED <<domain, device, outbox, cached, fresh, intended>>
      BY <1>1, <2>3
    <2> QED
      BY <1>3, <2>1, <2>2, <2>3, Steps, ApplyCached, ReportCached
  <1> QED
    BY <1>2, <1>3

(* Once an entity has reported after the last command to it was applied, its  *)
(* handle reads back what the calls asked for, and the accessors read what    *)
(* the device sent: for every number of entities, calls and messages.         *)
THEOREM HandleReadsBackHolds == CliSpec => []HandleReadsBack
  <1>1. CliInit => CacheInv
    BY DEF CliInit, CacheInv
  <1>2. CliInv /\ CacheInv /\ [CliNext]_cli_vars => CacheInv'
    BY NextCached
  <1>3. CliInv /\ CacheInv => HandleReadsBack
    <2> SUFFICES ASSUME CliInv, CacheInv, NEW k \in fresh
                 PROVE  /\ \A f \in EntityHandle(domain, <<0, 0, 0>>, 0).reads
                                     \cap TypesOf[domain].info : cached[k].info[f] = 1
                        /\ (\A i \in DOMAIN outbox : outbox[i].key # k) =>
                              \A f \in TypesOf[domain].state \cap Targets(domain) :
                                 cached[k].state[f] = intended[k][f]
      BY Zenon DEF HandleReadsBack
    <2>1. \A f \in EntityHandle(domain, <<0, 0, 0>>, 0).reads \cap TypesOf[domain].info :
             cached[k].info[f] = 1
      BY DEF CacheInv
    <2>2. ASSUME \A i \in DOMAIN outbox : outbox[i].key # k
          PROVE  intended[k] = device[k]
      <3>1. PICK S : outbox \in Seq([key : Keys, msg : S])
        BY DEF CliInv
      <3>2. k \in DOMAIN device /\ intended = Fold(domain, device, outbox)
        BY DEF CliInv, CacheInv, Follows
      <3> DEFINE T == [key : Keys, msg : S]
      <3>3. outbox \in Seq(T)
        BY <3>1
      <3> HIDE DEF T
      <3>4. Fold(domain, device, outbox)[k] = device[k]
        BY <2>2, <3>2, <3>3, FoldUntouched
      <3> QED
        BY <3>2, <3>4
    <2>3. \A f \in TypesOf[domain].state \cap Targets(domain) :
             cached[k].state[f] = device[k][f]
      BY DEF CacheInv
    <2> QED
      BY <2>1, <2>2, <2>3
  <1> QED
    BY <1>1, <1>2, <1>3, CliInvHolds, PTL DEF CliSpec
=============================================================================
