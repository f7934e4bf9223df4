----------------------------- MODULE HsmProofs ------------------------------
(***************************************************************************)
(* Every state tree: the machine accepts exactly the forests, and whatever *)
(* path of transitions led there, the active states are the current state  *)
(* and its ancestors.  Facts about chains are proved without induction:    *)
(* of the positions that break one, look at the first or the last.         *)
(***************************************************************************)
EXTENDS MissionHsm, FiniteSetTheorems, WellFoundedInduction, SequenceTheorems, TLAPS

\* Every nonempty set of naturals has a least element.
LEMMA LeastNatural ==
  ASSUME NEW S, S \subseteq Nat, S # {}
  PROVE  \E m \in S : \A n \in S : m <= n
<1>1. PICK m \in S : \A n \in S : <<n, m>> \notin OpToRel(<, Nat)
  BY NatLessThanWellFounded, WFMin
<1>2. \A n \in S : ~(n < m)
  BY <1>1 DEF OpToRel
<1>. QED
  BY <1>2

LEMMA MinIsLeast ==
  ASSUME NEW S, S \subseteq Nat, S # {}
  PROVE  Min(S) \in S /\ \A n \in S : Min(S) <= n
<1>1. PICK m \in S : \A n \in S : m <= n
  BY LeastNatural
<1>. QED
  BY <1>1 DEF Min

-----------------------------------------------------------------------------
(***************************************************************************)
(* Chains of one tree.  Climbs(c) is a path of it from c[1] to a root.     *)
(***************************************************************************)
Climbs(c) == c \in Seq(States) /\ c # <<>> /\ IsParentChain(par, c, c[1])

\* A climb, written out.
LEMMA ClimbFacts ==
  ASSUME NEW c, Climbs(c)
  PROVE  /\ Len(c) \in Nat \ {0} /\ DOMAIN c = 1 .. Len(c)
         /\ \A i \in 1 .. Len(c) : c[i] \in States
         /\ \A i \in 1 .. Len(c) - 1 : par[c[i]] = c[i + 1]
         /\ par[c[Len(c)]] = NoState
<1>1. /\ c \in Seq(States) /\ c # <<>> /\ Len(c) \in Nat /\ DOMAIN c = 1 .. Len(c)
      /\ \A i \in 1 .. Len(c) : c[i] \in States
  BY ElementOfSeq, LenProperties DEF Climbs
<1>2. Len(c) # 0
  BY <1>1, EmptySeq
<1>. QED
  BY <1>1, <1>2 DEF Climbs, IsParentChain

\* A set that parents do not leave holds a climb from where the climb enters it.
LEMMA ClimbStays ==
  ASSUME NEW c, Climbs(c), NEW S, Closed(S), NEW k \in 1 .. Len(c), c[k] \in S,
         NEW j \in k .. Len(c)
  PROVE  c[j] \in S
<1>. DEFINE Out == {i \in k .. Len(c) : c[i] \notin S}
<1>. SUFFICES ASSUME Out # {} PROVE FALSE
  OBVIOUS
<1>1. Len(c) \in Nat \ {0}
  BY ClimbFacts
<1>2. PICK i \in Out : \A n \in Out : i <= n
  <2>1. Out \subseteq Nat
    BY <1>1
  <2>. QED
    BY <2>1, LeastNatural
<1>3. i # k /\ i - 1 \in k .. Len(c) /\ i - 1 \in 1 .. Len(c) - 1 /\ i - 1 \notin Out
  BY <1>1, <1>2
<1>4. c[i - 1] \in S /\ par[c[i - 1]] = c[i] /\ c[i] \in States
  BY <1>1, <1>2, <1>3, ClimbFacts
<1>5. par[c[i - 1]] \in S \cup {NoState}
  BY <1>4 DEF Closed
<1>. QED
  BY <1>2, <1>4, <1>5, TreeAssumption

\* A climb passes no state twice.
LEMMA ClimbInjective ==
  ASSUME NEW c, Climbs(c), NEW i \in 1 .. Len(c), NEW j \in 1 .. Len(c), c[i] = c[j]
  PROVE  i = j
<1>. DEFINE Twice == {d \in Nat : \E m, n \in 1 .. Len(c) : m < n /\ c[m] = c[n] /\ d = Len(c) - n}
<1>1. Len(c) \in Nat \ {0}
  BY ClimbFacts
<1>2. Twice = {}
  <2>. SUFFICES ASSUME Twice # {} PROVE FALSE
    OBVIOUS
  <2>1. PICK d \in Twice : \A e \in Twice : d <= e
    <3>1. Twice \subseteq Nat
      OBVIOUS
    <3>. QED
      BY <3>1, LeastNatural
  <2>2. PICK m \in 1 .. Len(c), n \in 1 .. Len(c) : m < n /\ c[m] = c[n] /\ d = Len(c) - n
    BY <2>1
  <2>3. m \in 1 .. Len(c) - 1 /\ m + 1 \in 1 .. Len(c)
    BY <1>1, <2>2
  <2>4. par[c[m]] = c[m + 1] /\ c[m + 1] \in States
    BY <2>3, ClimbFacts
  <2>5. CASE n = Len(c)
    <3>1. par[c[n]] = NoState
      BY <2>5, ClimbFacts
    <3>. QED
      BY <2>2, <2>4, <3>1, TreeAssumption
  <2>6. CASE n # Len(c)
    <3>1. n \in 1 .. Len(c) - 1 /\ n + 1 \in 1 .. Len(c)
      BY <1>1, <2>6
    <3>2. par[c[n]] = c[n + 1]
      BY <3>1, ClimbFacts
    <3>3. c[m + 1] = c[n + 1] /\ m + 1 < n + 1 /\ d - 1 = Len(c) - (n + 1) /\ d - 1 \in Nat
      BY <1>1, <2>2, <2>4, <3>1, <3>2
    <3>4. d - 1 \in Twice
      BY <2>3, <3>1, <3>3
    <3>5. d \in Nat /\ d <= d - 1
      BY <2>1, <3>4
    <3>. QED
      BY <3>5
  <2>. QED
    BY <2>5, <2>6
<1>3. \A m, n \in 1 .. Len(c) : ~(m < n /\ c[m] = c[n])
  <2>1. \A n \in 1 .. Len(c) : Len(c) - n \in Nat
    BY <1>1
  <2>. QED
    BY <1>2, <2>1
<1>. QED
  BY <1>1, <1>3

\* What is left of a climb from some point is closed.
LEMMA RestClosed ==
  ASSUME NEW c, Climbs(c), NEW k \in 1 .. Len(c)
  PROVE  Closed({c[j] : j \in k .. Len(c)})
<1>. DEFINE S == {c[j] : j \in k .. Len(c)}
<1>. SUFFICES ASSUME NEW j \in k .. Len(c) PROVE par[c[j]] \in S \cup {NoState}
  BY DEF Closed
<1>1. Len(c) \in Nat \ {0}
  BY ClimbFacts
<1>2. CASE j = Len(c)
  BY <1>2, ClimbFacts
<1>3. CASE j # Len(c)
  <2>1. j \in 1 .. Len(c) - 1 /\ j + 1 \in k .. Len(c)
    BY <1>1, <1>3
  <2>2. par[c[j]] = c[j + 1]
    BY <2>1, ClimbFacts
  <2>. QED
    BY <2>1, <2>2
<1>. QED
  BY <1>2, <1>3

\* The states of a climb are its first one and the ancestors of it.
LEMMA ClimbIsAncestors ==
  ASSUME NEW c, Climbs(c)
  PROVE  ToSet(c) = Ancestors(c[1])
<1>1. /\ Len(c) \in Nat \ {0} /\ DOMAIN c = 1 .. Len(c)
      /\ \A i \in 1 .. Len(c) : c[i] \in States
  BY ClimbFacts
<1>2. 1 \in 1 .. Len(c) /\ ToSet(c) = {c[j] : j \in 1 .. Len(c)}
  BY <1>1 DEF ToSet
<1>3. ToSet(c) \subseteq Ancestors(c[1])
  <2>. SUFFICES ASSUME NEW j \in 1 .. Len(c), NEW S \in SUBSET States, c[1] \in S, Closed(S)
                PROVE  c[j] \in S
    BY <1>1, <1>2 DEF Ancestors
  <2>. QED
    BY <1>2, ClimbStays
<1>4. Ancestors(c[1]) \subseteq ToSet(c)
  <2>1. Closed(ToSet(c)) /\ ToSet(c) \in SUBSET States /\ c[1] \in ToSet(c)
    BY <1>1, <1>2, RestClosed
  <2>. QED
    BY <2>1 DEF Ancestors
<1>. QED
  BY <1>3, <1>4

\* A climb is no longer than the number of states.
LEMMA ClimbIsShort ==
  ASSUME NEW c, Climbs(c)
  PROVE  c \in Paths
<1>1. /\ Len(c) \in Nat \ {0} /\ DOMAIN c = 1 .. Len(c) /\ c \in Seq(States)
      /\ \A i \in 1 .. Len(c) : c[i] \in States
  BY ClimbFacts DEF Climbs
<1>2. c \in [1 .. Len(c) -> States]
  BY <1>1, LenProperties
<1>3. c \in Injection(1 .. Len(c), States)
  BY <1>2, ClimbInjective DEF Injection, IsInjective
<1>4. Cardinality(1 .. Len(c)) <= Cardinality(States) /\ Cardinality(States) \in Nat
  BY <1>3, TreeAssumption, FS_Injection, FS_CardinalityType
<1>5. Cardinality(1 .. Len(c)) = Len(c)
  BY <1>1, FS_Interval
<1>6. Len(c) \in 0 .. Cardinality(States)
  BY <1>1, <1>4, <1>5
<1>. QED
  BY <1>2, <1>6 DEF Paths, BoundedSeq, SeqOf

-----------------------------------------------------------------------------
(***************************************************************************)
(* Construction.                                                           *)
(***************************************************************************)

\* Going one step further down, a climb stays one.
LEMMA ClimbExtends ==
  ASSUME NEW c, Climbs(c), NEW s \in States, par[s] = c[1]
  PROVE  Climbs(<<s>> \o c)
<1>. DEFINE d == <<s>> \o c
<1>1. /\ Len(c) \in Nat \ {0} /\ c \in Seq(States)
      /\ \A i \in 1 .. Len(c) - 1 : par[c[i]] = c[i + 1]
      /\ par[c[Len(c)]] = NoState
  BY ClimbFacts DEF Climbs
<1>2. /\ d \in Seq(States) /\ Len(d) = Len(c) + 1 /\ d[1] = s
      /\ \A i \in 2 .. Len(d) : d[i] = c[i - 1]
  <2>1. <<s>> \in Seq(States) /\ Len(<<s>>) = 1 /\ <<s>>[1] = s
    OBVIOUS
  <2>. QED
    BY <1>1, <2>1, ConcatProperties
<1>. HIDE DEF d
<1>3. ASSUME NEW i \in 1 .. Len(d) - 1 PROVE d[i + 1] = par[d[i]]
  <2>1. CASE i = 1
    <3>1. 2 \in 2 .. Len(d) /\ d[2] = c[1]
      BY <1>1, <1>2
    <3>. QED
      BY <1>2, <2>1, <3>1
  <2>2. CASE i # 1
    <3>1. i \in 2 .. Len(d) /\ i + 1 \in 2 .. Len(d) /\ i - 1 \in 1 .. Len(c) - 1
      BY <1>1, <1>2, <2>2
    <3>2. d[i] = c[i - 1] /\ d[i + 1] = c[i] /\ par[c[i - 1]] = c[i]
      <4>1. i + 1 - 1 = i /\ i - 1 + 1 = i
        BY <3>1
      <4>. QED
        BY <1>1, <1>2, <3>1, <4>1
    <3>. QED
      BY <3>2
  <2>. QED
    BY <2>1, <2>2
<1>4. par[d[Len(d)]] = NoState /\ d # <<>>
  <2>1. Len(d) \in 2 .. Len(d) /\ Len(d) - 1 = Len(c)
    BY <1>1, <1>2
  <2>2. Len(d) # 0
    BY <1>1, <1>2
  <2>. QED
    BY <1>1, <1>2, <2>1, <2>2, EmptySeq
<1>5. Climbs(d)
  BY <1>2, <1>3, <1>4 DEF Climbs, IsParentChain
<1>. QED
  BY <1>5 DEF d

\* In a forest every state has a climb: of those without, one would have a
\* parent with.
LEMMA ForestClimbs ==
  ASSUME par \in Parents, Forest, NEW s \in States
  PROVE  \E c : Climbs(c) /\ c[1] = s
<1>. DEFINE Lost == {t \in States : ~\E c : Climbs(c) /\ c[1] = t}
<1>. SUFFICES ASSUME Lost # {} PROVE FALSE
  OBVIOUS
<1>1. PICK t \in Lost : par[t] \notin Lost
  BY DEF Forest
<1>2. CASE par[t] = NoState
  <2>1. <<t>> \in Seq(States) /\ Len(<<t>>) = 1 /\ <<t>>[1] = t /\ <<t>> # <<>>
    OBVIOUS
  <2>2. Climbs(<<t>>)
    BY <1>2, <2>1 DEF Climbs, IsParentChain
  <2>. QED
    BY <2>1, <2>2
<1>3. CASE par[t] # NoState
  <2>1. par[t] \in States
    BY <1>3 DEF Parents
  <2>2. PICK c : Climbs(c) /\ c[1] = par[t]
    BY <1>1, <2>1
  <2>3. Climbs(<<t>> \o c)
    BY <2>2, ClimbExtends
  <2>4. (<<t>> \o c)[1] = t
    <3>1. c \in Seq(States) /\ <<t>> \in Seq(States) /\ Len(<<t>>) = 1 /\ <<t>>[1] = t
      BY <2>2 DEF Climbs
    <3>. QED
      BY <3>1, ConcatProperties
  <2>. QED
    BY <2>3, <2>4
<1>. QED
  BY <1>2, <1>3

\* The bounded walk of MissionStateMachine::new is right: it neither rejects a
\* deep tree nor lets a cycle pass.
LEMMA AcceptedIsForest ==
  ASSUME par \in Parents
  PROVE  Accepted(par) <=> Forest
<1>1. ASSUME Forest PROVE Accepted(par)
  <2>. SUFFICES ASSUME NEW s \in States PROVE \E c \in Paths : IsParentChain(par, c, s)
    BY DEF Accepted
  <2>1. PICK c : Climbs(c) /\ c[1] = s
    BY <1>1, ForestClimbs
  <2>. QED
    BY <2>1, ClimbIsShort DEF Climbs
<1>2. ASSUME Accepted(par) PROVE Forest
  <2>. SUFFICES ASSUME NEW S \in (SUBSET States) \ {{}}, ~\E s \in S : par[s] \notin S
                PROVE  FALSE
    BY DEF Forest
  <2>1. PICK s \in S : s \in States /\ \A t \in S : par[t] \in S
    OBVIOUS
  <2>2. PICK c \in Paths : IsParentChain(par, c, s)
    BY <1>2 DEF Accepted
  <2>3. Climbs(c) /\ c[1] = s
    BY <2>2 DEF Climbs, IsParentChain, Paths, BoundedSeq, SeqOf
  <2>4. Closed(S) /\ Len(c) \in Nat \ {0}
    BY <2>1, <2>3, ClimbFacts DEF Closed
  <2>5. c[Len(c)] \in S
    BY <2>1, <2>3, <2>4, ClimbStays
  <2>. QED
    BY <2>1, <2>3, <2>5, ClimbFacts, TreeAssumption
<1>. QED
  BY <1>1, <1>2

\* The chain of a state in an accepted tree.
LEMMA ChainOfState ==
  ASSUME Accepted(par), NEW s \in States
  PROVE  /\ Climbs(parent_chain(par, s)) /\ parent_chain(par, s)[1] = s
         /\ ToSet(parent_chain(par, s)) = Ancestors(s)
<1>1. parent_chain(par, s) \in Paths /\ IsParentChain(par, parent_chain(par, s), s)
  BY DEF Accepted, parent_chain
<1>2. Climbs(parent_chain(par, s)) /\ parent_chain(par, s)[1] = s
  BY <1>1 DEF Climbs, IsParentChain, Paths, BoundedSeq, SeqOf
<1>. QED
  BY <1>2, ClimbIsAncestors

-----------------------------------------------------------------------------
(***************************************************************************)
(* The two chains of a transition.                                         *)
(***************************************************************************)

\* The part of a climb below s: all before s, or all of it.
LEMMA BelowFacts ==
  ASSUME NEW c, Climbs(c), NEW s
  PROVE  \E n \in 0 .. Len(c) :
           /\ Below(c, s) \in Seq(States) /\ Len(Below(c, s)) = n
           /\ \A i \in 1 .. n : Below(c, s)[i] = c[i] /\ c[i] # s
           /\ n < Len(c) => c[n + 1] = s
<1>. DEFINE I == {i \in 1 .. Len(c) : c[i] = s}
<1>1. Below(c, s) = IF I = {} THEN c ELSE IF Min(I) = 0 THEN c ELSE SubSeq(c, 1, Min(I) - 1)
  BY DEF Below, SelectInSeq
<1>2. Len(c) \in Nat \ {0} /\ c \in Seq(States)
  BY ClimbFacts DEF Climbs
<1>3. CASE I = {}
  <2>1. Below(c, s) = c /\ Len(c) \in 0 .. Len(c) /\ \A i \in 1 .. Len(c) : c[i] # s
    BY <1>1, <1>2, <1>3
  <2>. QED
    BY <1>2, <2>1
<1>4. CASE I # {}
  <2>1. Min(I) \in 1 .. Len(c) /\ c[Min(I)] = s /\ \A i \in I : Min(I) <= i
    <3>1. I \subseteq Nat
      BY <1>2
    <3>. QED
      BY <1>4, <3>1, MinIsLeast
  <2>. DEFINE n == Min(I) - 1
  <2>2. n \in 0 .. Len(c) /\ n + 1 = Min(I) /\ Min(I) # 0
    BY <1>2, <2>1
  <2>3. \A i \in 1 .. n : i \in 1 .. Len(c) /\ c[i] # s
    BY <1>2, <2>1, <2>2
  <2>4. Below(c, s) = SubSeq(c, 1, n)
    BY <1>1, <1>4, <2>2
  <2>. HIDE DEF n, I
  <2>5. /\ SubSeq(c, 1, n) \in Seq(States) /\ Len(SubSeq(c, 1, n)) = n
        /\ \A i \in 1 .. n : SubSeq(c, 1, n)[i] = c[i]
    <3>1. \A i \in 1 .. n : c[i] \in States
      BY <2>3, ClimbFacts
    <3>. QED
      BY <1>2, <2>2, <3>1
  <2>. QED
    BY <2>1, <2>2, <2>3, <2>4, <2>5
<1>. QED
  BY <1>3, <1>4

\* lca is the first state of b's chain that is on a's, if there is one.
LEMMA LcaFacts ==
  ASSUME Accepted(par), NEW a \in States, NEW b \in States, NEW cb, cb = parent_chain(par, b)
  PROVE  \/ /\ lca(par, a, b) = NoState
            /\ \A i \in 1 .. Len(cb) : cb[i] \notin Ancestors(a)
         \/ \E i \in 1 .. Len(cb) :
              /\ lca(par, a, b) = cb[i] /\ cb[i] \in Ancestors(a)
              /\ \A j \in 1 .. i - 1 : cb[j] \notin Ancestors(a)
<1>. DEFINE I == {i \in 1 .. Len(cb) : cb[i] \in Ancestors(a)}
<1>1. lca(par, a, b) = IF I = {} THEN NoState ELSE IF Min(I) = 0 THEN NoState ELSE cb[Min(I)]
  <2>1. ToSet(parent_chain(par, a)) = Ancestors(a)
    BY ChainOfState
  <2>. QED
    BY <2>1 DEF lca, SelectInSeq
<1>2. Len(cb) \in Nat \ {0}
  BY ChainOfState, ClimbFacts
<1>3. CASE I = {}
  BY <1>1, <1>3
<1>4. CASE I # {}
  <2>1. Min(I) \in 1 .. Len(cb) /\ cb[Min(I)] \in Ancestors(a) /\ \A i \in I : Min(I) <= i
    <3>1. I \subseteq Nat
      BY <1>2
    <3>. QED
      BY <1>4, <3>1, MinIsLeast
  <2>2. PICK i \in 1 .. Len(cb) : i = Min(I)
    BY <2>1
  <2>3. \A j \in 1 .. i - 1 : j \in 1 .. Len(cb) /\ ~(i <= j)
    BY <1>2, <2>2
  <2>4. \A j \in 1 .. i - 1 : cb[j] \notin Ancestors(a)
    BY <2>1, <2>2, <2>3
  <2>5. i # 0 /\ cb[i] \in Ancestors(a)
    BY <1>2, <2>1, <2>2
  <2>6. lca(par, a, b) = cb[i]
    BY <1>1, <1>4, <2>2, <2>5
  <2>. HIDE DEF I
  <2>. QED
    BY <2>4, <2>5, <2>6
<1>. QED
  BY <1>3, <1>4

\* Parents of ancestors are ancestors.
LEMMA AncestorsClosed ==
  ASSUME Accepted(par), NEW s \in States
  PROVE  Closed(Ancestors(s)) /\ s \in Ancestors(s) /\ Ancestors(s) \subseteq States
<1>. DEFINE c == parent_chain(par, s)
<1>1. Climbs(c) /\ ToSet(c) = Ancestors(s) /\ c[1] = s
  BY ChainOfState
<1>2. ToSet(c) = {c[j] : j \in 1 .. Len(c)} /\ 1 \in 1 .. Len(c)
  BY <1>1, ClimbFacts DEF ToSet
<1>. QED
  BY <1>1, <1>2, RestClosed DEF Ancestors

\* What a transition enters: the ancestors of b that are not ancestors of a.
LEMMA EnterSet ==
  ASSUME Accepted(par), NEW a \in States, NEW b \in States
  PROVE  ToSet(Below(parent_chain(par, b), lca(par, a, b))) = Ancestors(b) \ Ancestors(a)
<1>. DEFINE c == parent_chain(par, b)
            l == lca(par, a, b)
            e == Below(c, l)
<1>1. Climbs(c) /\ ToSet(c) = Ancestors(b) /\ Closed(Ancestors(a))
  BY ChainOfState, AncestorsClosed
<1>2. Len(c) \in Nat \ {0} /\ ToSet(c) = {c[i] : i \in 1 .. Len(c)}
  BY <1>1, ClimbFacts DEF ToSet
<1>3. PICK n \in 0 .. Len(c) : /\ e \in Seq(States) /\ Len(e) = n
                               /\ \A i \in 1 .. n : e[i] = c[i] /\ c[i] # l
                               /\ n < Len(c) => c[n + 1] = l
  BY <1>1, BelowFacts
<1>4. ToSet(e) = {c[i] : i \in 1 .. n}
  <2>. HIDE DEF e, c, l
  <2>. QED
    BY <1>3 DEF ToSet
<1>5. \/ l = NoState /\ \A i \in 1 .. Len(c) : c[i] \notin Ancestors(a)
      \/ \E i \in 1 .. Len(c) : /\ l = c[i] /\ c[i] \in Ancestors(a)
                                /\ \A j \in 1 .. i - 1 : c[j] \notin Ancestors(a)
  BY LcaFacts
<1>6. CASE l = NoState /\ \A i \in 1 .. Len(c) : c[i] \notin Ancestors(a)
  <2>1. ~(n < Len(c))
    <3>. SUFFICES ASSUME n < Len(c) PROVE FALSE
      OBVIOUS
    <3>1. n + 1 \in 1 .. Len(c) /\ c[n + 1] = NoState
      BY <1>2, <1>3, <1>6
    <3>2. c[n + 1] \in States
      BY <1>1, <3>1, ClimbFacts
    <3>. QED
      BY <3>1, <3>2, TreeAssumption
  <2>2. n = Len(c)
    BY <1>2, <2>1
  <2>. HIDE DEF e, c, l
  <2>. QED
    BY <1>1, <1>2, <1>4, <1>6, <2>2 DEF e, c, l
<1>7. ASSUME NEW i \in 1 .. Len(c), l = c[i], c[i] \in Ancestors(a),
             \A j \in 1 .. i - 1 : c[j] \notin Ancestors(a)
      PROVE  ToSet(e) = Ancestors(b) \ Ancestors(a)
  <2>1. n = i - 1
    <3>1. ~(i <= n)
      BY <1>2, <1>3, <1>7
    <3>2. n < Len(c) /\ n + 1 \in 1 .. Len(c) /\ c[n + 1] = c[i]
      BY <1>2, <1>3, <1>7, <3>1
    <3>3. n + 1 = i
      BY <1>1, <3>2, ClimbInjective
    <3>. QED
      BY <1>2, <3>3
  <2>2. \A j \in i .. Len(c) : c[j] \in Ancestors(a)
    BY <1>1, <1>7, ClimbStays
  <2>3. \A j \in 1 .. Len(c) : j \in 1 .. n <=> c[j] \notin Ancestors(a)
    <3>. HIDE DEF c
    <3>. QED
      BY <1>2, <1>7, <2>1, <2>2
  <2>4. 1 .. n \subseteq 1 .. Len(c)
    BY <1>2
  <2>. HIDE DEF e, c, l
  <2>. QED
    BY <1>1, <1>2, <1>4, <2>3, <2>4
<1>. HIDE DEF e, c, l
<1>8. ToSet(e) = Ancestors(b) \ Ancestors(a)
  BY <1>5, <1>6, <1>7 DEF e, c, l
<1>. QED
  BY <1>8 DEF e, c, l

\* What it exits: the ancestors of a that are not ancestors of b.
LEMMA ExitSet ==
  ASSUME Accepted(par), NEW a \in States, NEW b \in States
  PROVE  ToSet(Below(parent_chain(par, a), lca(par, a, b))) = Ancestors(a) \ Ancestors(b)
<1>. DEFINE c == parent_chain(par, a)
            d == parent_chain(par, b)
            l == lca(par, a, b)
            e == Below(c, l)
<1>1. /\ Climbs(c) /\ ToSet(c) = Ancestors(a) /\ Closed(Ancestors(b))
      /\ Climbs(d) /\ ToSet(d) = Ancestors(b)
  BY ChainOfState, AncestorsClosed
<1>2. /\ Len(c) \in Nat \ {0} /\ ToSet(c) = {c[i] : i \in 1 .. Len(c)}
      /\ Len(d) \in Nat \ {0} /\ ToSet(d) = {d[i] : i \in 1 .. Len(d)}
  BY <1>1, ClimbFacts DEF ToSet
<1>3. PICK n \in 0 .. Len(c) : /\ e \in Seq(States) /\ Len(e) = n
                               /\ \A i \in 1 .. n : e[i] = c[i] /\ c[i] # l
                               /\ n < Len(c) => c[n + 1] = l
  BY <1>1, BelowFacts
<1>4. ToSet(e) = {c[i] : i \in 1 .. n}
  <2>. HIDE DEF e, c, l
  <2>. QED
    BY <1>3 DEF ToSet
<1>5. \/ l = NoState /\ \A i \in 1 .. Len(d) : d[i] \notin Ancestors(a)
      \/ \E i \in 1 .. Len(d) : /\ l = d[i] /\ d[i] \in Ancestors(a)
                                /\ \A j \in 1 .. i - 1 : d[j] \notin Ancestors(a)
  BY LcaFacts
<1>6. CASE l = NoState /\ \A i \in 1 .. Len(d) : d[i] \notin Ancestors(a)
  <2>1. ~(n < Len(c))
    <3>. SUFFICES ASSUME n < Len(c) PROVE FALSE
      OBVIOUS
    <3>1. n + 1 \in 1 .. Len(c) /\ c[n + 1] = NoState
      BY <1>2, <1>3, <1>6
    <3>2. c[n + 1] \in States
      BY <1>1, <3>1, ClimbFacts
    <3>. QED
      BY <3>1, <3>2, TreeAssumption
  <2>2. n = Len(c)
    BY <1>2, <2>1
  <2>. HIDE DEF e, c, d, l
  <2>3. Ancestors(a) \cap Ancestors(b) = {}
    BY <1>1, <1>2, <1>6
  <2>. QED
    BY <1>1, <1>2, <1>4, <2>2, <2>3 DEF e, c, l
<1>7. ASSUME NEW i \in 1 .. Len(d), l = d[i], d[i] \in Ancestors(a),
             \A j \in 1 .. i - 1 : d[j] \notin Ancestors(a)
      PROVE  ToSet(e) = Ancestors(a) \ Ancestors(b)
  <2>. HIDE DEF c, d, l, e
  <2>1. PICK k \in 1 .. Len(c) : c[k] = l
    BY <1>1, <1>2, <1>7
  <2>2. n = k - 1
    <3>1. ~(k <= n)
      BY <1>2, <1>3, <2>1
    <3>2. n < Len(c) /\ n + 1 \in 1 .. Len(c) /\ c[n + 1] = c[k]
      BY <1>2, <1>3, <2>1, <3>1
    <3>3. n + 1 = k
      BY <1>1, <3>2, ClimbInjective
    <3>. QED
      BY <1>2, <3>3
  <2>3. \A j \in k .. Len(c) : c[j] \in Ancestors(b)
    <3>1. c[k] \in Ancestors(b)
      BY <1>1, <1>2, <1>7, <2>1
    <3>. QED
      BY <1>1, <3>1, ClimbStays
  <2>4. \A j \in 1 .. n : c[j] \notin Ancestors(b)
    <3>. SUFFICES ASSUME NEW j \in 1 .. n, c[j] \in Ancestors(b) PROVE FALSE
      OBVIOUS
    <3>0. j \in 1 .. Len(c) /\ j < k
      BY <1>2, <2>2
    <3>1. PICK q \in 1 .. Len(d) : d[q] = c[j]
      BY <1>1, <1>2
    <3>2. c[j] \in Ancestors(a)
      BY <1>1, <1>2, <3>0
    <3>3. q \in i .. Len(d)
      BY <1>2, <1>7, <3>1, <3>2
    <3>4. d[q] \in {c[m] : m \in k .. Len(c)}
      <4>1. d[i] \in {c[m] : m \in k .. Len(c)}
        BY <1>2, <1>7, <2>1
      <4>2. Closed({c[m] : m \in k .. Len(c)})
        BY <1>1, RestClosed
      <4>. QED
        BY <1>1, <3>3, <4>1, <4>2, ClimbStays
    <3>5. PICK m \in k .. Len(c) : c[m] = c[j]
      BY <3>1, <3>4
    <3>6. m \in 1 .. Len(c) /\ j < m
      BY <1>2, <3>0, <3>5
    <3>7. m = j
      BY <1>1, <3>0, <3>5, <3>6, ClimbInjective
    <3>. QED
      BY <1>2, <3>6, <3>7
  <2>5. \A j \in 1 .. Len(c) : j \in 1 .. n <=> c[j] \notin Ancestors(b)
    BY <1>2, <2>2, <2>3, <2>4
  <2>6. 1 .. n \subseteq 1 .. Len(c)
    BY <1>2
  <2>7. ASSUME NEW s \in ToSet(e) PROVE s \in Ancestors(a) \ Ancestors(b)
    <3>1. PICK j \in 1 .. n : s = c[j]
      BY <1>4, <2>7
    <3>2. j \in 1 .. Len(c)
      BY <2>6
    <3>. QED
      BY <1>1, <1>2, <2>5, <3>1, <3>2
  <2>8. ASSUME NEW s \in Ancestors(a), s \notin Ancestors(b) PROVE s \in ToSet(e)
    <3>1. PICK j \in 1 .. Len(c) : s = c[j]
      BY <1>1, <1>2
    <3>2. j \in 1 .. n
      BY <2>5, <2>8, <3>1
    <3>. QED
      BY <1>4, <3>1, <3>2
  <2>. QED
    BY <2>7, <2>8
<1>. HIDE DEF e, c, d, l
<1>8. ToSet(e) = Ancestors(a) \ Ancestors(b)
  BY <1>5, <1>6, <1>7 DEF e, c, l
<1>. QED
  BY <1>8 DEF e, c, l

-----------------------------------------------------------------------------
(***************************************************************************)
(* The order of the states on a transition's two chains.                   *)
(***************************************************************************)
Distinct(c) == \A i, j \in 1 .. Len(c) : c[i] = c[j] => i = j

\* No state is followed by one of its children, or by itself.
BottomUp(c) ==
  c \in Seq(States) /\ Distinct(c) /\ \A i, j \in 1 .. Len(c) : i <= j => par[c[j]] # c[i]

\* No state is followed by its parent, or is its own.
TopDown(c) ==
  c \in Seq(States) /\ Distinct(c) /\ \A i, j \in 1 .. Len(c) : i <= j => par[c[i]] # c[j]

\* The part of a chain below any state is in bottom-up order.
LEMMA BelowBottomUp ==
  ASSUME NEW c, Climbs(c), NEW s
  PROVE  BottomUp(Below(c, s))
<1>. DEFINE e == Below(c, s)
<1>1. PICK n \in 0 .. Len(c) : e \in Seq(States) /\ Len(e) = n /\ \A i \in 1 .. n : e[i] = c[i]
  BY BelowFacts
<1>2. Len(c) \in Nat \ {0} /\ 1 .. n \subseteq 1 .. Len(c)
  BY ClimbFacts
<1>. HIDE DEF e
<1>3. Distinct(e)
  BY <1>1, <1>2, ClimbInjective DEF Distinct
<1>4. ASSUME NEW i \in 1 .. n, NEW j \in 1 .. n, i <= j PROVE par[c[j]] # c[i]
  <2>1. i \in 1 .. Len(c) /\ j \in 1 .. Len(c) /\ c[i] \in States
    BY <1>2, ClimbFacts
  <2>2. CASE j = Len(c)
    BY <2>1, <2>2, ClimbFacts, TreeAssumption
  <2>3. CASE j # Len(c)
    <3>1. j \in 1 .. Len(c) - 1 /\ j + 1 \in 1 .. Len(c) /\ j + 1 # i
      BY <1>2, <1>4, <2>1, <2>3
    <3>. QED
      BY <2>1, <3>1, ClimbFacts, ClimbInjective
  <2>. QED
    BY <2>2, <2>3
<1>5. BottomUp(e)
  BY <1>1, <1>3, <1>4 DEF BottomUp
<1>. QED
  BY <1>5 DEF e

LEMMA SameInterval ==
  ASSUME NEW m \in Nat, NEW n \in Nat, 1 .. m = 1 .. n
  PROVE  m = n
<1>1. ASSUME m < n PROVE FALSE
  <2>1. n \in 1 .. n /\ n \notin 1 .. m
    BY <1>1
  <2>. QED
    BY <2>1
<1>2. ASSUME n < m PROVE FALSE
  <2>1. m \in 1 .. m /\ m \notin 1 .. n
    BY <1>2
  <2>. QED
    BY <2>1
<1>. QED
  BY <1>1, <1>2

\* Reversed, a bottom-up chain is top-down and has the same states.
LEMMA ReverseTopDown ==
  ASSUME NEW c, BottomUp(c)
  PROVE  TopDown(Reverse(c)) /\ ToSet(Reverse(c)) = ToSet(c)
<1>. DEFINE r == Reverse(c)
<1>1. c \in Seq(States) /\ Len(c) \in Nat /\ DOMAIN c = 1 .. Len(c)
      /\ \A i \in 1 .. Len(c) : c[i] \in States
  BY ElementOfSeq, LenProperties DEF BottomUp
<1>2. r = [i \in 1 .. Len(c) |-> c[(Len(c) - i) + 1]]
  BY DEF Reverse
<1>3. \A i \in 1 .. Len(c) : (Len(c) - i) + 1 \in 1 .. Len(c)
  BY <1>1
<1>. HIDE DEF r
<1>4. r \in [1 .. Len(c) -> States]
  BY <1>1, <1>2, <1>3
<1>5. r \in Seq(States) /\ Len(r) = Len(c) /\ DOMAIN r = 1 .. Len(c)
  <2>1. r \in Seq(States)
    BY <1>1, <1>4, IsASeq
  <2>2. DOMAIN r = 1 .. Len(r) /\ Len(r) \in Nat /\ DOMAIN r = 1 .. Len(c)
    BY <1>4, <2>1, LenProperties
  <2>3. Len(r) = Len(c)
    BY <1>1, <2>2, SameInterval
  <2>. QED
    BY <2>1, <2>2, <2>3
<1>6. Distinct(r)
  <2>. SUFFICES ASSUME NEW i \in 1 .. Len(c), NEW j \in 1 .. Len(c), r[i] = r[j] PROVE i = j
    BY <1>5 DEF Distinct
  <2>1. (Len(c) - i) + 1 = (Len(c) - j) + 1
    BY <1>2, <1>3 DEF BottomUp, Distinct
  <2>. QED
    BY <1>1, <2>1
<1>7. ASSUME NEW i \in 1 .. Len(c), NEW j \in 1 .. Len(c), i <= j PROVE par[r[i]] # r[j]
  <2>1. (Len(c) - j) + 1 <= (Len(c) - i) + 1
    BY <1>1, <1>7
  <2>. QED
    BY <1>2, <1>3, <2>1 DEF BottomUp
<1>8. TopDown(r)
  BY <1>5, <1>6, <1>7 DEF TopDown
<1>9. ToSet(r) = ToSet(c)
  <2>1. \A i \in 1 .. Len(c) : (Len(c) - ((Len(c) - i) + 1)) + 1 = i
    BY <1>1
  <2>2. \A i \in 1 .. Len(c) : r[(Len(c) - i) + 1] = c[i] /\ r[i] = c[(Len(c) - i) + 1]
    BY <1>2, <1>3, <2>1
  <2>3. ToSet(r) = {r[i] : i \in 1 .. Len(c)} /\ ToSet(c) = {c[i] : i \in 1 .. Len(c)}
    BY <1>1, <1>5 DEF ToSet
  <2>. QED
    BY <1>3, <2>2, <2>3
<1>. QED
  BY <1>8, <1>9 DEF r

\* One state after the other leaves the front of a chain.
LEMMA TailOfChain ==
  ASSUME NEW c, c \in Seq(States), c # <<>>, Distinct(c)
  PROVE  /\ Head(c) = c[1] /\ 1 \in 1 .. Len(c)
         /\ ToSet(c) = {c[i] : i \in 1 .. Len(c)}
         /\ ToSet(Tail(c)) = ToSet(c) \ {Head(c)}
         /\ BottomUp(c) => BottomUp(Tail(c))
         /\ TopDown(c) => TopDown(Tail(c))
<1>. DEFINE t == Tail(c)
<1>1. Len(c) \in Nat /\ DOMAIN c = 1 .. Len(c) /\ Len(c) # 0
  BY ElementOfSeq, LenProperties, EmptySeq
<1>2. /\ Head(c) = c[1] /\ t \in Seq(States) /\ Len(t) = Len(c) - 1
      /\ \A i \in 1 .. Len(t) : t[i] = c[i + 1]
  BY <1>1, HeadTailProperties
<1>. HIDE DEF t
<1>3. \A i \in 1 .. Len(t) : i + 1 \in 1 .. Len(c) /\ i + 1 # 1
  BY <1>1, <1>2
<1>4. ToSet(t) = {t[i] : i \in 1 .. Len(t)} /\ ToSet(c) = {c[i] : i \in 1 .. Len(c)}
  <2>1. DOMAIN t = 1 .. Len(t)
    BY <1>2, LenProperties
  <2>. QED
    BY <1>1, <2>1 DEF ToSet
<1>5. \A i \in 1 .. Len(c) : i # 1 => i - 1 \in 1 .. Len(t) /\ (i - 1) + 1 = i
  BY <1>1, <1>2
<1>6. ToSet(t) = ToSet(c) \ {Head(c)}
  <2>1. ASSUME NEW x \in ToSet(t) PROVE x \in ToSet(c) \ {Head(c)}
    <3>1. PICK i \in 1 .. Len(t) : x = t[i]
      BY <1>4
    <3>2. x = c[i + 1] /\ i + 1 \in 1 .. Len(c) /\ 1 \in 1 .. Len(c) /\ i + 1 # 1
      BY <1>1, <1>2, <1>3, <3>1
    <3>. QED
      BY <1>2, <1>4, <3>2 DEF Distinct
  <2>2. ASSUME NEW x \in ToSet(c), x # Head(c) PROVE x \in ToSet(t)
    <3>1. PICK i \in 1 .. Len(c) : x = c[i]
      BY <1>4
    <3>2. i # 1
      BY <1>2, <2>2, <3>1
    <3>3. i - 1 \in 1 .. Len(t) /\ t[i - 1] = c[i]
      BY <1>2, <1>5, <3>2
    <3>. QED
      BY <1>4, <3>1, <3>3
  <2>. QED
    BY <2>1, <2>2
<1>7. Distinct(t)
  <2>. SUFFICES ASSUME NEW i \in 1 .. Len(t), NEW j \in 1 .. Len(t), t[i] = t[j] PROVE i = j
    BY DEF Distinct
  <2>1. i + 1 = j + 1
    BY <1>2, <1>3 DEF Distinct
  <2>. QED
    BY <2>1
<1>8. \A i, j \in 1 .. Len(t) : i <= j => i + 1 <= j + 1
  OBVIOUS
<1>9. BottomUp(c) => BottomUp(t)
  BY <1>2, <1>3, <1>7, <1>8 DEF BottomUp
<1>10. TopDown(c) => TopDown(t)
  BY <1>2, <1>3, <1>7, <1>8 DEF TopDown
<1>. QED
  BY <1>1, <1>2, <1>4, <1>6, <1>9, <1>10 DEF t

-----------------------------------------------------------------------------
(***************************************************************************)
(* The invariant of a run.  At every moment the states left to exit are    *)
(* the active ones that are not ancestors of the current state, those left *)
(* to enter are its ancestors that are not active, each in its order, and  *)
(* no state is active without its parent.                                  *)
(***************************************************************************)
Verdict == built \in {"new", "accepted", "rejected"} /\ (built # "new" => (built = "accepted" <=> Accepted(par)))
AtRest  == built # "accepted" => exits = <<>> /\ enters = <<>> /\ active = {}
Walk ==
  built = "accepted" =>
    /\ BottomUp(exits) /\ ToSet(exits) = active \ Ancestors(current)
    /\ TopDown(enters) /\ ToSet(enters) = Ancestors(current) \ active
    /\ active \subseteq States /\ Closed(active)

HsmInv == par \in Parents /\ current \in States /\ Verdict /\ AtRest /\ Walk

LEMMA EmptyChain ==
  /\ BottomUp(<<>>) /\ TopDown(<<>>) /\ ToSet(<<>>) = {}
  /\ \A c \in Seq(States) : ToSet(c) = {} => c = <<>>
<1>1. <<>> \in Seq(States) /\ Len(<<>>) = 0 /\ 1 .. 0 = {} /\ DOMAIN <<>> = {}
  BY EmptySeq
<1>2. BottomUp(<<>>) /\ TopDown(<<>>) /\ ToSet(<<>>) = {}
  BY <1>1 DEF BottomUp, TopDown, Distinct, ToSet
<1>3. ASSUME NEW c \in Seq(States), c # <<>> PROVE ToSet(c) # {}
  <2>1. Len(c) \in Nat /\ DOMAIN c = 1 .. Len(c) /\ Len(c) # 0
    BY <1>3, LenProperties, EmptySeq
  <2>2. 1 \in DOMAIN c
    BY <2>1
  <2>. QED
    BY <2>2 DEF ToSet
<1>. QED
  BY <1>2, <1>3

LEMMA HsmInit == Init => HsmInv
  BY DEF Init, HsmInv, Verdict, AtRest, Walk

LEMMA NewKeeps == HsmInv /\ New => HsmInv'
<1>. SUFFICES ASSUME HsmInv, New PROVE HsmInv'
  OBVIOUS
<1>1. /\ par' = par /\ current' = current /\ exits' = <<>> /\ enters' = <<>>
      /\ par \in Parents /\ current \in States
      /\ built' = IF Accepted(par) THEN "accepted" ELSE "rejected"
      /\ active' = IF Accepted(par) THEN ToSet(parent_chain(par, current)) ELSE {}
  BY DEF HsmInv, AtRest, New
<1>2. Accepted(par)' <=> Accepted(par)
  BY <1>1 DEF Accepted, IsParentChain, Paths
<1>3. Ancestors(current)' = Ancestors(current)
  BY <1>1 DEF Ancestors, Closed
<1>4. Verdict' /\ AtRest'
  BY <1>1, <1>2 DEF Verdict, AtRest
<1>5. ASSUME built' = "accepted" PROVE Walk'
  <2>1. Accepted(par) /\ active' = Ancestors(current)
    BY <1>1, <1>5, ChainOfState
  <2>2. active' \subseteq States /\ \A s \in active' : par[s] \in active' \cup {NoState}
    BY <1>1, <2>1, AncestorsClosed DEF Closed
  <2>3. Closed(active)'
    BY <1>1, <2>2 DEF Closed
  <2>4. BottomUp(exits)' /\ TopDown(enters)' /\ ToSet(exits') = {} /\ ToSet(enters') = {}
    BY <1>1, EmptyChain DEF BottomUp, TopDown, Distinct
  <2>. QED
    BY <1>3, <2>1, <2>2, <2>3, <2>4 DEF Walk
<1>. QED
  BY <1>1, <1>4, <1>5 DEF HsmInv, Walk

LEMMA TransitionKeeps == ASSUME HsmInv, NEW b \in States, Transition(b) PROVE HsmInv'
<1>. DEFINE down == Below(parent_chain(par, current), lca(par, current, b))
            up   == Below(parent_chain(par, b), lca(par, current, b))
<1>1. /\ par' = par /\ current' = b /\ built = "accepted" /\ built' = built /\ active' = active
      /\ exits' = exit_chain(par, current, b) /\ enters' = enter_chain(par, current, b)
      /\ exits = <<>> /\ enters = <<>> /\ current \in States /\ par \in Parents
  BY DEF Transition, Moving, HsmInv
<1>2. Accepted(par) /\ active \subseteq States /\ Closed(active)
  BY <1>1 DEF HsmInv, Verdict, Walk
<1>3. active = Ancestors(current)
  <2>1. active \ Ancestors(current) = {} /\ Ancestors(current) \ active = {}
    BY <1>1, EmptyChain DEF HsmInv, Walk
  <2>. QED
    BY <2>1
<1>4. /\ Ancestors(current)' = Ancestors(b)
      /\ Accepted(par)' <=> Accepted(par)
      /\ Closed(active)' <=> Closed(active)
  BY <1>1 DEF Ancestors, Closed, Accepted, IsParentChain, Paths
<1>5. /\ BottomUp(exits') /\ ToSet(exits') = Ancestors(current) \ Ancestors(b)
      /\ TopDown(enters') /\ ToSet(enters') = Ancestors(b) \ Ancestors(current)
  <2>1. CASE current = b
    BY <1>1, <2>1, EmptyChain DEF exit_chain, enter_chain
  <2>2. CASE current # b
    <3>1. exits' = down /\ enters' = Reverse(up)
      BY <1>1, <2>2 DEF exit_chain, enter_chain
    <3>2. BottomUp(down) /\ BottomUp(up)
      BY <1>1, <1>2, ChainOfState, BelowBottomUp
    <3>3. ToSet(down) = Ancestors(current) \ Ancestors(b) /\ ToSet(up) = Ancestors(b) \ Ancestors(current)
      BY <1>1, <1>2, EnterSet, ExitSet
    <3>. HIDE DEF down, up
    <3>. QED
      BY <3>1, <3>2, <3>3, ReverseTopDown
  <2>. QED
    BY <2>1, <2>2
<1>6. BottomUp(exits)' /\ TopDown(enters)'
  BY <1>1, <1>5 DEF BottomUp, TopDown, Distinct
<1>7. Walk'
  BY <1>1, <1>2, <1>3, <1>4, <1>5, <1>6 DEF Walk
<1>8. Verdict' /\ AtRest'
  BY <1>1, <1>2, <1>4 DEF Verdict, AtRest
<1>. QED
  BY <1>1, <1>7, <1>8 DEF HsmInv

\* Exiting a state: it is active, no ancestor of the goal, and no active
\* state has it for parent, since its children have left before it.
LEMMA ExitKeeps == HsmInv /\ Exit => HsmInv' /\ active' # active /\ Ancestors(current) \cap active \subseteq active'
<1>. SUFFICES ASSUME HsmInv, Exit
              PROVE  HsmInv' /\ active' # active /\ Ancestors(current) \cap active \subseteq active'
  OBVIOUS
<1>. DEFINE h == Head(exits)
<1>1. /\ par' = par /\ current' = current /\ built' = built /\ enters' = enters
      /\ exits # <<>> /\ active' = active \ {h} /\ exits' = Tail(exits)
      /\ par \in Parents /\ current \in States /\ built = "accepted" /\ Verdict
  BY DEF Exit, HsmInv, AtRest
<1>2. /\ Accepted(par) /\ BottomUp(exits) /\ TopDown(enters)
      /\ ToSet(exits) = active \ Ancestors(current) /\ ToSet(enters) = Ancestors(current) \ active
      /\ active \subseteq States /\ Closed(active)
  BY <1>1 DEF HsmInv, Verdict, Walk
<1>3. /\ h = exits[1] /\ 1 \in 1 .. Len(exits) /\ ToSet(exits) = {exits[i] : i \in 1 .. Len(exits)}
      /\ ToSet(exits') = ToSet(exits) \ {h} /\ BottomUp(exits')
  BY <1>1, <1>2, TailOfChain DEF BottomUp
<1>. HIDE DEF h
<1>4. h \in active /\ h \notin Ancestors(current) /\ h # NoState
  BY <1>2, <1>3, TreeAssumption
<1>5. ASSUME NEW s \in active' PROVE par[s] \in active' \cup {NoState}
  <2>1. par[s] \in active \cup {NoState} /\ s \in active
    BY <1>1, <1>2 DEF Closed
  <2>2. CASE s \in Ancestors(current)
    <3>1. par[s] \in Ancestors(current) \cup {NoState}
      BY <1>1, <1>2, <2>2, AncestorsClosed DEF Closed
    <3>. QED
      BY <1>1, <1>4, <2>1, <3>1
  <2>3. CASE s \notin Ancestors(current)
    <3>1. PICK j \in 1 .. Len(exits) : s = exits[j]
      BY <1>2, <1>3, <2>1, <2>3
    <3>2. 1 <= j
      BY <1>3
    <3>3. par[s] # h
      BY <1>2, <1>3, <3>1, <3>2 DEF BottomUp
    <3>. QED
      BY <1>1, <2>1, <3>3
  <2>. QED
    BY <2>2, <2>3
<1>6. /\ Ancestors(current)' = Ancestors(current)
      /\ Accepted(par)' <=> Accepted(par)
  BY <1>1 DEF Ancestors, Closed, Accepted, IsParentChain, Paths
<1>7. Closed(active)'
  BY <1>1, <1>5 DEF Closed
<1>8. BottomUp(exits)' /\ TopDown(enters)'
  BY <1>1, <1>2, <1>3 DEF BottomUp, TopDown, Distinct
<1>9. /\ ToSet(exits') = active' \ Ancestors(current) /\ ToSet(enters') = Ancestors(current) \ active'
      /\ active' \subseteq States
  BY <1>1, <1>2, <1>3, <1>4
<1>10. Walk' /\ Verdict' /\ AtRest'
  BY <1>1, <1>6, <1>7, <1>8, <1>9 DEF Walk, Verdict, AtRest
<1>. QED
  BY <1>1, <1>4, <1>10 DEF HsmInv

\* Entering a state: it is an ancestor of the goal and not active, and its
\* parent is, since parents enter first.
LEMMA EnterKeeps == HsmInv /\ Enter => HsmInv' /\ active' # active /\ Ancestors(current) \cap active \subseteq active'
<1>. SUFFICES ASSUME HsmInv, Enter
              PROVE  HsmInv' /\ active' # active /\ Ancestors(current) \cap active \subseteq active'
  OBVIOUS
<1>. DEFINE h == Head(enters)
<1>1. /\ par' = par /\ current' = current /\ built' = built /\ exits' = exits
      /\ exits = <<>> /\ enters # <<>> /\ active' = active \cup {h} /\ enters' = Tail(enters)
      /\ par \in Parents /\ current \in States /\ built = "accepted" /\ Verdict
  BY DEF Enter, HsmInv, AtRest
<1>2. /\ Accepted(par) /\ BottomUp(exits) /\ TopDown(enters)
      /\ ToSet(exits) = active \ Ancestors(current) /\ ToSet(enters) = Ancestors(current) \ active
      /\ active \subseteq States /\ Closed(active)
  BY <1>1 DEF HsmInv, Verdict, Walk
<1>3. /\ h = enters[1] /\ 1 \in 1 .. Len(enters) /\ ToSet(enters) = {enters[i] : i \in 1 .. Len(enters)}
      /\ ToSet(enters') = ToSet(enters) \ {h} /\ TopDown(enters')
  BY <1>1, <1>2, TailOfChain DEF TopDown
<1>. HIDE DEF h
<1>4. h \in Ancestors(current) /\ h \notin active /\ h \in States
  BY <1>2, <1>3, AncestorsClosed, <1>1
<1>5. par[h] \in active' \cup {NoState}
  <2>. SUFFICES ASSUME par[h] \in Ancestors(current) \ active PROVE FALSE
    BY <1>1, <1>2, <1>4, AncestorsClosed DEF Closed
  <2>1. PICK j \in 1 .. Len(enters) : par[h] = enters[j]
    BY <1>2, <1>3
  <2>2. 1 <= j
    BY <1>3
  <2>. QED
    BY <1>2, <1>3, <2>1, <2>2 DEF TopDown
<1>6. /\ Ancestors(current)' = Ancestors(current)
      /\ Accepted(par)' <=> Accepted(par)
  BY <1>1 DEF Ancestors, Closed, Accepted, IsParentChain, Paths
<1>7. Closed(active)'
  BY <1>1, <1>2, <1>5 DEF Closed
<1>8. BottomUp(exits)' /\ TopDown(enters)'
  BY <1>1, <1>2, <1>3 DEF BottomUp, TopDown, Distinct
<1>9. /\ ToSet(exits') = active' \ Ancestors(current) /\ ToSet(enters') = Ancestors(current) \ active'
      /\ active' \subseteq States
  BY <1>1, <1>2, <1>3, <1>4
<1>10. Walk' /\ Verdict' /\ AtRest'
  BY <1>1, <1>6, <1>7, <1>8, <1>9 DEF Walk, Verdict, AtRest
<1>. QED
  BY <1>1, <1>4, <1>10 DEF HsmInv

LEMMA HsmInvariant == Spec => []HsmInv
<1>1. HsmInv /\ [Next]_vars => HsmInv'
  <2>. SUFFICES ASSUME HsmInv, [Next]_vars PROVE HsmInv'
    OBVIOUS
  <2>1. CASE New
    BY <2>1, NewKeeps
  <2>2. ASSUME NEW b \in States, Transition(b) PROVE HsmInv'
    BY <2>2, TransitionKeeps
  <2>3. CASE Exit
    BY <2>3, ExitKeeps
  <2>4. CASE Enter
    BY <2>4, EnterKeeps
  <2>5. CASE UNCHANGED vars
    <3>1. /\ par' = par /\ built' = built /\ current' = current
          /\ exits' = exits /\ enters' = enters /\ active' = active
      BY <2>5 DEF vars
    <3>2. /\ Accepted(par)' <=> Accepted(par)
          /\ Closed(active)' <=> Closed(active)
          /\ Ancestors(current)' = Ancestors(current)
      BY <3>1 DEF Closed, Ancestors, Accepted, IsParentChain, Paths
    <3>3. (BottomUp(exits)' <=> BottomUp(exits)) /\ (TopDown(enters)' <=> TopDown(enters))
      BY <3>1 DEF BottomUp, TopDown, Distinct
    <3>. QED
      BY <3>1, <3>2, <3>3 DEF HsmInv, Verdict, AtRest, Walk
  <2>. QED
    BY <2>1, <2>2, <2>3, <2>4, <2>5 DEF Next
<1>. QED
  BY HsmInit, <1>1, PTL DEF Spec

-----------------------------------------------------------------------------
(***************************************************************************)
(* What a run promises, for every set of states and every parent function. *)
(***************************************************************************)

\* MissionStateMachine::new accepts a parent function exactly when it has no
\* cycle: its bound on the length of a walk is neither too short nor too long.
THEOREM ForestsAccepted == Spec => []AcceptsExactlyForests
<1>1. HsmInv => AcceptsExactlyForests
  BY AcceptedIsForest DEF HsmInv, Verdict, AcceptsExactlyForests
<1>. QED
  BY <1>1, HsmInvariant, PTL

\* Between transitions the active states are the current one and its ancestors.
THEOREM ConfigurationAlwaysPath == Spec => []ConfigurationIsPath
<1>1. HsmInv => ConfigurationIsPath
  <2>. SUFFICES ASSUME HsmInv, built = "accepted", exits = <<>>, enters = <<>>
                PROVE  active = Ancestors(current)
    BY DEF ConfigurationIsPath, Moving
  <2>1. active \ Ancestors(current) = {} /\ Ancestors(current) \ active = {}
    BY EmptyChain DEF HsmInv, Walk
  <2>. QED
    BY <2>1
<1>. QED
  BY <1>1, HsmInvariant, PTL

\* Within one, no state is active without its parent.
THEOREM ParentsAlwaysOutlast == Spec => []ParentsOutlastChildren
<1>1. HsmInv => ParentsOutlastChildren
  BY DEF HsmInv, Walk, AtRest, Closed, ParentsOutlastChildren
<1>. QED
  BY <1>1, HsmInvariant, PTL

\* Every step of a transition exits an active state off the path to the goal or
\* enters an inactive one on it.
THEOREM TransitionsAreMinimal == Spec => OnlyDifferenceTouched
<1>1. HsmInv /\ [Next]_vars => [Moving => active' # active /\ Ancestors(current) \cap active \subseteq active']_vars
  <2>. SUFFICES ASSUME HsmInv, Next, Moving
                PROVE  active' # active /\ Ancestors(current) \cap active \subseteq active'
    OBVIOUS
  <2>1. ~New /\ \A b \in States : ~Transition(b)
    BY DEF New, Transition, HsmInv, AtRest, Moving
  <2>. QED
    BY <2>1, ExitKeeps, EnterKeeps DEF Next
<1>. QED
  BY <1>1, HsmInvariant, PTL DEF Spec, OnlyDifferenceTouched
=============================================================================
