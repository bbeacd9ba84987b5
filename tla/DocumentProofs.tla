---------------------------- MODULE DocumentProofs ----------------------------
(***************************************************************************)
(* Proofs about the documents of the two programs, for any edits, reviews, *)
(* pages, answers and commands: that a shown route can be followed, that   *)
(* what is published stands and only ages, that live research completes    *)
(* with grounded drafts and asks official pages only, that comparisons     *)
(* meet their criteria, that the labels of the laboratory stand, and that  *)
(* the form agrees with itself and its copies go last.                     *)
(***************************************************************************)
EXTENDS JourneyRoute, CorpusHealth, LiveResearch, PeerComparison, ReasonLab,
        FirstMileApp, SequenceTheorems, FiniteSetTheorems, NaturalsInduction,
        WellFoundedInduction, TLAPS

------------------------------------------------------------------------------
(* Lists                                                                   *)

\* A set of natural numbers has a least element.
LEMMA LeastNumber ==
  ASSUME NEW T \in SUBSET Nat, T # {}
  PROVE  \E n \in T : \A m \in T : n <= m
<1>1. PICK n \in T : \A m \in T : ~ (<<m, n>> \in OpToRel(<, Nat))
  BY NatLessThanWellFounded, WFMin
<1>2. ASSUME NEW m \in T PROVE n <= m
  <2>1. <<m, n>> \in Nat \X Nat => ~ (m < n)
    BY <1>1, <1>2, Zenon DEF OpToRel
  <2> QED BY <2>1
<1> QED BY <1>2

\* One more element is kept or not, given what was kept before.
KeptNext(list, set, f, n) ==
  IF n = 0 THEN <<>>
  ELSE IF list[n] \in set THEN Append(f[n - 1], list[n]) ELSE f[n - 1]

\* f filters the first m elements of the list.
Keeps(list, set, f, m) == f = [n \in 0..m |-> KeptNext(list, set, f, n)]

\* The recursion of the filter has a solution, however long the list is.
LEMMA FilterDefined ==
  ASSUME NEW list, NEW set, NEW m \in Nat
  PROVE  \E f : Keeps(list, set, f, m)
<1> DEFINE Bad == {k \in Nat : ~ \E f : Keeps(list, set, f, k)}
<1>1. SUFFICES ASSUME Bad # {} PROVE FALSE
  OBVIOUS
<1>2. PICK k \in Bad : \A i \in Bad : k <= i
  BY <1>1, LeastNumber
<1>3. CASE k = 0
  <2> DEFINE g == [n \in 0..0 |-> <<>>]
  <2>1. \A n \in 0..0 : KeptNext(list, set, g, n) = <<>>
    BY DEF KeptNext
  <2>2. Keeps(list, set, g, 0)
    BY <2>1 DEF Keeps
  <2> QED BY <1>2, <1>3, <2>2
<1>4. CASE k # 0
  <2>1. k - 1 \in Nat /\ k - 1 \notin Bad
    BY <1>2, <1>4
  <2>2. PICK f : Keeps(list, set, f, k - 1)
    BY <2>1
  <2> DEFINE g == [n \in 0..k |-> IF n = k THEN KeptNext(list, set, f, k) ELSE f[n]]
  <2>3. ASSUME NEW n \in 0..k PROVE g[n] = KeptNext(list, set, g, n)
    <3>1. n = 0 \/ g[n - 1] = f[n - 1]
      BY <1>4, <2>3
    <3>2. KeptNext(list, set, g, n) = KeptNext(list, set, f, n)
      BY <3>1 DEF KeptNext
    <3>3. n # k => f[n] = KeptNext(list, set, f, n)
      BY <2>2, <2>3 DEF Keeps
    <3> QED BY <3>2, <3>3, <2>3
  <2>4. g = [n \in 0..k |-> KeptNext(list, set, g, n)]
    BY <2>3
  <2>5. Keeps(list, set, g, k)
    BY <2>4 DEF Keeps
  <2> QED BY <1>2, <2>5
<1> QED BY <1>3, <1>4

\* What is kept of the first n elements.
KeptIs(list, set, kept, n) ==
  /\ kept \in Seq(set)
  /\ {kept[i] : i \in 1..Len(kept)} = {list[k] : k \in 1..n} \cap set
  /\ (\A k \in 1..n : list[k] \in set) => kept = SubSeq(list, 1, n)

LEMMA KeptOneMore ==
  ASSUME NEW T, NEW list \in Seq(T), NEW set, NEW n \in 1..Len(list), NEW kept,
         KeptIs(list, set, kept, n - 1)
  PROVE  KeptIs(list, set, IF list[n] \in set THEN Append(kept, list[n]) ELSE kept, n)
<1>1. /\ {list[k] : k \in 1..n} = {list[k] : k \in 1..(n - 1)} \cup {list[n]}
      /\ \A k \in 1..(n - 1) : k \in 1..n
      /\ n \in 1..n
  OBVIOUS
<1>2. kept \in Seq(set)
  BY DEF KeptIs
<1>3. CASE list[n] \in set
  <2> DEFINE longer == Append(kept, list[n])
  <2>1. longer \in Seq(set) /\ Len(longer) = Len(kept) + 1
        /\ (\A i \in 1..Len(kept) : longer[i] = kept[i]) /\ longer[Len(kept) + 1] = list[n]
    BY <1>2, <1>3
  <2>2. {longer[i] : i \in 1..Len(longer)} = {kept[i] : i \in 1..Len(kept)} \cup {list[n]}
    <3>1. 1..Len(longer) = 1..Len(kept) \cup {Len(kept) + 1}
      BY <1>2, <2>1
    <3> HIDE DEF longer
    <3> QED BY <2>1, <3>1
  <2>3. SubSeq(list, 1, n) = Append(SubSeq(list, 1, n - 1), list[n])
    BY SubSeqRecursiveSecond
  <2>4. {longer[i] : i \in 1..Len(longer)} = {list[k] : k \in 1..n} \cap set
    BY <1>1, <1>3, <2>2 DEF KeptIs
  <2>5. (\A k \in 1..n : list[k] \in set) => longer = SubSeq(list, 1, n)
    BY <1>1, <2>3 DEF KeptIs
  <2> QED BY <1>3, <2>1, <2>4, <2>5 DEF KeptIs
<1>4. CASE list[n] \notin set
  BY <1>1, <1>4 DEF KeptIs
<1> QED BY <1>3, <1>4

\* Filtering keeps what lies in the set, all of it and nothing else, and keeps
\* a list whole that lies in the set.
LEMMA AmongList ==
  ASSUME NEW T, NEW list \in Seq(T), NEW set
  PROVE  /\ Among(list, set) \in Seq(set)
         /\ ToSet(Among(list, set)) = ToSet(list) \cap set
         /\ ToSet(list) \subseteq set => Among(list, set) = list
<1> DEFINE f == CHOOSE f : Keeps(list, set, f, Len(list))
<1>1. Keeps(list, set, f, Len(list))
  <2>1. Len(list) \in Nat
    OBVIOUS
  <2> QED BY <2>1, FilterDefined
<1>2. Among(list, set) = f[Len(list)]
  BY DEF Among, Keeps, KeptNext
<1> HIDE DEF f
<1> DEFINE Bad == {n \in 0..Len(list) : ~ KeptIs(list, set, f[n], n)}
<1>3. Bad = {}
  <2>1. SUFFICES ASSUME Bad # {} PROVE FALSE
    OBVIOUS
  <2>2. PICK n \in Bad : \A i \in Bad : n <= i
    <3>1. Bad \in SUBSET Nat
      OBVIOUS
    <3> QED BY <2>1, <3>1, LeastNumber
  <2>3. f[n] = KeptNext(list, set, f, n)
    BY <1>1, <2>2 DEF Keeps
  <2>4. CASE n = 0
    <3>1. f[n] = <<>>
      BY <2>3, <2>4 DEF KeptNext
    <3>2. KeptIs(list, set, <<>>, 0)
      BY DEF KeptIs
    <3> QED BY <2>2, <2>4, <3>1, <3>2
  <2>5. CASE n # 0
    <3>1. n \in 1..Len(list) /\ n - 1 \in 0..Len(list) /\ n - 1 \notin Bad
      BY <2>2, <2>5
    <3>2. KeptIs(list, set, f[n - 1], n - 1)
      BY <3>1
    <3>3. f[n] = IF list[n] \in set THEN Append(f[n - 1], list[n]) ELSE f[n - 1]
      BY <2>3, <2>5 DEF KeptNext
    <3>4. KeptIs(list, set, f[n], n)
      BY <3>1, <3>2, <3>3, KeptOneMore
    <3> QED BY <2>2, <3>4
  <2> QED BY <2>4, <2>5
<1>4. KeptIs(list, set, Among(list, set), Len(list))
  <2>1. Len(list) \in 0..Len(list)
    OBVIOUS
  <2> QED BY <1>2, <1>3, <2>1
<1>5. SubSeq(list, 1, Len(list)) = list
  BY SubSeqFull
<1>6. ToSet(list) = {list[k] : k \in 1..Len(list)} /\ \A k \in 1..Len(list) : list[k] \in ToSet(list)
  BY DEF ToSet
<1>7. ToSet(Among(list, set)) = {Among(list, set)[i] : i \in 1..Len(Among(list, set))}
  BY <1>4 DEF ToSet, KeptIs
<1> QED BY <1>4, <1>5, <1>6, <1>7 DEF KeptIs

\* One list in another: its elements are found there in the same order.
Embeds(e, short, n, list) ==
  /\ e \in [1..Len(short) -> 1..n]
  /\ \A i \in 1..Len(short) : short[i] = list[e[i]]
  /\ \A i, j \in 1..Len(short) : i < j => e[i] < e[j]

\* One more element comes after the others.
LEMMA EmbedsOneMore ==
  ASSUME NEW T, NEW list \in Seq(T), NEW n \in 1..Len(list), NEW short \in Seq(T),
         NEW e, Embeds(e, short, n - 1, list)
  PROVE  /\ \E f : Embeds(f, Append(short, list[n]), n, list)
         /\ \E f : Embeds(f, short, n, list)
<1> DEFINE longer == Append(short, list[n])
           f == [i \in 1..Len(longer) |-> IF i = Len(longer) THEN n ELSE e[i]]
<1>1. Len(short) \in Nat /\ Len(longer) = Len(short) + 1
      /\ (\A i \in 1..Len(short) : longer[i] = short[i]) /\ longer[Len(short) + 1] = list[n]
  OBVIOUS
<1>2. \A i \in 1..Len(short) : e[i] \in 1..(n - 1) /\ e[i] < n /\ e[i] \in 1..n
  BY DEF Embeds
<1> HIDE DEF longer
<1>3. Embeds(f, longer, n, list)
  <2>1. f \in [1..Len(longer) -> 1..n]
    BY <1>1, <1>2
  <2>2. \A i \in 1..Len(longer) : longer[i] = list[f[i]]
    BY <1>1 DEF Embeds
  <2>3. ASSUME NEW i \in 1..Len(longer), NEW j \in 1..Len(longer), i < j PROVE f[i] < f[j]
    <3>1. i \in 1..Len(short)
      BY <1>1, <2>3
    <3>2. CASE j = Len(longer)
      BY <1>1, <1>2, <3>1, <3>2
    <3>3. CASE j # Len(longer)
      BY <1>1, <2>3, <3>1, <3>3 DEF Embeds
    <3> QED BY <3>2, <3>3
  <2> HIDE DEF f
  <2> QED BY <2>1, <2>2, <2>3 DEF Embeds
<1>4. Embeds(e, short, n, list)
  <2>1. e \in [1..Len(short) -> 1..n]
    BY <1>2 DEF Embeds
  <2> QED BY <2>1 DEF Embeds
<1> QED BY <1>3, <1>4 DEF longer

\* A filter keeps the order of what it keeps.
LEMMA AmongInOrder ==
  ASSUME NEW T, NEW list \in Seq(T), NEW set
  PROVE  Among(list, set) \in Seq(T) /\ \E e : Embeds(e, Among(list, set), Len(list), list)
<1> DEFINE f == CHOOSE f : Keeps(list, set, f, Len(list))
<1>1. Keeps(list, set, f, Len(list))
  <2>1. Len(list) \in Nat
    OBVIOUS
  <2> QED BY <2>1, FilterDefined
<1>2. Among(list, set) = f[Len(list)]
  BY DEF Among, Keeps, KeptNext
<1> HIDE DEF f
<1> DEFINE Bad == {n \in 0..Len(list) : ~ (f[n] \in Seq(T) /\ \E e : Embeds(e, f[n], n, list))}
<1>3. Bad = {}
  <2>1. SUFFICES ASSUME Bad # {} PROVE FALSE
    OBVIOUS
  <2>2. PICK n \in Bad : \A i \in Bad : n <= i
    <3>1. Bad \in SUBSET Nat
      OBVIOUS
    <3> QED BY <2>1, <3>1, LeastNumber
  <2>3. f[n] = KeptNext(list, set, f, n)
    BY <1>1, <2>2 DEF Keeps
  <2>4. CASE n = 0
    <3>1. f[n] = <<>>
      BY <2>3, <2>4 DEF KeptNext
    <3>2. Embeds(<<>>, <<>>, 0, list)
      BY DEF Embeds
    <3>3. \E e : Embeds(e, f[n], n, list)
      BY <2>4, <3>1, <3>2, Zenon
    <3>4. f[n] \in Seq(T)
      BY <3>1
    <3> QED BY <2>2, <3>3, <3>4
  <2>5. CASE n # 0
    <3>1. n \in 1..Len(list) /\ n - 1 \in 0..Len(list) /\ n - 1 \notin Bad
      BY <2>2, <2>5
    <3>2. f[n - 1] \in Seq(T) /\ \E e : Embeds(e, f[n - 1], n - 1, list)
      BY <3>1
    <3>3. f[n] = IF list[n] \in set THEN Append(f[n - 1], list[n]) ELSE f[n - 1]
      BY <2>3, <2>5 DEF KeptNext
    <3>4. /\ \E e : Embeds(e, Append(f[n - 1], list[n]), n, list)
          /\ \E e : Embeds(e, f[n - 1], n, list)
      BY <3>1, <3>2, EmbedsOneMore
    <3>5. Append(f[n - 1], list[n]) \in Seq(T)
      BY <3>1, <3>2
    <3> QED BY <2>2, <3>2, <3>3, <3>4, <3>5
  <2> QED BY <2>4, <2>5
<1>4. Len(list) \in 0..Len(list)
  OBVIOUS
<1> QED BY <1>2, <1>3, <1>4

------------------------------------------------------------------------------
(* The route of a graph                                                    *)

\* A graph lists its nodes and the ids of its selected route.
IsGraph(g) == g.nodes \in Seq(ToSet(g.nodes)) /\ g.route \in Seq(ToSet(g.route))

\* A nonempty set of places in a list has a last one.
LEMMA LastPlace ==
  ASSUME NEW n \in Nat, NEW S \in SUBSET (1..n), S # {}
  PROVE  Max(S) \in S /\ \A k \in S : k <= Max(S)
<1> DEFINE Below == {n - k : k \in S}
<1>1. Below \in SUBSET Nat /\ Below # {}
  <2>1. PICK k \in S : TRUE
    OBVIOUS
  <2>2. n - k \in Below
    BY <2>1
  <2>3. \A y \in S : n - y \in Nat
    OBVIOUS
  <2> QED BY <2>2, <2>3
<1>2. PICK b \in Below : \A m \in Below : b <= m
  BY <1>1, LeastNumber
<1>3. PICK x \in S : b = n - x
  BY <1>2
<1>4. ASSUME NEW y \in S PROVE x >= y
  <2>1. n - y \in Below
    OBVIOUS
  <2>2. b <= n - y
    BY <1>2, <2>1
  <2>3. x \in 1..n /\ y \in 1..n /\ b = n - x
    BY <1>3
  <2> QED BY <2>2, <2>3
<1>5. Max(S) \in S /\ \A y \in S : Max(S) >= y
  BY <1>4 DEF Max
<1> QED BY <1>5

\* The node of an id is a node of the graph and has that id.
LEMMA NodeHasId ==
  ASSUME NEW g, IsGraph(g), NEW id \in ids(g)
  PROVE  node(g, id) \in ToSet(g.nodes) /\ node(g, id).id = id
<1> DEFINE S == {k \in DOMAIN g.nodes : g.nodes[k].id = id}
<1>1. DOMAIN g.nodes = 1..Len(g.nodes) /\ Len(g.nodes) \in Nat
  BY DEF IsGraph
<1>2. S # {}
  BY DEF ids, ToSet
<1>3. Max(S) \in S
  BY <1>1, <1>2, LastPlace
<1> QED BY <1>3 DEF node, ToSet

\* When all ids are known, the route shows the node of each of them, in their
\* order.
LEMMA RouteOfIds ==
  ASSUME NEW g, IsGraph(g), ToSet(g.route) \subseteq ids(g)
  PROVE  /\ route(g) = [k \in 1..Len(g.route) |-> node(g, g.route[k])]
         /\ DOMAIN route(g) = 1..Len(g.route) /\ Len(route(g)) = Len(g.route)
         /\ route(g) \in Seq(ToSet(g.nodes))
         /\ \A k \in 1..Len(g.route) :
              /\ g.route[k] \in ToSet(g.route)
              /\ route(g)[k].id = g.route[k]
              /\ route(g)[k] = node(g, route(g)[k].id)
              /\ route(g)[k] \in ToSet(g.nodes)
<1>1. g.route \in Seq(ToSet(g.route)) /\ DOMAIN g.route = 1..Len(g.route) /\ Len(g.route) \in Nat
  BY DEF IsGraph
<1>2. Among(g.route, ids(g)) = g.route
  BY <1>1, AmongList
<1>3. route(g) = [k \in 1..Len(g.route) |-> node(g, g.route[k])]
  BY <1>1, <1>2 DEF route
<1>4. ASSUME NEW k \in 1..Len(g.route)
      PROVE  /\ g.route[k] \in ToSet(g.route)
             /\ node(g, g.route[k]) \in ToSet(g.nodes)
             /\ node(g, g.route[k]).id = g.route[k]
  BY <1>1, NodeHasId DEF ToSet
<1>5. route(g) \in Seq(ToSet(g.nodes)) /\ Len(route(g)) = Len(g.route)
  BY <1>1, <1>3, <1>4, IsASeq
<1> QED BY <1>3, <1>4, <1>5

------------------------------------------------------------------------------
(* What it means that something is not found                               *)

\* A code that is not found: its condition does not hold.
LEMMA NotWhen == ASSUME NEW c, NEW code, code \notin when(c, code) PROVE ~c
  BY DEF when

\* What is found in a graph is found in one of its parts.
LEMMA FindingsHaveParts ==
  ASSUME NEW g
  PROVE  \A code :
           code \notin validateJourneyGraph(g) =>
             /\ code \notin routeFindings(g)
             /\ \A k \in DOMAIN route(g) : code \notin stepFindings(g, k)
             /\ code \notin when(Cardinality({n.branch : n \in ToSet(route(g))} \ {"none"}) > 1,
                               "branch_concatenation")
             /\ code \notin edgeFindings(g)
             /\ code \notin gateFindings(g)
             /\ code \notin endFindings(g)
<1> DEFINE candidates == when(\E c \in ToSet(g.candidates) : candidateIncomplete(g, c),
                              "invalid_candidate_route")
           prerequisites == UNION {evidenceFindings(p.evidence) : p \in g.prerequisites}
           steps == UNION {stepFindings(g, k) : k \in DOMAIN route(g)}
           branches == when(Cardinality({n.branch : n \in ToSet(route(g))} \ {"none"}) > 1,
                            "branch_concatenation")
           blocked == when(g.blocked, "unresolved_uncertainty")
<1>1. validateJourneyGraph(g) =
        routeFindings(g) \cup candidates \cup prerequisites \cup steps \cup branches
          \cup edgeFindings(g) \cup gateFindings(g) \cup endFindings(g) \cup blocked
  BY DEF validateJourneyGraph, when
<1>2. \A k \in DOMAIN route(g) : stepFindings(g, k) \subseteq steps
  OBVIOUS
<1> HIDE DEF candidates, prerequisites, steps, branches, blocked
<1>3. ASSUME NEW code, code \notin validateJourneyGraph(g)
      PROVE  /\ code \notin routeFindings(g)
             /\ \A k \in DOMAIN route(g) : code \notin stepFindings(g, k)
             /\ code \notin branches
             /\ code \notin edgeFindings(g)
             /\ code \notin gateFindings(g)
             /\ code \notin endFindings(g)
  BY <1>1, <1>2, <1>3
<1> QED BY <1>3 DEF branches

\* Of the selected route: its ids are known.
LEMMA RouteIsKnown ==
  ASSUME NEW g, "unknown_node" \notin validateJourneyGraph(g)
  PROVE  ToSet(g.route) \subseteq ids(g)
<1>1. "unknown_node" \notin routeFindings(g)
  BY FindingsHaveParts
<1>2. "unknown_node" \notin when(~(ToSet(g.route) \subseteq ids(g)), "unknown_node")
  BY <1>1 DEF routeFindings
<1> QED BY <1>2, NotWhen

\* Of a step: no step before it has its id, it has what it needs, and it cites
\* evidence.
LEMMA StepIsSound ==
  ASSUME NEW g, NEW k \in DOMAIN route(g)
  PROVE  /\ "duplicate_node" \notin validateJourneyGraph(g)
              => \A j \in 1..(k - 1) : route(g)[j].id # route(g)[k].id
         /\ "broken_causal_input" \notin validateJourneyGraph(g)
              => route(g)[k].needs \subseteq available(g, k)
         /\ "missing_evidence" \notin validateJourneyGraph(g) => route(g)[k].evidence # {}
<1> DEFINE n == route(g)[k]
           earlier == {route(g)[j] : j \in 1..(k - 1)}
<1>1. \A code : code \notin validateJourneyGraph(g) => code \notin stepFindings(g, k)
  BY FindingsHaveParts
<1>2. ASSUME "duplicate_node" \notin validateJourneyGraph(g)
      PROVE  \A j \in 1..(k - 1) : route(g)[j].id # route(g)[k].id
  <2>1. "duplicate_node" \notin when(\E m \in earlier : m.id = n.id \/ m.action = n.action,
                                     "duplicate_node")
    BY <1>1, <1>2 DEF stepFindings
  <2>2. ~ \E m \in earlier : m.id = n.id \/ m.action = n.action
    BY <2>1, NotWhen
  <2> QED BY <2>2
<1>3. ASSUME "broken_causal_input" \notin validateJourneyGraph(g)
      PROVE  route(g)[k].needs \subseteq available(g, k)
  <2>1. "broken_causal_input" \notin when(~(n.needs \subseteq available(g, k)),
                                          "broken_causal_input")
    BY <1>1, <1>3 DEF stepFindings
  <2> QED BY <2>1, NotWhen
<1>4. ASSUME "missing_evidence" \notin validateJourneyGraph(g)
      PROVE  route(g)[k].evidence # {}
  <2>1. "missing_evidence" \notin evidenceFindings(n.evidence)
    BY <1>1, <1>4 DEF stepFindings
  <2> QED BY <2>1 DEF evidenceFindings, hasEvidence, when
<1> QED BY <1>2, <1>3, <1>4

\* Of the transitions: the route has one between any two steps, and all cite
\* evidence.
LEMMA EdgesAreSound ==
  ASSUME NEW g
  PROVE  /\ "missing_route_edge" \notin validateJourneyGraph(g)
              => \A k \in 1..(Len(route(g)) - 1) : joined(g, route(g)[k].id, route(g)[k + 1].id)
         /\ "missing_evidence" \notin validateJourneyGraph(g)
              => \A e \in ToSet(g.edges) : e.evidence # {}
<1>1. \A code : code \notin validateJourneyGraph(g) => code \notin edgeFindings(g)
  BY FindingsHaveParts
<1>2. ASSUME "missing_route_edge" \notin validateJourneyGraph(g)
      PROVE  \A k \in 1..(Len(route(g)) - 1) : joined(g, route(g)[k].id, route(g)[k + 1].id)
  <2>1. "missing_route_edge" \notin
          when(\E k \in 1..(Len(route(g)) - 1) : ~joined(g, route(g)[k].id, route(g)[k + 1].id),
               "missing_route_edge")
    BY <1>1, <1>2 DEF edgeFindings
  <2> QED BY <2>1, NotWhen
<1>3. ASSUME "missing_evidence" \notin validateJourneyGraph(g), NEW e \in ToSet(g.edges)
      PROVE  e.evidence # {}
  <2>1. "missing_evidence" \notin evidenceFindings(e.evidence)
    BY <1>1, <1>3 DEF edgeFindings
  <2> QED BY <2>1 DEF evidenceFindings, hasEvidence, when
<1> QED BY <1>2, <1>3

\* Of the end: the route has one, a terminal outcome at the declared first
\* success.
LEMMA EndIsSound ==
  ASSUME NEW g
  PROVE  /\ "invalid_terminal" \notin validateJourneyGraph(g)
              => route(g) # <<>> /\ Last(route(g)).kind = "terminal_outcome"
         /\ "invalid_first_success_boundary" \notin validateJourneyGraph(g)
              => route(g) # <<>> /\ g.success.node = Last(route(g)).id
<1>1. \A code : code \notin validateJourneyGraph(g) => code \notin endFindings(g)
  BY FindingsHaveParts
<1> QED BY <1>1 DEF endFindings, when

\* Of the gates and branches: every gate is at a step of the route, and no two
\* steps are on different branches.
LEMMA GatesAreSound ==
  ASSUME NEW g, "unknown_gate_target" \notin validateJourneyGraph(g), NEW x \in g.gates
  PROVE  \E k \in DOMAIN route(g) : route(g)[k].id = x.at
<1>1. \A code : code \notin validateJourneyGraph(g) => code \notin gateFindings(g)
  BY FindingsHaveParts
<1>2. "unknown_gate_target" \notin
        when(\E y \in g.gates : y.at \notin {n.id : n \in ToSet(route(g))}, "unknown_gate_target")
  BY <1>1 DEF gateFindings
<1>3. x.at \in {n.id : n \in ToSet(route(g))}
  BY <1>2, NotWhen
<1> QED BY <1>3 DEF ToSet

LEMMA OneBranch ==
  ASSUME NEW g, "branch_concatenation" \notin validateJourneyGraph(g), route(g) \in Seq(ToSet(g.nodes)),
         NEW j \in DOMAIN route(g), NEW k \in DOMAIN route(g),
         route(g)[j].branch # "none", route(g)[k].branch # "none"
  PROVE  route(g)[j].branch = route(g)[k].branch
<1> DEFINE r == route(g)
           all == {n.branch : n \in ToSet(r)}
           B == all \ {"none"}
<1>1. ~ (Cardinality(B) > 1)
  <2>1. "branch_concatenation" \notin when(Cardinality(B) > 1, "branch_concatenation")
    BY FindingsHaveParts
  <2> QED BY <2>1, NotWhen
<1>2. IsFiniteSet(B)
  <2> DEFINE f == [i \in 1..Len(r) |-> r[i].branch]
  <2>1. IsFiniteSet(1..Len(r))
    <3> DEFINE n == Len(r)
    <3>1. n \in Int
      OBVIOUS
    <3> HIDE DEF n
    <3>2. IsFiniteSet(1..n)
      BY <3>1, FS_Interval
    <3> QED BY <3>2 DEF n
  <2>2. f \in Surjection(1..Len(r), all)
    <3>1. DOMAIN r = 1..Len(r)
      OBVIOUS
    <3>2. all = {r[i].branch : i \in 1..Len(r)}
      BY <3>1 DEF ToSet
    <3> QED BY <3>2 DEF Surjection
  <2>3. IsFiniteSet(all)
    BY <2>1, <2>2, FS_Surjection
  <2> QED BY <2>3, FS_Subset
<1>3. r[j].branch \in B /\ r[k].branch \in B
  BY DEF ToSet
<1>4. ASSUME r[j].branch # r[k].branch PROVE FALSE
  <2>1. {r[j].branch, r[k].branch} \subseteq B
    BY <1>3
  <2>2. Cardinality({r[j].branch, r[k].branch}) = 2
    <3>1. IsFiniteSet({r[j].branch}) /\ Cardinality({r[j].branch}) = 1
      BY FS_Singleton
    <3>2. Cardinality({r[j].branch} \cup {r[k].branch}) = 1 + 1
      BY <1>4, <3>1, FS_AddElement
    <3>3. {r[j].branch, r[k].branch} = {r[j].branch} \cup {r[k].branch}
      OBVIOUS
    <3> QED BY <3>2, <3>3
  <2>3. Cardinality(B) \in Nat /\ 2 <= Cardinality(B)
    BY <1>2, <2>1, <2>2, FS_Subset, FS_CardinalityType
  <2> QED BY <1>1, <2>3
<1> QED BY <1>4

------------------------------------------------------------------------------
(* Following a route                                                       *)

\* J holds the graphs that the authors may come to by their edits, and each of
\* them lists its nodes and its route.
Journeys(J) == FirstJourney \in J /\ \A g \in J : IsGraph(g) /\ Changed(g) \subseteq J

\* The inductive invariant.  A graph does not change once it is shown and was
\* selectable then; the developer is as far as the walk says, and holds what the
\* steps so far have given.
RouteInv(J) ==
  /\ authored \in J /\ IsGraph(authored)
  /\ shown \in BOOLEAN
  /\ ~shown => walk = <<>>
  /\ shown =>
       /\ selectable(authored)
       /\ walk \in Seq(ToSet(authored.route)) /\ Len(walk) <= Len(route(authored))
       /\ \A k \in 1..Len(walk) : walk[k] = route(authored)[k].id
       /\ held = available(authored, Len(walk) + 1)

\* A selectable graph shows its whole route.
LEMMA SelectableRoute ==
  ASSUME NEW g, IsGraph(g), selectable(g)
  PROVE  /\ route(g) = [k \in 1..Len(g.route) |-> node(g, g.route[k])]
         /\ DOMAIN route(g) = 1..Len(g.route) /\ Len(route(g)) = Len(g.route)
         /\ Len(g.route) \in Nat
         /\ route(g) \in Seq(ToSet(g.nodes))
         /\ \A k \in 1..Len(g.route) :
              /\ g.route[k] \in ToSet(g.route)
              /\ route(g)[k].id = g.route[k]
              /\ route(g)[k] = node(g, route(g)[k].id)
              /\ route(g)[k] \in ToSet(g.nodes)
<1>1. ToSet(g.route) \subseteq ids(g)
  BY RouteIsKnown DEF selectable
<1>2. Len(g.route) \in Nat
  BY DEF IsGraph
<1> QED BY <1>1, <1>2, RouteOfIds

\* One more step has been taken: what it gives is available too.
LEMMA AvailableNext ==
  ASSUME NEW g, NEW n \in Nat
  PROVE  available(g, n + 2) = available(g, n + 1) \cup route(g)[n + 1].gives
<1>1. 1..(n + 2 - 1) = 1..(n + 1 - 1) \cup {n + 1}
  OBVIOUS
<1>2. UNION {route(g)[j].gives : j \in 1..(n + 2 - 1)} =
        (UNION {route(g)[j].gives : j \in 1..(n + 1 - 1)}) \cup route(g)[n + 1].gives
  BY <1>1
<1> QED BY <1>2 DEF available

\* The authors begin with one of their graphs.
LEMMA RouteInvInit == ASSUME NEW J, Journeys(J), RouteInit PROVE RouteInv(J)
  BY DEF Journeys, RouteInit, RouteInv

\* Editing, showing and following keep the invariant.
LEMMA RouteInvNext ==
  ASSUME NEW J, Journeys(J), RouteInv(J), [RouteNext]_routeVars
  PROVE  RouteInv(J)'
<1>1. CASE ChangeJourney
  BY <1>1 DEF ChangeJourney, Journeys, RouteInv
<1>2. CASE Show
  <2>1. UNCHANGED <<authored, walk>> /\ shown' = TRUE /\ selectable(authored) /\ walk = <<>>
    BY <1>2 DEF Show, RouteInv
  <2>2. authored \in J /\ IsGraph(authored)
    BY DEF RouteInv
  <2>3. Len(route(authored)) \in Nat
    BY <2>1, <2>2, SelectableRoute
  <2>4. held' = available(authored, 1)
    <3>1. UNION {route(authored)[j].gives : j \in 1..(1 - 1)} = {}
      OBVIOUS
    <3>2. held' = authored.have \cup UNION {p.gives : p \in authored.prerequisites}
      BY <1>2 DEF Show
    <3> QED BY <3>1, <3>2 DEF available
  <2> QED BY <2>1, <2>2, <2>3, <2>4 DEF RouteInv
<1>3. CASE Follow
  <2>1. /\ UNCHANGED <<authored, shown>> /\ shown
        /\ Len(walk) < Len(route(authored))
        /\ walk' = Append(walk, nextStep.id) /\ held' = held \cup nextStep.gives
    BY <1>3 DEF Follow
  <2>2. /\ authored \in J /\ IsGraph(authored) /\ selectable(authored)
        /\ walk \in Seq(ToSet(authored.route))
        /\ \A k \in 1..Len(walk) : walk[k] = route(authored)[k].id
        /\ held = available(authored, Len(walk) + 1)
    BY <2>1 DEF RouteInv
  <2>3. Len(route(authored)) \in Nat /\ Len(walk) \in Nat
        /\ Len(walk) + 1 \in 1..Len(authored.route)
    BY <2>1, <2>2, SelectableRoute
  <2>4. nextStep.id \in ToSet(authored.route)
    BY <2>2, <2>3, SelectableRoute DEF nextStep
  <2>5. /\ walk' \in Seq(ToSet(authored.route)) /\ Len(walk') = Len(walk) + 1
        /\ walk'[Len(walk) + 1] = nextStep.id
        /\ \A k \in 1..Len(walk) : walk'[k] = walk[k]
    BY <2>1, <2>2, <2>4
  <2>6. \A k \in 1..Len(walk') : walk'[k] = route(authored)[k].id
    BY <2>2, <2>3, <2>5 DEF nextStep
  <2>7. held' = available(authored, Len(walk') + 1)
    <3>1. Len(walk') + 1 = Len(walk) + 2
      BY <2>3, <2>5
    <3> QED BY <2>1, <2>2, <2>3, <3>1, AvailableNext DEF nextStep
  <2> QED BY <2>1, <2>2, <2>3, <2>5, <2>6, <2>7 DEF RouteInv
<1>4. CASE UNCHANGED routeVars
  BY <1>4 DEF routeVars, RouteInv
<1> QED BY <1>1, <1>2, <1>3, <1>4 DEF RouteNext

\* The next step of a shown route can be taken, by a documented transition.
LEMMA RouteIsFollowed == ASSUME NEW J, RouteInv(J) PROVE NeverStuck
<1> SUFFICES ASSUME shown, ~Arrived
             PROVE  /\ nextStep.needs \subseteq held
                    /\ walk # <<>> => joined(authored, Last(walk), nextStep.id)
  BY DEF NeverStuck
<1>1. /\ IsGraph(authored) /\ selectable(authored) /\ walk \in Seq(ToSet(authored.route))
      /\ Len(walk) <= Len(route(authored))
      /\ \A k \in 1..Len(walk) : walk[k] = route(authored)[k].id
      /\ held = available(authored, Len(walk) + 1)
  BY DEF RouteInv
<1>2. Len(walk) \in Nat /\ Len(route(authored)) \in Nat /\ Len(walk) < Len(route(authored))
      /\ DOMAIN route(authored) = 1..Len(route(authored))
  BY <1>1, SelectableRoute DEF Arrived
<1>3. nextStep.needs \subseteq held
  <2>1. Len(walk) + 1 \in DOMAIN route(authored)
    BY <1>2
  <2> QED BY <1>1, <2>1, StepIsSound DEF nextStep, selectable
<1>4. ASSUME walk # <<>> PROVE joined(authored, Last(walk), nextStep.id)
  <2>1. Len(walk) \in 1..(Len(route(authored)) - 1) /\ Len(walk) \in 1..Len(walk)
    BY <1>1, <1>2, <1>4
  <2>2. Last(walk) = route(authored)[Len(walk)].id
    BY <1>1, <2>1 DEF Last
  <2> QED BY <1>1, <2>1, <2>2, EdgesAreSound DEF nextStep, selectable
<1> QED BY <1>3, <1>4

\* The end of a shown route is the declared first success.
LEMMA RouteArrives == ASSUME NEW J, RouteInv(J) PROVE ArrivesAtSuccess
<1> DEFINE r == route(authored)
<1> SUFFICES ASSUME Arrived
    PROVE  /\ walk # <<>> /\ Last(walk) = authored.success.node
           /\ node(authored, Last(walk)).kind = "terminal_outcome"
           /\ IsInjective(walk)
           /\ \A j, k \in DOMAIN walk :
                \/ node(authored, walk[j]).branch = "none"
                \/ node(authored, walk[k]).branch = "none"
                \/ node(authored, walk[j]).branch = node(authored, walk[k]).branch
           /\ \A x \in authored.gates : \E k \in DOMAIN walk :
                walk[k] = x.at /\ x \in buildJourneyOverlay(authored)[k].gates
  BY DEF ArrivesAtSuccess
<1>1. /\ IsGraph(authored) /\ selectable(authored) /\ walk \in Seq(ToSet(authored.route))
      /\ Len(walk) = Len(r) /\ \A k \in 1..Len(walk) : walk[k] = r[k].id
  BY DEF RouteInv, Arrived
<1>2. /\ Len(r) \in Nat /\ DOMAIN r = 1..Len(r) /\ DOMAIN walk = 1..Len(r)
      /\ r \in Seq(ToSet(authored.nodes))
      /\ \A k \in 1..Len(r) : r[k] = node(authored, r[k].id)
  BY <1>1, SelectableRoute
<1>3. \A code : code \notin validateJourneyGraph(authored)
  BY <1>1 DEF selectable
<1>4. /\ r # <<>> /\ Last(r).kind = "terminal_outcome"
      /\ authored.success.node = Last(r).id
  BY <1>3, EndIsSound
<1> HIDE DEF r
<1>5. Len(r) \in 1..Len(r) /\ Last(r) = r[Len(r)] /\ walk # <<>> /\ Last(walk) = walk[Len(r)]
  BY <1>1, <1>2, <1>4 DEF Last
<1>6. Last(walk) = authored.success.node /\ node(authored, Last(walk)) = Last(r)
  BY <1>1, <1>2, <1>4, <1>5
<1>7. IsInjective(walk)
  <2>1. ASSUME NEW j \in 1..Len(r), NEW k \in 1..Len(r), j < k PROVE walk[j] # walk[k]
    <3>1. j \in 1..(k - 1)
      BY <2>1
    <3>2. r[j].id # r[k].id
      BY <1>2, <1>3, <3>1, StepIsSound DEF r
    <3> QED BY <1>1, <3>2
  <2>2. ASSUME NEW j \in 1..Len(r), NEW k \in 1..Len(r), walk[j] = walk[k] PROVE j = k
    BY <1>2, <2>1, <2>2
  <2> QED BY <1>2, <2>2 DEF IsInjective
<1>8. ASSUME NEW j \in DOMAIN walk, NEW k \in DOMAIN walk
      PROVE  \/ node(authored, walk[j]).branch = "none"
             \/ node(authored, walk[k]).branch = "none"
             \/ node(authored, walk[j]).branch = node(authored, walk[k]).branch
  <2>1. j \in DOMAIN r /\ k \in DOMAIN r
    BY <1>2
  <2>2. node(authored, walk[j]) = r[j] /\ node(authored, walk[k]) = r[k]
    BY <1>1, <1>2
  <2>3. r[j].branch # "none" /\ r[k].branch # "none" => r[j].branch = r[k].branch
    BY <1>2, <1>3, <2>1, OneBranch DEF r
  <2> QED BY <2>2, <2>3
<1>9. ASSUME NEW x \in authored.gates
      PROVE  \E k \in DOMAIN walk : walk[k] = x.at /\ x \in buildJourneyOverlay(authored)[k].gates
  <2>1. PICK k \in DOMAIN r : r[k].id = x.at
    BY <1>3, GatesAreSound DEF r
  <2>2. buildJourneyOverlay(authored)[k].gates = {y \in authored.gates : y.at = r[k].id}
    BY <2>1 DEF buildJourneyOverlay, overlayGates, r
  <2> QED BY <1>1, <1>2, <2>1, <2>2
<1> QED BY <1>4, <1>5, <1>6, <1>7, <1>8, <1>9

\* What a shown route rests on is disclosed.
LEMMA RouteIsDisclosed == ASSUME NEW J, RouteInv(J) PROVE ShownIsDisclosed
<1> DEFINE r == route(authored)
           steps == buildJourneyOverlay(authored)
           nodes == ToSet(selectedNodes(authored))
           chosen == {y \in authored.gates : y.at \in ToSet(authored.route)}
<1> SUFFICES ASSUME shown
    PROVE  /\ selectedNodes(authored) = r => disclosedBoundary(authored) = firstSuccess(authored)
           /\ Sources \cap ((UNION {steps[k].sources \cup UNION {x.evidence : x \in steps[k].gates} :
                                 k \in DOMAIN steps}) \cup authored.success.evidence)
                \subseteq disclosed(authored)
  BY DEF ShownIsDisclosed
<1>1. IsGraph(authored) /\ selectable(authored)
  BY DEF RouteInv
<1>2. DOMAIN r = 1..Len(authored.route) /\ DOMAIN steps = DOMAIN r
      /\ \A k \in DOMAIN r :
           /\ authored.route[k] \in ToSet(authored.route)
           /\ r[k].id = authored.route[k] /\ r[k] \in ToSet(authored.nodes)
           /\ steps[k].sources = r[k].evidence
           /\ steps[k].gates = {x \in authored.gates : x.at = r[k].id}
  BY <1>1, SelectableRoute DEF buildJourneyOverlay, overlayGates
<1>3. nodes = ToSet(authored.nodes)
                \cap {n \in ToSet(authored.nodes) : n.id \in ToSet(authored.route)}
  BY <1>1, AmongList DEF selectedNodes, IsGraph
<1>4. \A k \in DOMAIN r : r[k] \in nodes /\ steps[k].gates \subseteq chosen
  BY <1>2, <1>3
<1>5. /\ \A n \in nodes : Sources \cap n.evidence \subseteq disclosed(authored)
      /\ \A x \in chosen : Sources \cap x.evidence \subseteq disclosed(authored)
      /\ Sources \cap authored.success.evidence \subseteq disclosed(authored)
  <2> DEFINE ofNodes == UNION {n.evidence \cup UNION n.fields : n \in nodes}
             ofGates == UNION {x.evidence : x \in chosen}
             ofStart == UNION {p.evidence : p \in authored.prerequisites}
             ofRoutes == UNION {c.evidence : c \in ToSet(authored.candidates)}
  <2>1. disclosed(authored) =
          Sources \cap (ofStart \cup ofNodes \cup ofGates \cup ofRoutes
                         \cup authored.success.evidence)
    BY DEF disclosed
  <2>2. \A n \in nodes : n.evidence \subseteq ofNodes
    OBVIOUS
  <2>3. \A x \in chosen : x.evidence \subseteq ofGates
    OBVIOUS
  <2> HIDE DEF ofNodes, ofGates, ofStart, ofRoutes
  <2> QED BY <2>1, <2>2, <2>3
<1>6. selectedNodes(authored) = r => disclosedBoundary(authored) = firstSuccess(authored)
  BY DEF disclosedBoundary, firstSuccess
<1> HIDE DEF r, steps, nodes, chosen
<1>7. ASSUME NEW s \in Sources, NEW k \in DOMAIN steps,
             s \in steps[k].sources \cup UNION {x.evidence : x \in steps[k].gates}
      PROVE  s \in disclosed(authored)
  <2>1. CASE s \in steps[k].sources
    BY <1>2, <1>4, <1>5, <2>1
  <2>2. CASE \E x \in steps[k].gates : s \in x.evidence
    BY <1>2, <1>4, <1>5, <2>2
  <2> QED BY <1>7, <2>1, <2>2
<1> QED BY <1>5, <1>6, <1>7

\* RouteHolds for any edits of the graph, as long as what they make lists its
\* nodes and its route: a shown route is never stuck, arrives at the declared
\* first success, and discloses what it rests on (validateJourneyGraph,
\* buildJourneyOverlayFromGraph, buildJourneyEvidence).
THEOREM RoutesCanBeFollowed ==
  ASSUME NEW J, Journeys(J)
  PROVE  RouteSpec => []RouteHolds
<1>1. RouteInit => RouteInv(J)
  BY RouteInvInit
<1>2. RouteInv(J) /\ [RouteNext]_routeVars => RouteInv(J)'
  BY RouteInvNext
<1>3. RouteInv(J) => RouteHolds
  BY RouteIsFollowed, RouteArrives, RouteIsDisclosed DEF RouteHolds
<1> QED BY <1>1, <1>2, <1>3, PTL DEF RouteSpec

------------------------------------------------------------------------------
(* The publication gate                                                    *)

\* G holds the graphs that a platform's authors may come to, and each of them
\* lists its nodes and its route.
Graphs(G) == FirstGraph \in G /\ \A g \in G : IsGraph(g) /\ Revised(g) \subseteq G

\* P holds the facts that reviews may establish of a platform; sources are
\* numbered from 1, and what was retrieved was retrieved on some day.
Platforms(P) ==
  /\ FirstPlatform \in P
  /\ \A p \in P : p.retrieved \in Int /\ 0 \notin p.listed /\ Reviewed(p) \subseteq P

Verdict(g, p, d) == [disposition |-> dispositionFor(g, p, d), eligible |-> eligible(g, p, d)]

\* The inductive invariant.  The committed verdict was given on some day up to
\* now, on the graph and the facts that still stand.
HealthInv(G, P) ==
  /\ graph \in G /\ platform \in P /\ day \in Nat
  /\ health # NotBuilt => \E d \in 0..day : health = Verdict(graph, platform, d)

LEMMA HealthInvInit ==
  ASSUME NEW G, NEW P, Graphs(G), Platforms(P), HealthInit
  PROVE  HealthInv(G, P)
  BY DEF Graphs, Platforms, HealthInit, HealthInv

LEMMA HealthInvNext ==
  ASSUME NEW G, NEW P, Graphs(G), Platforms(P), HealthInv(G, P), [HealthNext]_healthVars
  PROVE  HealthInv(G, P)'
<1>1. CASE ReviseGraph
  BY <1>1 DEF ReviseGraph, unbuilt, Graphs, HealthInv
<1>2. CASE ReviewPlatform
  BY <1>2 DEF ReviewPlatform, unbuilt, Platforms, HealthInv
<1>3. CASE Build
  <2>1. UNCHANGED <<graph, platform, day>> /\ health' = Verdict(graph, platform, day)
    BY <1>3 DEF Build, Verdict
  <2>2. day \in 0..day
    BY DEF HealthInv
  <2> QED BY <2>1, <2>2 DEF HealthInv
<1>4. CASE NextDay
  <2>1. UNCHANGED <<graph, platform, health>> /\ day' = day + 1
    BY <1>4 DEF NextDay
  <2>2. 0..day \subseteq 0..(day + 1)
    BY DEF HealthInv
  <2> QED BY <2>1, <2>2 DEF HealthInv
<1>5. CASE UNCHANGED healthVars
  BY <1>5 DEF healthVars, HealthInv
<1> QED BY <1>1, <1>2, <1>3, <1>4, <1>5 DEF HealthNext

\* What the verdict goes by apart from the age of the evidence.
Fit(g, p) ==
  /\ resolved(p) /\ rejectedSources(p) = {} /\ acceptedSources(p) # {}
  /\ missingContent(p) = {} /\ graphHealth(g, p) = {}

\* Unsupported claims are among what is found in a graph.
LEMMA FitIsSupported ==
  ASSUME NEW g, NEW p, graphHealth(g, p) = {}
  PROVE  /\ p.graphed
         /\ unsupported(g, p) = {}
         /\ routeFindings(g) = {} /\ edgeHealth(g) = {} /\ endHealth(g) = {}
         /\ \A k \in DOMAIN route(g) : stepHealth(g, k) = {}
         /\ when(Cardinality({n.branch : n \in ToSet(route(g))} \ {"none"}) > 1,
                 "branch_concatenation") = {}
         /\ when(\E x \in g.gates : x.at \notin ToSet(g.route), "unknown_gate_target") = {}
         /\ when(g.blocked, "unresolved_uncertainty") = {}
<1> DEFINE steps == UNION {stepHealth(g, k) : k \in DOMAIN route(g)}
           branches == when(Cardinality({n.branch : n \in ToSet(route(g))} \ {"none"}) > 1,
                            "branch_concatenation")
           candidates == when(\E c \in ToSet(g.candidates) : candidateUnfit(g, c),
                              "invalid_candidate_route")
           gates == when(\E x \in g.gates : x.at \notin ToSet(g.route), "unknown_gate_target")
           blocked == when(g.blocked, "unresolved_uncertainty")
           grounding == when(unsupported(g, p) # {}, "claim_grounding_failed")
<1>1. graphHealth(g, p) =
        IF ~p.graphed THEN {"missing_journey_graph"}
        ELSE routeFindings(g) \cup steps \cup edgeHealth(g) \cup branches \cup candidates
               \cup gates \cup blocked \cup endHealth(g) \cup grounding
  BY DEF graphHealth, when
<1>2. grounding = {} => unsupported(g, p) = {}
  BY DEF when
<1>3. \A k \in DOMAIN route(g) : stepHealth(g, k) \subseteq steps
  OBVIOUS
<1> HIDE DEF steps, branches, candidates, gates, blocked, grounding
<1>4. p.graphed /\ routeFindings(g) = {} /\ steps = {} /\ edgeHealth(g) = {} /\ branches = {}
      /\ gates = {} /\ blocked = {} /\ endHealth(g) = {} /\ grounding = {}
  BY <1>1
<1> QED BY <1>2, <1>3, <1>4 DEF branches, gates, blocked

\* The verdict by the fitness of a platform and the age of its evidence.
LEMMA VerdictByAge ==
  ASSUME NEW g, NEW p, p.retrieved \in Int, NEW d \in Nat
  PROVE  /\ eligible(g, p, d) <=> Fit(g, p) /\ evidenceIsFresh(p, d)
         /\ dispositionFor(g, p, d) = "published" <=> eligible(g, p, d)
         /\ Fit(g, p) /\ p.retrieved # Never /\ ~evidenceIsFresh(p, d)
              => dispositionFor(g, p, d) = "stale"
         /\ ~Fit(g, p) \/ p.retrieved = Never
              => \A e \in Nat : dispositionFor(g, p, e) = dispositionFor(g, p, d)
<1> DEFINE Old(e) == p.retrieved # Never /\ e - p.retrieved > FreshDays
           Rest == IF ~resolved(p) THEN "identity_needs_approval"
                   ELSE IF rejectedSources(p) # {} THEN "excluded"
                   ELSE IF acceptedSources(p) = {} \/ missingContent(p) # {} \/ unsupported(g, p) # {}
                   THEN "evidence_needs_review"
                   ELSE "route_needs_review"
<1>1. Fit(g, p) => unsupported(g, p) = {}
  BY FitIsSupported DEF Fit
<1>2. \A e : eligible(g, p, e) <=> Fit(g, p) /\ evidenceIsFresh(p, e)
  BY DEF eligible, Fit
<1>3. \A e : dispositionFor(g, p, e) =
               IF Fit(g, p) /\ Old(e) THEN "stale"
               ELSE IF eligible(g, p, e) THEN "published" ELSE Rest
  BY <1>1 DEF dispositionFor, Fit
<1>4. \A e \in Nat : Old(e) <=> p.retrieved # Never /\ ~evidenceIsFresh(p, e)
  BY FreshnessInDays DEF evidenceIsFresh
<1>5. Rest # "published"
  OBVIOUS
<1>6. p.retrieved = Never => \A e : ~evidenceIsFresh(p, e)
  BY DEF evidenceIsFresh
<1> HIDE DEF Old, Rest
<1> QED BY <1>2, <1>3, <1>4, <1>5, <1>6

\* Fresh evidence was fresh before.
LEMMA OnlyAges ==
  ASSUME NEW p, p.retrieved \in Int, NEW d \in Nat, NEW e \in Nat, d <= e, evidenceIsFresh(p, e)
  PROVE  evidenceIsFresh(p, d)
  BY FreshnessInDays DEF evidenceIsFresh

\* What an eligible platform's pages cite was retrieved from its own sources.
LEMMA FitIsGrounded ==
  ASSUME NEW g, NEW p, Fit(g, p)
  PROVE  /\ p.listed \subseteq p.official \cap p.content
         /\ \A e \in claims(g) : e # {} /\ e \subseteq p.listed
         /\ g.success.evidence \in claims(g)
<1>1. p.listed \subseteq p.official \cap p.content
  BY DEF Fit, rejectedSources, missingContent, acceptedSources
<1>2. p.graphed /\ unsupported(g, p) = {} /\ endHealth(g) = {}
  BY FitIsSupported DEF Fit
<1>3. \A e \in claims(g) : covered(p, e)
  BY <1>2 DEF unsupported
<1>4. g.success.evidence \in claims(g)
  BY <1>2 DEF claims, claimsUngated
<1> QED BY <1>1, <1>3, <1>4 DEF covered

\* A graph in which the script finds nothing: the findings that
\* validateJourneyGraph may still make.
Wording == {"near_duplicate_action", "missing_decision_options", "missing_evidence",
            "missing_evidence_locator", "invalid_candidate_route", "invalid_terminal"}

LEMMA EvidenceIsWording == ASSUME NEW e PROVE evidenceFindings(e) \subseteq Wording
  BY DEF evidenceFindings, when, Wording

\* Of a step.
LEMMA StepIsNearlySelectable ==
  ASSUME NEW g, NEW k, stepHealth(g, k) = {}
  PROVE  stepFindings(g, k) \subseteq Wording
<1> DEFINE n == route(g)[k]
           earlier == {route(g)[j] : j \in 1..(k - 1)}
           cited == UNION {evidenceFindings(e) : e \in {n.evidence} \cup n.fields \cup n.failures
                                                    \cup {o.evidence : o \in n.options}}
<1>1. cited \subseteq Wording
  BY EvidenceIsWording
<1>2. /\ ~ \E m \in earlier : m.id = n.id
      /\ ~ \E m \in earlier : m.action = n.action
      /\ ~ (n.kind = "developer_action" /\ n.action \in Connected)
      /\ inventoryFindings(n) = {}
      /\ ~ (n.kind = "developer_action" /\ n.inDocs)
      /\ ~ (n.kind \in {"passive_wait", "platform_outcome"} /\ n.actor = "developer")
      /\ n.needs \subseteq available(g, k)
  BY DEF stepHealth, when
<1>3. ~ (n.kind = "developer_action" /\ n.action \in Compound)
  BY <1>2, ScriptIsStricter
<1>4. ~ \E m \in earlier : m.id = n.id \/ m.action = n.action
  BY <1>2
<1>5. stepFindings(g, k) =
        when(\E m \in earlier : m.id = n.id \/ m.action = n.action, "duplicate_node")
        \cup when(\E m \in earlier : alike(m.action, n.action), "near_duplicate_action")
        \cup when(n.kind = "developer_action" /\ n.action \in Compound, "compound_action")
        \cup when(n.kind = "developer_action" /\ n.inDocs, "documentation_navigation_action")
        \cup when(n.kind \in {"passive_wait", "platform_outcome"} /\ n.actor = "developer",
                  "wrong_actor_for_event")
        \cup when(~(n.needs \subseteq available(g, k)), "broken_causal_input")
        \cup when(n.kind = "decision" /\ Cardinality(n.options) < 2, "missing_decision_options")
        \cup inventoryFindings(n) \cup cited
  BY DEF stepFindings, when
<1> HIDE DEF cited, earlier, n
<1> QED BY <1>1, <1>2, <1>3, <1>4, <1>5 DEF when, Wording

\* Of the transitions, the gates and the end.
LEMMA RestIsNearlySelectable ==
  ASSUME NEW g, IsGraph(g), NEW p, 0 \notin p.listed, Fit(g, p)
  PROVE  /\ edgeFindings(g) \subseteq Wording
         /\ gateFindings(g) \subseteq Wording
         /\ endFindings(g) \subseteq Wording
<1>1. /\ routeFindings(g) = {} /\ edgeHealth(g) = {} /\ endHealth(g) = {}
      /\ when(\E x \in g.gates : x.at \notin ToSet(g.route), "unknown_gate_target") = {}
  BY FitIsSupported DEF Fit
<1>2. edgeFindings(g) \subseteq Wording
  <2> DEFINE cited == UNION {evidenceFindings(e.evidence) : e \in ToSet(g.edges)}
  <2>1. cited \subseteq Wording
    BY EvidenceIsWording
  <2>2. edgeFindings(g) \subseteq edgeHealth(g) \cup cited
    BY DEF edgeFindings, edgeHealth, when
  <2> QED BY <1>1, <2>1, <2>2
<1>3. gateFindings(g) \subseteq Wording
  <2> DEFINE cited == UNION {evidenceFindings(x.evidence) : x \in g.gates}
  <2>1. cited \subseteq Wording
    BY EvidenceIsWording
  <2>2. ToSet(g.route) \subseteq ids(g)
    <3>1. when(~(ToSet(g.route) \subseteq ids(g)), "unknown_node") = {}
      BY <1>1 DEF routeFindings
    <3> QED BY <3>1 DEF when
  <2>3. \A x \in g.gates : x.at \in {n.id : n \in ToSet(route(g))}
    <3>1. \A x \in g.gates : x.at \in ToSet(g.route)
      BY <1>1 DEF when
    <3>2. /\ DOMAIN route(g) = 1..Len(g.route)
          /\ \A k \in 1..Len(g.route) : route(g)[k].id = g.route[k]
      BY <2>2, RouteOfIds
    <3>3. DOMAIN g.route = 1..Len(g.route)
      BY DEF IsGraph
    <3> QED BY <3>1, <3>2, <3>3 DEF ToSet
  <2>4. gateFindings(g) = cited
    BY <2>3 DEF gateFindings, when
  <2> QED BY <2>1, <2>4
<1>4. endFindings(g) \subseteq Wording
  <2>1. ~ (\/ route(g) = <<>> \/ g.success.node # Last(route(g)).id
           \/ g.success.created /\ g.success.continues)
    BY <1>1 DEF endHealth, when
  <2>2. hasEvidence(g.success.evidence)
    BY FitIsGrounded DEF hasEvidence
  <2>3. endFindings(g) \subseteq {"invalid_terminal"}
    BY <2>1, <2>2 DEF endFindings, when
  <2> QED BY <2>3 DEF Wording
<1> QED BY <1>2, <1>3, <1>4

LEMMA FitIsNearlySelectable ==
  ASSUME NEW g, IsGraph(g), NEW p, 0 \notin p.listed, Fit(g, p)
  PROVE  validateJourneyGraph(g) \subseteq Wording
<1> DEFINE candidates == when(\E c \in ToSet(g.candidates) : candidateIncomplete(g, c),
                              "invalid_candidate_route")
           prerequisites == UNION {evidenceFindings(q.evidence) : q \in g.prerequisites}
           steps == UNION {stepFindings(g, k) : k \in DOMAIN route(g)}
           branches == when(Cardinality({n.branch : n \in ToSet(route(g))} \ {"none"}) > 1,
                            "branch_concatenation")
           blocked == when(g.blocked, "unresolved_uncertainty")
<1>1. validateJourneyGraph(g) =
        routeFindings(g) \cup candidates \cup prerequisites \cup steps \cup branches
          \cup edgeFindings(g) \cup gateFindings(g) \cup endFindings(g) \cup blocked
  BY DEF validateJourneyGraph, when
<1>2. /\ routeFindings(g) = {} /\ branches = {} /\ blocked = {}
      /\ \A k \in DOMAIN route(g) : stepHealth(g, k) = {}
  BY FitIsSupported DEF Fit
<1>3. candidates \subseteq Wording
  BY DEF when, Wording
<1>4. prerequisites \subseteq Wording
  BY EvidenceIsWording
<1>5. steps \subseteq Wording
  BY <1>2, StepIsNearlySelectable
<1>6. edgeFindings(g) \subseteq Wording /\ gateFindings(g) \subseteq Wording
      /\ endFindings(g) \subseteq Wording
  BY RestIsNearlySelectable
<1> HIDE DEF candidates, prerequisites, steps, branches, blocked
<1> QED BY <1>1, <1>2, <1>3, <1>4, <1>5, <1>6

\* An eligible platform stands.
LEMMA VerdictStands ==
  ASSUME NEW G, NEW P, Graphs(G), Platforms(P), HealthInv(G, P)
  PROVE  PublishedStands
<1>1. /\ graph \in G /\ IsGraph(graph)
      /\ platform.retrieved \in Int /\ 0 \notin platform.listed
  BY DEF Graphs, Platforms, HealthInv
<1>2. CASE health = NotBuilt
  BY <1>2 DEF PublishedStands, PublishedIsEligible, PublishedIsGrounded,
              PublishedIsNearlySelectable, isEligible, NotBuilt
<1>3. CASE health # NotBuilt
  <2>1. PICK d \in 0..day : health = Verdict(graph, platform, d)
    BY <1>3 DEF HealthInv
  <2>2. d \in Nat
    BY DEF HealthInv
  <2>3. /\ health.eligible <=> Fit(graph, platform) /\ evidenceIsFresh(platform, d)
        /\ health.disposition = "published" <=> health.eligible
    <3>1. health.disposition = dispositionFor(graph, platform, d)
          /\ health.eligible = eligible(graph, platform, d)
      BY <2>1 DEF Verdict
    <3> QED BY <1>1, <2>2, <3>1, VerdictByAge
  <2>4. PublishedIsEligible
    BY <2>3 DEF PublishedIsEligible, isEligible
  <2>5. PublishedIsGrounded
    <3> DEFINE cited == (UNION {{n.evidence} \cup n.fields : n \in ToSet(route(graph))})
                        \cup {x.evidence : x \in graph.gates}
                        \cup {x.evidence : x \in graph.prerequisites}
                        \cup {c.evidence : c \in ToSet(graph.candidates)}
                        \cup {graph.success.evidence}
    <3> SUFFICES ASSUME Fit(graph, platform)
                 PROVE  UNION cited \subseteq platform.listed \cap platform.official \cap platform.content
      BY <2>3 DEF PublishedIsGrounded, isEligible
    <3>1. /\ platform.listed \subseteq platform.official \cap platform.content
          /\ \A e \in claims(graph) : e \subseteq platform.listed
          /\ graph.success.evidence \in claims(graph)
      BY FitIsGrounded
    <3>2. cited \subseteq claims(graph)
      BY <3>1 DEF claims, claimsUngated, ToSet
    <3> HIDE DEF cited
    <3> QED BY <3>1, <3>2
  <2>6. PublishedIsNearlySelectable
    BY <1>1, <2>3, FitIsNearlySelectable DEF PublishedIsNearlySelectable, isEligible, Wording
  <2> QED BY <2>4, <2>5, <2>6 DEF PublishedStands
<1> QED BY <1>2, <1>3

\* A verdict is retired by a later build, or stays.
LEMMA TimeRetires ==
  ASSUME NEW G, NEW P, Graphs(G), Platforms(P), HealthInv(G, P), [HealthNext]_healthVars,
         health # NotBuilt
  PROVE  \/ health' = health
         \/ health.disposition = "published" /\ health'.disposition = "stale"
<1>1. CASE Build
  <2>1. PICK d \in 0..day : health = Verdict(graph, platform, d)
    BY DEF HealthInv
  <2>2. health' = Verdict(graph, platform, day)
    BY <1>1 DEF Build, Verdict
  <2>3. d \in Nat /\ day \in Nat /\ d <= day /\ platform.retrieved \in Int
    BY DEF HealthInv, Platforms
  <2> DEFINE fit == Fit(graph, platform)
             fresh(e) == evidenceIsFresh(platform, e)
  <2>4. \A e \in Nat :
          /\ eligible(graph, platform, e) <=> fit /\ fresh(e)
          /\ dispositionFor(graph, platform, e) = "published" <=> eligible(graph, platform, e)
          /\ fit /\ platform.retrieved # Never /\ ~fresh(e)
               => dispositionFor(graph, platform, e) = "stale"
          /\ ~fit \/ platform.retrieved = Never
               => dispositionFor(graph, platform, e) = dispositionFor(graph, platform, d)
    BY <2>3, VerdictByAge
  <2>5. fresh(day) => fresh(d)
    BY <2>3, OnlyAges
  <2>6. \A e : fresh(e) => platform.retrieved # Never
    BY DEF evidenceIsFresh
  <2>7. \A e : eligible(graph, platform, e) \in BOOLEAN
    BY DEF eligible, evidenceIsFresh
  <2> HIDE DEF fit, fresh
  <2>8. CASE fit /\ fresh(d) /\ ~fresh(day)
    <3>1. dispositionFor(graph, platform, d) = "published"
          /\ dispositionFor(graph, platform, day) = "stale"
      BY <2>3, <2>4, <2>6, <2>8
    <3> QED BY <2>1, <2>2, <3>1 DEF Verdict
  <2>9. CASE ~ (fit /\ fresh(d) /\ ~fresh(day))
    <3>1. dispositionFor(graph, platform, day) = dispositionFor(graph, platform, d)
      BY <2>3, <2>4, <2>5, <2>9
    <3>2. eligible(graph, platform, day) = eligible(graph, platform, d)
      BY <2>3, <2>4, <2>5, <2>7, <2>9, Zenon
    <3> QED BY <2>1, <2>2, <3>1, <3>2 DEF Verdict
  <2> QED BY <2>8, <2>9
<1>2. CASE ~Build
  BY <1>2 DEF HealthNext, ReviseGraph, ReviewPlatform, NextDay, unbuilt, healthVars
<1> QED BY <1>1, <1>2

\* PublishedStands for any graphs, reviews, days and freshness: what the build
\* publishes is listed as published, rests on sources that were retrieved, and
\* has a graph with next to no finding (build-corpus-health.mjs).
THEOREM PublicationStands ==
  ASSUME NEW G, NEW P, Graphs(G), Platforms(P)
  PROVE  HealthSpec => []PublishedStands
<1>1. HealthInit => HealthInv(G, P)
  BY HealthInvInit
<1>2. HealthInv(G, P) /\ [HealthNext]_healthVars => HealthInv(G, P)'
  BY HealthInvNext
<1>3. HealthInv(G, P) => PublishedStands
  BY VerdictStands
<1> QED BY <1>1, <1>2, <1>3, PTL DEF HealthSpec

\* TimeOnlyRetires for any of them: time retires published platforms and
\* changes nothing else (dispositionFor, evidenceIsFresh).
THEOREM PublicationOnlyAges ==
  ASSUME NEW G, NEW P, Graphs(G), Platforms(P)
  PROVE  HealthSpec => TimeOnlyRetires
<1>1. HealthInit => HealthInv(G, P)
  BY HealthInvInit
<1>2. HealthInv(G, P) /\ [HealthNext]_healthVars => HealthInv(G, P)'
  BY HealthInvNext
<1>3. HealthInv(G, P) /\ [HealthNext]_healthVars =>
        [health # NotBuilt =>
           health' = health \/ (health.disposition = "published" /\ health'.disposition = "stale")]_healthVars
  BY TimeRetires
<1> QED BY <1>1, <1>2, <1>3, PTL DEF HealthSpec, TimeOnlyRetires

------------------------------------------------------------------------------
(* A live research run                                                     *)

Identified == request.identities = 1 /\ ~request.slugPublished
PagesUsable == docs # <<>> /\ \A k \in DOMAIN docs : docs[k].hasContent
Sound(rec) == grounded(rec, docs) /\ graphFindings(rec) = {}

\* The inductive invariant.  Where the run is says how many searches and calls
\* it has paid for at most, each of them took 94 or 95 seconds at most together
\* with the wait after it, and what it asks and completes with rests on usable
\* pages.
PipelineInv ==
  /\ PipelineTypeOK
  /\ phase \in {"begin", "search", "choose", "ask", "ground", "returned", "stopped",
                "search_failed", "invalid_output", "model_failed"}
  /\ searches \in 0..3 /\ calls \in 0..4
  /\ phase = "begin" => searches = 0 /\ calls = 0
  /\ phase = "search" => attempt \in 1..3 /\ searches = attempt - 1 /\ calls = 0 /\ Identified
  /\ phase \in {"choose", "search_failed"} => calls = 0
  /\ phase = "choose" => docs \in Findings
  /\ phase = "ask" =>
       /\ attempt \in 1..2 /\ call \in 1..2 /\ calls <= 2 * (attempt - 1) + (call - 1)
       /\ PagesUsable
  /\ searches > 0 => Identified
  /\ calls > 0 => PagesUsable
  /\ phase = "ground" => PagesUsable
  /\ phase # "stopped" => clock <= 94 * searches + 95 * calls
  /\ phase = "stopped" => searches = 3 /\ calls = 4
  /\ outcome = "completed" => PagesUsable /\ Sound(record)

LEMMA PipelineInvInit == PipelineInit => PipelineInv
  BY DEF PipelineInit, PipelineInv, PipelineTypeOK, ParentTimeout, SearchWaits, MaxCalls, Failures

\* The run begins: it searches, or returns at once.
LEMMA BeginKeeps == ASSUME PipelineInv, Begin PROVE PipelineInv'
<1>1. /\ phase = "begin" /\ attempt' = 1
      /\ UNCHANGED <<request, call, docs, record, searches, calls, clock>>
  BY DEF Begin, Return
<1>2. \/ phase' = "returned" /\ outcome' \in {"known", "identity_ambiguous", "identity_unresolved"}
      \/ phase' = "search" /\ UNCHANGED outcome /\ Identified
  BY DEF Begin, Return, Identified, known
<1>3. /\ Identified' <=> Identified
      /\ PagesUsable' <=> PagesUsable
  BY <1>1 DEF Identified, PagesUsable
<1> QED BY <1>1, <1>2, <1>3
        DEF PipelineInv, PipelineTypeOK, ParentTimeout, SearchWaits, MaxCalls, Failures

\* A search that answers.
LEMMA SearchReturnsKeeps == ASSUME PipelineInv, SearchReturns PROVE PipelineInv'
<1>1. PICK d \in {1, 90} : Elapse(d, "choose") /\ docs' \in Findings
  BY DEF SearchReturns, SearchTimeout
<1>2. /\ phase = "search"
      /\ UNCHANGED <<outcome, attempt, request, call, record, calls>> /\ searches' = searches + 1
  BY DEF SearchReturns, Paid
<1>3. clock' = clock + d /\ phase' = "choose" /\ clock + d <= 600
  BY <1>1, <1>2 DEF Elapse, ParentTimeout, PipelineInv, PipelineTypeOK
<1>4. Identified' <=> Identified
  BY <1>2 DEF Identified
<1> QED BY <1>1, <1>2, <1>3, <1>4
        DEF PipelineInv, PipelineTypeOK, ParentTimeout, SearchWaits, MaxCalls, Failures

\* A search that fails is tried again, or is the last.
LEMMA SearchFailsKeeps == ASSUME PipelineInv, SearchFails PROVE PipelineInv'
<1>1. /\ phase = "search"
      /\ UNCHANGED <<outcome, docs, request, call, record, calls>> /\ searches' = searches + 1
      /\ attempt \in 1..3 /\ searches = attempt - 1 /\ calls = 0 /\ Identified
      /\ clock \in Nat /\ clock <= 94 * searches /\ outcome = "none"
  BY DEF SearchFails, Paid, PipelineInv, PipelineTypeOK
<1>2. PICK d \in {1, 90} :
        IF attempt <= 2
        THEN Elapse(d + SearchWaits[attempt], "search") /\ attempt' = attempt + 1
        ELSE Elapse(d, "search_failed") /\ UNCHANGED attempt
  <2>1. Len(SearchWaits) = 2
    BY DEF SearchWaits
  <2> QED BY <2>1 DEF SearchFails, SearchTimeout
<1>3. \/ /\ attempt \in 1..2 /\ attempt' = attempt + 1 /\ phase' = "search"
         /\ clock' \in Nat /\ clock' <= 94 * (searches + 1)
      \/ /\ attempt = 3 /\ attempt' = 3 /\ phase' = "search_failed"
         /\ clock' \in Nat /\ clock' <= 94 * (searches + 1)
  <2>1. attempt \in 1..2 => SearchWaits[attempt] \in {2, 4}
    BY DEF SearchWaits
  <2> QED BY <1>1, <1>2, <2>1 DEF Elapse, ParentTimeout
<1>4. (Identified' <=> Identified) /\ (PagesUsable' <=> PagesUsable)
  BY <1>1 DEF Identified, PagesUsable
<1> QED BY <1>1, <1>3, <1>4
        DEF PipelineInv, PipelineTypeOK, ParentTimeout, SearchWaits, MaxCalls, Failures

\* Only pages that have content are kept.
LEMMA UsableOf ==
  ASSUME NEW found \in Findings
  PROVE  /\ usable(found) \in Seq(ToSet(found))
         /\ \A k \in DOMAIN usable(found) : usable(found)[k].hasContent
<1> DEFINE good == {d \in ToSet(found) : d.hasContent}
<1>1. usable(found) \in Seq(good)
  BY PageLists, AmongList DEF usable
<1> QED BY <1>1

LEMMA ChoosePagesKeeps == ASSUME PipelineInv, ChoosePages PROVE PipelineInv'
<1>1. /\ phase = "choose" /\ docs' = usable(docs) /\ attempt' = 1 /\ call' = 1
      /\ UNCHANGED <<request, record, searches, calls, clock>> /\ calls = 0
  BY DEF ChoosePages, Return, PipelineInv
<1>2. \/ phase' = "returned" /\ outcome' \in {"no_official_source", "official_source_unusable"}
      \/ phase' = "ask" /\ UNCHANGED outcome /\ usable(docs) # <<>>
  BY DEF ChoosePages, Return
<1>3. Identified' <=> Identified
  BY <1>1 DEF Identified
<1>4. usable(docs) # <<>> => PagesUsable'
  BY <1>1, UsableOf DEF PipelineInv, PagesUsable
<1> QED BY <1>1, <1>2, <1>3, <1>4
        DEF PipelineInv, PipelineTypeOK, ParentTimeout, SearchWaits, MaxCalls, Failures

\* What a call of the model leaves as it is, and what it costs.
LEMMA AskedOnce ==
  ASSUME PipelineInv, phase = "ask", Asked
  PROVE  /\ UNCHANGED <<request, docs, outcome, searches>> /\ calls' = calls + 1
         /\ outcome = "none" /\ searches \in 0..3
         /\ attempt \in 1..2 /\ call \in 1..2 /\ calls \in Nat
         /\ calls <= 2 * (attempt - 1) + (call - 1)
         /\ (Identified' <=> Identified) /\ (PagesUsable' <=> PagesUsable)
         /\ PagesUsable /\ (searches > 0 => Identified)
         /\ clock \in Nat /\ clock <= 94 * searches + 95 * calls
  BY DEF PipelineInv, PipelineTypeOK, Asked, Identified, PagesUsable

\* A call that takes the run to another phase, or to the limit of the task.
LEMMA CallEnds ==
  ASSUME PipelineInv, phase = "ask", Asked, NEW d \in 0..95,
         NEW to \in {"ask", "ground", "invalid_output", "model_failed"}, Elapse(d, to)
  PROVE  /\ calls' \in 1..4 /\ clock' \in 0..600
         /\ \/ phase' = to /\ clock' <= 94 * searches' + 95 * calls'
            \/ phase' = "stopped" /\ searches' = 3 /\ calls' = 4
<1>1. /\ UNCHANGED searches /\ calls' = calls + 1 /\ searches \in 0..3
      /\ attempt \in 1..2 /\ call \in 1..2 /\ calls \in Nat
      /\ calls <= 2 * (attempt - 1) + (call - 1)
      /\ clock \in Nat /\ clock <= 94 * searches + 95 * calls
  BY AskedOnce
<1>2. \/ clock + d > 600 /\ clock' = 600 /\ phase' = "stopped"
      \/ clock + d <= 600 /\ clock' = clock + d /\ phase' = to
  BY <1>1 DEF Elapse, ParentTimeout
<1> QED BY <1>1, <1>2

LEMMA AcceptKeeps == ASSUME PipelineInv, Accept PROVE PipelineInv'
<1>1. phase = "ask" /\ UNCHANGED <<attempt, call>> /\ Asked
  BY DEF Accept
<1>2. PICK d \in {1, 90} : Elapse(d, "ground")
  BY DEF Accept, CallTimeout
<1>3. /\ calls' \in 1..4 /\ clock' \in 0..600
      /\ \/ phase' = "ground" /\ clock' <= 94 * searches' + 95 * calls'
         \/ phase' = "stopped" /\ searches' = 3 /\ calls' = 4
  <2>1. d \in 0..95
    OBVIOUS
  <2> QED BY <1>1, <1>2, <2>1, CallEnds
<1> QED BY <1>1, <1>3, AskedOnce
        DEF PipelineInv, PipelineTypeOK, ParentTimeout, SearchWaits, MaxCalls, Failures

LEMMA RejectKeeps == ASSUME PipelineInv, Reject PROVE PipelineInv'
<1>1. phase = "ask" /\ UNCHANGED <<attempt, record>> /\ Asked
  BY DEF Reject
<1>2. PICK d \in {1, 90} : IF call < 2 THEN call' = call + 1 /\ Elapse(d, "ask")
                          ELSE UNCHANGED call /\ Elapse(d, "invalid_output")
  BY Zenon DEF Reject, CallTimeout, MaxCalls
<1>3. /\ calls' \in 1..4 /\ clock' \in 0..600
      /\ \/ phase' = "ask" /\ call < 2 /\ call' = call + 1
            /\ clock' <= 94 * searches' + 95 * calls'
         \/ phase' = "invalid_output" /\ call' = call /\ clock' <= 94 * searches' + 95 * calls'
         \/ phase' = "stopped" /\ call' \in {call, call + 1} /\ (call < 2 \/ call' = call)
            /\ searches' = 3 /\ calls' = 4
  <2>1. d \in 0..95
    OBVIOUS
  <2>2. CASE call < 2
    <3>1. d \in 0..95 /\ Elapse(d, "ask")
      BY <1>2, <2>1, <2>2
    <3>2. /\ calls' \in 1..4 /\ clock' \in 0..600
          /\ \/ phase' = "ask" /\ clock' <= 94 * searches' + 95 * calls'
             \/ phase' = "stopped" /\ searches' = 3 /\ calls' = 4
      BY <1>1, <3>1, CallEnds
    <3> QED BY <1>2, <2>1, <2>2, <3>2
  <2>3. CASE ~ (call < 2)
    <3>1. d \in 0..95 /\ Elapse(d, "invalid_output")
      BY <1>2, <2>1, <2>3
    <3>2. /\ calls' \in 1..4 /\ clock' \in 0..600
          /\ \/ phase' = "invalid_output" /\ clock' <= 94 * searches' + 95 * calls'
             \/ phase' = "stopped" /\ searches' = 3 /\ calls' = 4
      BY <1>1, <3>1, CallEnds
    <3> QED BY <1>2, <2>1, <2>3, <3>2
  <2> QED BY <2>2, <2>3
<1> QED BY <1>1, <1>3, AskedOnce
        DEF PipelineInv, PipelineTypeOK, ParentTimeout, SearchWaits, MaxCalls, Failures

\* The second attempt starts from the first call again.
LEMMA CallFailsKeeps == ASSUME PipelineInv, CallFails PROVE PipelineInv'
<1>1. phase = "ask" /\ UNCHANGED record /\ Asked
  BY DEF CallFails
<1>2. PICK d \in {1, 90} :
        \/ attempt = 1 /\ Elapse(d + 5, "ask") /\ attempt' = 2 /\ call' = 1
        \/ attempt = 2 /\ Elapse(d, "model_failed") /\ UNCHANGED <<attempt, call>>
  <2>1. Len(ReconstructWaits) = 1 /\ ReconstructWaits[1] = 5
    BY DEF ReconstructWaits
  <2>2. attempt \in 1..2
    BY <1>1, AskedOnce
  <2> QED BY <2>1, <2>2 DEF CallFails, CallTimeout
<1>3. d \in 0..95 /\ d + 5 \in 0..95
  OBVIOUS
<1>4. /\ calls' \in 1..4 /\ clock' \in 0..600
      /\ \/ phase' = "ask" /\ attempt = 1 /\ attempt' = 2 /\ call' = 1
            /\ clock' <= 94 * searches' + 95 * calls'
         \/ phase' = "model_failed" /\ UNCHANGED <<attempt, call>>
            /\ clock' <= 94 * searches' + 95 * calls'
         \/ phase' = "stopped" /\ attempt' \in 1..2 /\ call' \in {1, call}
            /\ searches' = 3 /\ calls' = 4
  <2>1. attempt \in 1..2 /\ call \in 1..2
    BY <1>1, AskedOnce
  <2>2. CASE attempt = 1 /\ Elapse(d + 5, "ask") /\ attempt' = 2 /\ call' = 1
    <3>1. d + 5 \in 0..95 /\ Elapse(d + 5, "ask")
      BY <1>3, <2>2
    <3>2. /\ calls' \in 1..4 /\ clock' \in 0..600
          /\ \/ phase' = "ask" /\ clock' <= 94 * searches' + 95 * calls'
             \/ phase' = "stopped" /\ searches' = 3 /\ calls' = 4
      BY <1>1, <3>1, CallEnds
    <3> QED BY <2>1, <2>2, <3>2
  <2>3. CASE attempt = 2 /\ Elapse(d, "model_failed") /\ UNCHANGED <<attempt, call>>
    <3>1. d \in 0..95 /\ Elapse(d, "model_failed")
      BY <1>3, <2>3
    <3>2. /\ calls' \in 1..4 /\ clock' \in 0..600
          /\ \/ phase' = "model_failed" /\ clock' <= 94 * searches' + 95 * calls'
             \/ phase' = "stopped" /\ searches' = 3 /\ calls' = 4
      BY <1>1, <3>1, CallEnds
    <3> QED BY <2>1, <2>3, <3>2
  <2> QED BY <1>2, <2>2, <2>3
<1> QED BY <1>1, <1>4, AskedOnce
        DEF PipelineInv, PipelineTypeOK, ParentTimeout, SearchWaits, MaxCalls, Failures

\* The run returns with what it could not do, or with a record that it checks.
LEMMA ReturnKeeps ==
  ASSUME PipelineInv, UNCHANGED <<request, attempt, call, docs, record, searches, calls, clock>>,
         phase \notin {"returned", "stopped"}, phase' = "returned",
         outcome' \in Failures \cup {"completed"},
         outcome' = "completed" => PagesUsable /\ Sound(record)
  PROVE  PipelineInv'
<1>1. (Identified' <=> Identified) /\ (PagesUsable' <=> PagesUsable)
      /\ (PagesUsable /\ Sound(record) => Sound(record)')
  BY DEF Identified, PagesUsable, Sound
<1> QED BY <1>1 DEF PipelineInv, PipelineTypeOK, ParentTimeout, SearchWaits, MaxCalls, Failures

LEMMA PipelineInvNext == ASSUME PipelineInv, [PipelineNext]_pipelineVars PROVE PipelineInv'
<1>1. CASE Report
  BY <1>1, ReturnKeeps DEF Report, Return, Failures
<1>2. CASE Ground
  <2>1. /\ UNCHANGED <<request, attempt, call, docs, record, searches, calls, clock>>
        /\ phase = "ground" /\ phase' = "returned"
        /\ outcome' \in {"completed", "claim_grounding_failed"}
        /\ outcome' = "completed" => Sound(record)
    BY <1>2 DEF Ground, Return, Sound
  <2>2. PagesUsable
    BY <2>1 DEF PipelineInv
  <2> QED BY <2>1, <2>2, ReturnKeeps DEF Failures
<1>3. CASE UNCHANGED pipelineVars
  <2>1. UNCHANGED <<phase, outcome, request, attempt, call, docs, record, clock, searches, calls>>
    BY <1>3 DEF pipelineVars
  <2>2. (Identified' <=> Identified) /\ (PagesUsable' <=> PagesUsable)
        /\ (Sound(record)' <=> Sound(record))
    BY <2>1 DEF Identified, PagesUsable, Sound
  <2> QED BY <2>1, <2>2 DEF PipelineInv, PipelineTypeOK
<1> QED BY <1>1, <1>2, <1>3, BeginKeeps, SearchReturnsKeeps, SearchFailsKeeps, ChoosePagesKeeps,
           AcceptKeeps, RejectKeeps, CallFailsKeeps DEF PipelineNext

\* What a completed draft has, by what is not found in it.
LEMMA SoundIsGrounded == ASSUME PipelineInv PROVE CompletedIsGrounded
<1> DEFINE g == record.graph
           r == route(g)
<1> SUFFICES ASSUME outcome = "completed"
    PROVE  /\ \A s \in citations(g) : s \in DOMAIN docs /\ docs[s].hasContent
           /\ r # <<>> /\ Last(r).id = g.success.node /\ Last(r).kind = "terminal_outcome"
           /\ \A k \in DOMAIN r : r[k].needs \subseteq available(g, k) /\ r[k].evidence # {}
           /\ \A k \in 1..(Len(r) - 1) : \E e \in ToSet(g.edges) :
                e.from = r[k].id /\ e.to = r[k + 1].id /\ e.evidence # {}
  BY DEF CompletedIsGrounded
<1>1. PagesUsable /\ grounded(record, docs) /\ graphFindings(record) = {}
  BY DEF PipelineInv, Sound
<1>2. \A code : code # "compound_action" => code \notin validateJourneyGraph(g)
  BY <1>1 DEF graphFindings, draftBlockingJourneyFindings
<1>3. \A s \in citations(g) : s \in DOMAIN docs /\ docs[s].hasContent
  BY <1>1 DEF grounded, sourceIds, PagesUsable
<1>4. r # <<>> /\ Last(r).id = g.success.node /\ Last(r).kind = "terminal_outcome"
  BY <1>2, EndIsSound
<1>5. \A k \in DOMAIN r : r[k].needs \subseteq available(g, k) /\ r[k].evidence # {}
  BY <1>2, StepIsSound
<1>6. /\ \A k \in 1..(Len(r) - 1) : joined(g, r[k].id, r[k + 1].id)
      /\ \A e \in ToSet(g.edges) : e.evidence # {}
  BY <1>2, EdgesAreSound
<1> QED BY <1>3, <1>4, <1>5, <1>6 DEF joined

\* ResearchGrounded for any pages and answers: a run pays for three searches
\* and four calls at most and for none in vain, is stopped only in the last of
\* them, and completes only with a draft every part of which cites pages with
\* content and whose route can be followed (runResearchPipeline).
THEOREM ResearchIsGrounded == PipelineSpec => []ResearchGrounded
<1>1. PipelineInit => PipelineInv
  BY PipelineInvInit
<1>2. PipelineInv /\ [PipelineNext]_pipelineVars => PipelineInv'
  BY PipelineInvNext
<1>3. PipelineInv => ResearchGrounded
  <2>1. PipelineInv => PaidWorkBounded
    BY DEF PipelineInv, PaidWorkBounded, Identified, PagesUsable
  <2>2. PipelineInv => OnlyTheLongestRunStops
    BY DEF PipelineInv, OnlyTheLongestRunStops
  <2> QED BY <2>1, <2>2, SoundIsGrounded DEF ResearchGrounded, PipelineInv
<1> QED BY <1>1, <1>2, <1>3, PTL DEF PipelineSpec

------------------------------------------------------------------------------
(* The search for official pages                                           *)

\* The labels of a host end in the labels of a domain it belongs to.
LEMMA SubdomainEnds ==
  ASSUME NEW host, host \in Seq(ToSet(host)), NEW domain, domain \in Seq(ToSet(domain)),
         isDomainOrSubdomain(host, domain)
  PROVE  \E k \in 0..Len(host) : SubSeq(host, k + 1, Len(host)) = domain
<1> DEFINE S == ToSet(host) \cup ToSet(domain)
           n == Len(domain)
           m == Len(host)
<1>1. host \in Seq(S) /\ domain \in Seq(S) /\ n \in Nat /\ m \in Nat
  OBVIOUS
<1>2. /\ Reverse(host) \in Seq(S) /\ Len(Reverse(host)) = m
      /\ \A i \in 1..m : Reverse(host)[i] = host[m - i + 1]
      /\ Reverse(domain) \in Seq(S) /\ Len(Reverse(domain)) = n
      /\ \A i \in 1..n : Reverse(domain)[i] = domain[n - i + 1]
  BY <1>1 DEF Reverse
<1>3. n <= m /\ SubSeq(Reverse(domain), 1, n) = SubSeq(Reverse(host), 1, n)
  BY <1>2 DEF isDomainOrSubdomain, IsSuffix, IsPrefix
<1>4. ASSUME NEW i \in 1..n PROVE Reverse(domain)[i] = Reverse(host)[i]
  <2>1. SubSeq(Reverse(domain), 1, n)[i] = Reverse(domain)[i]
        /\ SubSeq(Reverse(host), 1, n)[i] = Reverse(host)[i]
    BY <1>1, <1>2, <1>3
  <2> QED BY <1>3, <2>1
<1>5. ASSUME NEW j \in 1..n PROVE domain[j] = host[m - n + j]
  <2> DEFINE i == n - j + 1
  <2>1. i \in 1..n /\ i \in 1..m /\ n - i + 1 = j /\ m - i + 1 = m - n + j
    BY <1>1, <1>3
  <2> HIDE DEF i, m, n
  <2> QED BY <1>2, <1>4, <2>1
<1> DEFINE end == SubSeq(host, m - n + 1, m)
<1>6. end \in Seq(S) /\ Len(end) = n /\ \A j \in 1..n : end[j] = host[m - n + j]
  BY <1>1, <1>3
<1>7. end = domain
  BY <1>1, <1>5, <1>6, SeqEqual
<1>8. m - n \in 0..m
  BY <1>1, <1>3
<1> QED BY <1>7, <1>8

\* An element at a place of a list is one of the list.
LEMMA MemberOf ==
  ASSUME NEW T, NEW list \in Seq(T), NEW i \in 1..Len(list)
  PROVE  list[i] \in ToSet(list)
  BY DEF ToSet

\* What the queue holds: first the results that wait, then links; and until the
\* results have had their turn nothing else is a candidate.
QueueOrder(m) ==
  /\ \A i \in 1..m : queue[i] \in ToSet(results)
  /\ \A u \in ToSet(results) \cap official : u \in seen \/ \E i \in 1..m : queue[i] = u
  /\ seen \subseteq ToSet(results) \/ m = 0

\* Every official first step that a page links to waits or was a candidate.
LinksWait ==
  \A k \in DOMAIN pages : \A u \in ToSet(pages[k].links) : u.leads => u \in seen \cup ToSet(queue)

SearchInv ==
  /\ SearchTypeOK
  /\ queue \in Seq(official) /\ seen \subseteq official /\ asked \subseteq official
  /\ pc = "requesting" => current \in official
  /\ pages \in Seq([url : Urls, from : Urls, links : Seq(official), contentPresent : BOOLEAN])
  /\ Len(pages) <= MaxPages
  /\ pc = "requesting" => Len(pages) < MaxPages
  /\ ContentIsFromItsUrl
  /\ pc = "searching" => queue = <<>> /\ results = <<>> /\ seen = {} /\ pages = <<>>
  /\ \E m \in 0..Len(queue) : QueueOrder(m)
  /\ LinksWait
  /\ pc = "done" => ~more

LEMMA SearchInvInit == SearchInit => SearchInv
<1> SUFFICES ASSUME SearchInit PROVE SearchInv
  OBVIOUS
<1>1. /\ pc = "searching" /\ results = <<>> /\ queue = <<>> /\ seen = {}
      /\ current = NoUrl /\ hops = 0 /\ pages = <<>> /\ asked = {}
  BY DEF SearchInit
<1>2. 0 \in 0..Len(queue) /\ QueueOrder(0)
  BY <1>1 DEF QueueOrder, ToSet
<1>3. LinksWait /\ ContentIsFromItsUrl
  BY <1>1 DEF LinksWait, ContentIsFromItsUrl
<1>4. SearchTypeOK
  BY <1>1, SearchLimits DEF SearchTypeOK
<1> QED BY <1>1, <1>2, <1>3, <1>4, SearchLimits DEF SearchInv

\* What the search service finds is filtered, and waits.
LEMMA FindKeeps == ASSUME SearchInv, Find PROVE SearchInv'
<1>1. PICK found \in ResultLists : results' = found /\ queue' = Among(found, official)
  BY DEF Find, filterOfficialDiscoveryResults
<1>2. /\ pc = "searching" /\ pc' = "choosing"
      /\ UNCHANGED <<seen, current, hops, pages, asked>>
      /\ seen = {} /\ pages = <<>>
  BY DEF Find, SearchInv
<1>3. /\ queue' \in Seq(official) /\ ToSet(queue') = ToSet(found) \cap official
  BY <1>1, SearchLists, AmongList
<1>4. queue' \in Seq(Urls)
  BY <1>3, SeqMonotonic DEF official
<1>5. /\ Len(queue') \in 0..Len(queue')
      /\ ToSet(queue') = {queue'[i] : i \in 1..Len(queue')}
  BY <1>3 DEF ToSet
<1>6. \E m \in 0..Len(queue') : QueueOrder(m)'
  <2>1. \A i \in 1..Len(queue') : queue'[i] \in ToSet(results')
    BY <1>1, <1>3, <1>5
  <2>2. \A u \in ToSet(results') \cap official : \E i \in 1..Len(queue') : queue'[i] = u
    BY <1>1, <1>3, <1>5
  <2> QED BY <1>2, <1>5, <2>1, <2>2 DEF QueueOrder
<1>7. LinksWait' /\ ContentIsFromItsUrl'
  BY <1>2 DEF LinksWait, ContentIsFromItsUrl
<1>8. SearchTypeOK'
  BY <1>1, <1>2, <1>4 DEF SearchInv, SearchTypeOK
<1> QED BY <1>2, <1>3, <1>6, <1>7, <1>8 DEF SearchInv

\* A search that is given up, or has come to its end.
LEMMA StopKeeps ==
  ASSUME SearchInv, UNCHANGED <<results, queue, seen, current, hops, pages>>,
         pc' \in {"failed", "done"}, pc' = "done" => ~more,
         asked' \subseteq asked \cup (IF pc = "requesting" THEN {current} ELSE {})
  PROVE  SearchInv'
<1>1. asked' \subseteq official /\ official \subseteq Urls
  BY DEF SearchInv, official
<1>2. /\ LinksWait' <=> LinksWait
      /\ ContentIsFromItsUrl' <=> ContentIsFromItsUrl
      /\ more' <=> more
  BY DEF LinksWait, ContentIsFromItsUrl, more
<1>3. \E m \in 0..Len(queue') : QueueOrder(m)'
  BY DEF SearchInv, QueueOrder
<1>4. SearchTypeOK'
  BY <1>1 DEF SearchInv, SearchTypeOK
<1> QED BY <1>1, <1>2, <1>3, <1>4 DEF SearchInv

\* The next candidate leaves the queue; it was one before, or is one now.
LEMMA ChooseKeeps == ASSUME SearchInv, Choose PROVE SearchInv'
<1>1. /\ pc = "choosing" /\ queue # <<>> /\ Len(pages) < MaxPages
      /\ queue' = Tail(queue) /\ UNCHANGED <<results, pages, asked>>
  BY DEF Choose, more
<1>2. queue \in Seq(official) /\ seen \subseteq official
  BY DEF SearchInv
<1>3. /\ Head(queue) = queue[1] /\ Head(queue) \in official
      /\ queue' \in Seq(official) /\ Len(queue') = Len(queue) - 1 /\ Len(queue) \in Nat
      /\ Len(queue) >= 1
      /\ \A i \in 1..Len(queue') : queue'[i] = queue[i + 1]
  BY <1>1, <1>2, HeadTailProperties
<1>4. /\ seen' = seen \cup {Head(queue)}
      /\ \/ pc' = "requesting" /\ current' = Head(queue) /\ hops' = 0
         \/ UNCHANGED <<pc, current, hops>>
  BY DEF Choose
<1>5. queue' \in Seq(Urls) /\ official \subseteq Urls
  BY <1>3, SeqMonotonic DEF official
<1>6. ToSet(queue) \subseteq ToSet(queue') \cup {Head(queue)}
  <2>1. ASSUME NEW i \in 1..Len(queue)
        PROVE  queue[i] \in ToSet(queue') \cup {Head(queue)}
    <3>1. CASE i = 1
      BY <1>3, <3>1
    <3>2. CASE i # 1
      <4>1. i - 1 \in 1..Len(queue') /\ (i - 1) + 1 = i
        BY <1>3, <3>2
      <4>2. queue'[i - 1] \in ToSet(queue')
        BY <1>3, <4>1, MemberOf
      <4> QED BY <1>3, <4>1, <4>2
    <3> QED BY <3>1, <3>2
  <2> QED BY <1>2, <2>1 DEF ToSet
<1>7. \E m \in 0..Len(queue') : QueueOrder(m)'
  <2>1. PICK m \in 0..Len(queue) : QueueOrder(m)
    BY DEF SearchInv
  <2>2. CASE m = 0
    <3>1. 0 \in 0..Len(queue')
      BY <1>3
    <3>2. \A u \in ToSet(results) \cap official : u \in seen
      BY <2>1, <2>2 DEF QueueOrder
    <3>3. QueueOrder(0)'
      BY <1>1, <1>4, <3>2 DEF QueueOrder
    <3> QED BY <3>1, <3>3
  <2>3. CASE m # 0
    <3>1. m - 1 \in 0..Len(queue') /\ 1 \in 1..m
      BY <1>3, <2>3
    <3>2. \A i \in 1..(m - 1) : i + 1 \in 1..m /\ i \in 1..Len(queue') /\ queue'[i] = queue[i + 1]
      BY <1>3
    <3>3. seen \subseteq ToSet(results) /\ Head(queue) \in ToSet(results)
      BY <1>3, <2>1, <2>3, <3>1 DEF QueueOrder
    <3>4. ASSUME NEW u \in ToSet(results) \cap official
          PROVE  u \in seen' \/ \E i \in 1..(m - 1) : queue'[i] = u
      <4>1. u \in seen \/ \E i \in 1..m : queue[i] = u
        BY <2>1 DEF QueueOrder
      <4>2. ASSUME NEW i \in 1..m, queue[i] = u, i # 1
            PROVE  \E j \in 1..(m - 1) : queue'[j] = u
        <5>1. i - 1 \in 1..(m - 1) /\ (i - 1) + 1 = i
          BY <4>2
        <5> QED BY <3>2, <4>2, <5>1
      <4> QED BY <1>3, <1>4, <4>1, <4>2
    <3>5. QueueOrder(m - 1)'
      <4>1. \A i \in 1..(m - 1) : queue'[i] \in ToSet(results)
        BY <2>1, <3>2 DEF QueueOrder
      <4>2. seen' \subseteq ToSet(results)
        BY <1>4, <3>3
      <4> QED BY <1>1, <3>4, <4>1, <4>2 DEF QueueOrder
    <3> QED BY <3>1, <3>5
  <2> QED BY <2>2, <2>3
<1>8. LinksWait'
  BY <1>1, <1>4, <1>6 DEF SearchInv, LinksWait
<1>9. ContentIsFromItsUrl'
  BY <1>1 DEF SearchInv, ContentIsFromItsUrl
<1>10. SearchTypeOK'
  BY <1>1, <1>3, <1>4, <1>5, SearchLimits DEF SearchInv, SearchTypeOK
<1> QED BY <1>1, <1>3, <1>4, <1>7, <1>8, <1>9, <1>10 DEF SearchInv

\* The links of a page wait behind what waited already.
LEMMA EnqueueKeeps ==
  ASSUME SearchInv, NEW links \in LinkLists, queue' = enqueued(links), UNCHANGED <<results, seen>>
  PROVE  /\ queue' \in Seq(official) /\ ToSet(queue) \subseteq ToSet(queue')
         /\ \A u \in ToSet(Among(links, official)) : u.leads => u \in seen \cup ToSet(queue')
         /\ \E m \in 0..Len(queue') : QueueOrder(m)'
<1> DEFINE good == {u \in official : u.leads /\ u \notin seen}
           fresh == following(links)
<1>1. /\ fresh \in Seq(good) /\ ToSet(fresh) = ToSet(links) \cap good
      /\ ToSet(Among(links, official)) = ToSet(links) \cap official
  BY SearchLists, AmongList DEF following
<1>2. queue \in Seq(official) /\ fresh \in Seq(official)
  BY <1>1, SeqMonotonic DEF SearchInv
<1> HIDE DEF fresh
<1>3. /\ queue' \in Seq(official) /\ Len(queue') = Len(queue) + Len(fresh)
      /\ Len(queue) \in Nat /\ Len(fresh) \in Nat
      /\ \A i \in 1..Len(queue) : queue'[i] = queue[i]
      /\ \A i \in 1..Len(fresh) : queue'[Len(queue) + i] = fresh[i]
  BY <1>2 DEF enqueued, fresh
<1>4. ToSet(queue) \subseteq ToSet(queue')
  <2>1. \A i \in 1..Len(queue) : i \in 1..Len(queue') /\ queue'[i] = queue[i]
    BY <1>3
  <2>2. ToSet(queue) = {queue[i] : i \in 1..Len(queue)}
    BY <1>2 DEF ToSet
  <2>3. \A i \in 1..Len(queue) : queue'[i] \in ToSet(queue')
    BY <1>3, <2>1, MemberOf
  <2> QED BY <2>1, <2>2, <2>3
<1>5. ToSet(fresh) \subseteq ToSet(queue')
  <2>1. \A i \in 1..Len(fresh) :
          Len(queue) + i \in 1..Len(queue') /\ queue'[Len(queue) + i] = fresh[i]
    BY <1>3
  <2>2. ToSet(fresh) = {fresh[i] : i \in 1..Len(fresh)}
    BY <1>2 DEF ToSet
  <2>3. \A i \in 1..Len(fresh) : queue'[Len(queue) + i] \in ToSet(queue')
    BY <1>3, <2>1, MemberOf
  <2> QED BY <2>1, <2>2, <2>3
<1>6. \A u \in ToSet(Among(links, official)) : u.leads => u \in seen \cup ToSet(queue')
  BY <1>1, <1>5
<1>7. \E m \in 0..Len(queue') : QueueOrder(m)'
  <2>1. PICK m \in 0..Len(queue) : QueueOrder(m)
    BY DEF SearchInv
  <2>2. m \in 0..Len(queue') /\ \A i \in 1..m : queue'[i] = queue[i]
    BY <1>3
  <2>3. QueueOrder(m)'
    BY <2>1, <2>2 DEF QueueOrder
  <2> QED BY <2>2, <2>3
<1> QED BY <1>3, <1>4, <1>6, <1>7

\* A page was received.
LEMMA RetrieveKeeps ==
  ASSUME SearchInv, pc = "requesting", asked' = asked \cup {current}, UNCHANGED results,
         NEW url \in Urls, NEW ok \in BOOLEAN, ok => url = current, Retrieve(url, ok)
  PROVE  SearchInv'
<1>1. PICK text \in BOOLEAN, links \in LinkLists :
        /\ pages' = Append(pages, [url |-> url, from |-> current,
                                   links |-> Among(links, official), contentPresent |-> ok /\ text])
        /\ queue' = enqueued(links)
        /\ pc' = "choosing" /\ UNCHANGED <<seen, hops>> /\ current' = NoUrl
  BY DEF Retrieve
<1> DEFINE page == [url |-> url, from |-> current, links |-> Among(links, official),
                    contentPresent |-> ok /\ text]
           Page == [url : Urls, from : Urls, links : Seq(official), contentPresent : BOOLEAN]
<1>2. current \in official /\ official \subseteq Urls
  BY DEF SearchInv, official
<1>3. Among(links, official) \in Seq(official)
  BY SearchLists, AmongList
<1>4. page \in Page
  BY <1>2, <1>3
<1>5. pages \in Seq(Page) /\ Len(pages) < MaxPages
  BY DEF SearchInv
<1>6. page.contentPresent => page.from = page.url
  OBVIOUS
<1>7. page.links = Among(links, official) /\ page.url = url /\ page.contentPresent \in BOOLEAN
  OBVIOUS
<1> HIDE DEF page
<1>8. /\ pages' \in Seq(Page) /\ Len(pages') = Len(pages) + 1 /\ Len(pages) \in Nat
      /\ \A k \in 1..Len(pages) : pages'[k] = pages[k]
      /\ pages'[Len(pages) + 1] = page
  <2>1. pages' = Append(pages, page)
    BY <1>1 DEF page
  <2> HIDE DEF Page
  <2> QED BY <1>4, <1>5, <2>1
<1> HIDE DEF Page
<1>9. /\ DOMAIN pages = 1..Len(pages) /\ DOMAIN pages' = 1..(Len(pages) + 1)
  BY <1>5, <1>8
<1>10. \A k \in DOMAIN pages' :
         \/ k \in DOMAIN pages /\ pages'[k] = pages[k]
         \/ pages'[k] = page
  BY <1>8, <1>9
<1>11. /\ queue' \in Seq(official) /\ ToSet(queue) \subseteq ToSet(queue')
       /\ \A u \in ToSet(page.links) : u.leads => u \in seen \cup ToSet(queue')
       /\ \E m \in 0..Len(queue') : QueueOrder(m)'
  BY <1>1, <1>7, EnqueueKeeps
<1>12. LinksWait'
  BY <1>1, <1>10, <1>11 DEF SearchInv, LinksWait
<1>13. ContentIsFromItsUrl'
  BY <1>6, <1>10 DEF SearchInv, ContentIsFromItsUrl
<1>14. queue' \in Seq(Urls)
  BY <1>2, <1>11, SeqMonotonic
<1>15. \A k \in DOMAIN pages' : pages'[k].url \in Urls /\ pages'[k].contentPresent \in BOOLEAN
  BY <1>7, <1>10 DEF SearchInv, SearchTypeOK
<1>16. SearchTypeOK'
  BY <1>1, <1>2, <1>14, <1>15 DEF SearchInv, SearchTypeOK
<1>17. Len(pages') <= MaxPages
  BY <1>5, <1>8, SearchLimits
<1>18. pages' \in Seq([url : Urls, from : Urls, links : Seq(official), contentPresent : BOOLEAN])
  BY <1>8 DEF Page
<1> QED BY <1>1, <1>2, <1>11, <1>12, <1>13, <1>16, <1>17, <1>18 DEF SearchInv

\* A redirect to another page of the platform is followed; to anyone else it
\* ends the candidate.
LEMMA RedirectKeeps ==
  ASSUME SearchInv, pc = "requesting", asked' = asked \cup {current},
         UNCHANGED <<results, queue, seen, pages>>,
         \/ pc' = "choosing" /\ current' = NoUrl /\ hops' = hops
         \/ pc' = "requesting" /\ current' \in official /\ hops' = hops + 1 /\ hops # MaxRedirects
  PROVE  SearchInv'
<1>1. asked' \subseteq official /\ official \subseteq Urls
  BY DEF SearchInv, official
<1>2. (LinksWait' <=> LinksWait) /\ (ContentIsFromItsUrl' <=> ContentIsFromItsUrl)
  BY DEF LinksWait, ContentIsFromItsUrl
<1>3. \E m \in 0..Len(queue') : QueueOrder(m)'
  BY DEF SearchInv, QueueOrder
<1>4. hops' \in 0..MaxRedirects
  BY SearchLimits DEF SearchInv, SearchTypeOK
<1>5. SearchTypeOK'
  BY <1>1, <1>4 DEF SearchInv, SearchTypeOK
<1> QED BY <1>1, <1>2, <1>3, <1>5 DEF SearchInv

LEMMA RequestKeeps == ASSUME SearchInv, Request PROVE SearchInv'
<1>1. pc = "requesting" /\ asked' = asked \cup {current} /\ UNCHANGED results
  BY DEF Request
<1>2. current \in Urls
  BY <1>1 DEF SearchInv, official
<1>3. CASE \E ok \in BOOLEAN : Retrieve(current, ok)
  BY <1>1, <1>2, <1>3, RetrieveKeeps
<1>4. CASE Redirected
  <2>1. PICK to \in Urls :
          IF ~accepted(to)
          THEN pc' = "choosing" /\ current' = NoUrl /\ UNCHANGED <<queue, seen, hops, pages>>
          ELSE IF hops = MaxRedirects THEN Retrieve(to, FALSE)
          ELSE current' = to /\ hops' = hops + 1 /\ UNCHANGED <<pc, queue, seen, pages>>
    BY <1>4 DEF Redirected
  <2>2. CASE Retrieve(to, FALSE)
    BY <1>1, <2>2, RetrieveKeeps
  <2>3. CASE pc' = "choosing" /\ current' = NoUrl /\ UNCHANGED <<queue, seen, hops, pages>>
    BY <1>1, <2>3, RedirectKeeps
  <2>4. CASE /\ accepted(to) /\ hops # MaxRedirects
             /\ current' = to /\ hops' = hops + 1 /\ UNCHANGED <<pc, queue, seen, pages>>
    <3>1. to \in official
      BY <2>4 DEF official
    <3> QED BY <1>1, <2>4, <3>1, RedirectKeeps
  <2> QED BY <2>1, <2>2, <2>3, <2>4
<1> QED BY <1>3, <1>4 DEF Request, Answered

LEMMA SearchInvNext == ASSUME SearchInv, [SearchNext]_searchVars PROVE SearchInv'
<1>1. CASE Fail
  BY <1>1, StopKeeps DEF Fail
<1>2. CASE End
  BY <1>2, StopKeeps DEF End
<1>3. CASE UNCHANGED searchVars
  <2>1. UNCHANGED <<pc, results, queue, seen, current, hops, pages, asked>>
    BY <1>3 DEF searchVars
  <2>2. /\ LinksWait' <=> LinksWait
        /\ ContentIsFromItsUrl' <=> ContentIsFromItsUrl
        /\ more' <=> more
        /\ \A m : QueueOrder(m)' <=> QueueOrder(m)
    BY <2>1 DEF LinksWait, ContentIsFromItsUrl, more, QueueOrder
  <2> QED BY <2>1, <2>2 DEF SearchInv, SearchTypeOK
<1> QED BY <1>1, <1>2, <1>3, FindKeeps, ChooseKeeps, RequestKeeps DEF SearchNext

\* What was accepted is secure, and belongs to the platform.
LEMMA OfficialIsOwn ==
  ASSUME NEW u \in official
  PROVE  /\ u.secure
         /\ u.host = <<"github", "com">> /\ u.owner # "none" => u.owner \in Organizations
         /\ u.owner = "none" =>
              \E d \in Domains, k \in 0..Len(u.host) : SubSeq(u.host, k + 1, Len(u.host)) = d
<1>1. u \in Urls /\ accepted(u)
  BY DEF official
<1>2. u.secure /\ (u.host = <<"github", "com">> /\ u.owner # "none" => u.owner \in Organizations)
  BY <1>1 DEF accepted, githubOwner
<1>3. ASSUME u.owner = "none"
      PROVE  \E d \in Domains, k \in 0..Len(u.host) : SubSeq(u.host, k + 1, Len(u.host)) = d
  <2>1. PICK d \in Domains : isDomainOrSubdomain(u.host, d)
    BY <1>1, <1>3 DEF accepted, githubOwner
  <2>2. u.host \in Seq(ToSet(u.host)) /\ d \in Seq(ToSet(d))
    BY <1>1, SearchLists
  <2> QED BY <2>1, <2>2, SubdomainEnds
<1> QED BY <1>2, <1>3

\* SearchStaysOfficial for any results, links, redirects and limits: only
\* secure pages of the platform are asked, whatever is taken from a page was
\* served by it, and the search leaves out nothing that it had room for
\* (YouSearchProvider, validateSourceAuthority).
THEOREM SearchIsOfficial == SearchSpec => []SearchStaysOfficial
<1>1. SearchInit => SearchInv
  BY SearchInvInit
<1>2. SearchInv /\ [SearchNext]_searchVars => SearchInv'
  BY SearchInvNext
<1>3. SearchInv => SearchStaysOfficial
  <2> SUFFICES ASSUME SearchInv PROVE SearchStaysOfficial
    OBVIOUS
  <2>1. OnlyOfficialAsked
    BY OfficialIsOwn DEF SearchInv, OnlyOfficialAsked
  <2>2. PICK m \in 0..Len(queue) : QueueOrder(m)
    BY DEF SearchInv
  <2>3. \A k \in DOMAIN results :
          accepted(results[k]) => results[k] \in ToSet(results) \cap official
    BY SearchLists DEF SearchInv, SearchTypeOK, official, ToSet
  <2>4. NothingLeftOut
    <3> SUFFICES ASSUME pc = "done", Len(pages) < MaxPages
        PROVE  /\ \A k \in DOMAIN results : accepted(results[k]) => results[k] \in seen
               /\ \A k \in DOMAIN pages : \A u \in ToSet(pages[k].links) : u.leads => u \in seen
      BY DEF NothingLeftOut
    <3>1. queue = <<>> /\ m = 0 /\ ToSet(queue) = {}
      BY <2>2 DEF SearchInv, more, ToSet
    <3> QED BY <2>2, <2>3, <3>1 DEF SearchInv, QueueOrder, LinksWait
  <2>5. ResultsFirst
    BY <2>2, <2>3 DEF ResultsFirst, QueueOrder
  <2> QED BY <2>1, <2>4, <2>5 DEF SearchInv, SearchStaysOfficial, PagesBounded
<1> QED BY <1>1, <1>2, <1>3, PTL DEF SearchSpec

\* ResearchHolds for any pages, answers, results and limits: both of the above.
THEOREM LiveResearchHolds == LiveSpec => []ResearchHolds
  BY ResearchIsGrounded, SearchIsOfficial, PTL DEF LiveSpec, ResearchHolds

------------------------------------------------------------------------------
(* The laboratory                                                          *)

\* The shapes of a review, a sample and a packet.
Judgement == [by : People \cup {"nobody"}, says : Reasons \cup {"nothing"}]
Sample == [reviewer_a : Judgement, reviewer_b : Judgement, adjudication : Judgement,
           over : SUBSET (Reasons \cup {"nothing"})]

\* A sample that the commands can make: two people labelled it, and the verdict
\* of a third one was given over these two labels.
SampleSound(s) ==
  /\ s \in Sample
  /\ labelled(s) => s.reviewer_a.by # s.reviewer_b.by
  /\ done(s.adjudication) =>
       /\ s.adjudication.by \notin {s.reviewer_a.by, s.reviewer_b.by}
       /\ s.over = outcomes(s) /\ Cardinality(s.over) = 2

Packets == [Samples -> Sample]
PacketSound(p) == p \in Packets /\ \A s \in Samples : SampleSound(p[s])

\* Every packet is sound: the file, its temporary one, and the copies.
FilesSound ==
  /\ PacketSound(packet)
  /\ packetTmp.written => PacketSound(packetTmp.packet)
  /\ at \in [Commands -> {"idle", "changed", "packet written", "packet renamed", "status written"}]
  /\ \A c \in Commands : at[c] # "idle" => PacketSound(copy[c])
  /\ disturbed \in BOOLEAN
  /\ DOMAIN copy = Commands

\* What an undisturbed command finds, step by step.
Orderly(c) ==
  /\ at[c] \in {"changed", "packet written"} => status = statusOf(packet)
  /\ at[c] = "packet written" => packetTmp.written /\ packetTmp.packet = copy[c]
  /\ at[c] \in {"packet renamed", "status written"} => packet = copy[c]
  /\ at[c] = "status written" => statusTmp.written /\ statusTmp.status = statusOf(copy[c])
  /\ at[c] # "idle" => \A d \in Commands \ {c} : at[d] = "idle"

\* The inductive invariant: the files are sound whatever crosses; while nothing
\* does, each command finds what it left.
LabInv ==
  /\ FilesSound
  /\ ~disturbed => \A c \in Commands : Orderly(c)
  /\ StatusFitsPacket

------------------------------------------------------------------------------
(* Packets                                                                 *)

\* A packet that was thrown away has no label and no verdict.
LEMMA InvalidatedSound == PacketSound(invalidated)
  BY DEF PacketSound, Packets, SampleSound, Sample, Judgement, invalidated, unlabelled,
         emptyReview, labelled, done

\* Whoever labels, the label of the other slot is someone else's, and the
\* verdict over the old labels is gone.
LEMMA LabelsSound ==
  ASSUME NEW p, PacketSound(p), NEW q \in labels(p)
  PROVE  PacketSound(q)
<1>1. PICK s \in Samples, slot \in {"reviewer_a", "reviewer_b"} :
        \E says \in Reasons, who \in People \ {p[s][other(slot)].by} :
          q = Labelled(p, s, slot, who, says)
  BY DEF labels
<1>2. PICK says \in Reasons, who \in People \ {p[s][other(slot)].by} :
        q = Labelled(p, s, slot, who, says)
  BY <1>1
<1> DEFINE review == [by |-> who, says |-> says]
<1>3. review \in Judgement /\ emptyReview \in Judgement /\ ~done(emptyReview)
  BY DEF Judgement, emptyReview, done
<1>4. PICK o \in Sample : o = p[s]
  BY DEF PacketSound, Packets
<1>5. CASE slot = "reviewer_a"
  <2> DEFINE o1 == [o EXCEPT !.reviewer_a = review]
             o2 == [o1 EXCEPT !.adjudication = emptyReview]
             o3 == [o2 EXCEPT !.over = {}]
             p1 == [p EXCEPT ![s] = o1]
             p2 == [p1 EXCEPT ![s] = o2]
  <2>1. q = [p EXCEPT ![s] = o3]
    <3>1. q = [p EXCEPT ![s].reviewer_a = review, ![s].adjudication = emptyReview, ![s].over = {}]
      BY <1>2, <1>5 DEF Labelled
    <3>2. [p EXCEPT ![s].reviewer_a = review] = p1 /\ p1[s] = o1 /\ DOMAIN p1 = Samples
      BY <1>1, <1>4 DEF PacketSound, Packets
    <3>3. [p1 EXCEPT ![s].adjudication = emptyReview] = p2 /\ p2[s] = o2 /\ DOMAIN p2 = Samples
      BY <1>1, <3>2 DEF PacketSound, Packets
    <3>4. q = [p2 EXCEPT ![s].over = {}]
      BY <3>1, <3>2, <3>3
    <3> QED BY <1>1, <3>3, <3>4 DEF PacketSound, Packets
  <2>2. who # o.reviewer_b.by
    BY <1>2, <1>4, <1>5 DEF other
  <2>3. /\ o3 \in Sample /\ o3.reviewer_a = review /\ o3.reviewer_b = o.reviewer_b
        /\ o3.adjudication = emptyReview
    BY <1>3, <1>4 DEF Sample
  <2>4. SampleSound(o3)
    BY <1>3, <2>2, <2>3 DEF SampleSound
  <2> HIDE DEF o3
  <2> QED BY <2>1, <2>3, <2>4 DEF PacketSound, Packets
<1>6. CASE slot = "reviewer_b"
  <2> DEFINE o1 == [o EXCEPT !.reviewer_b = review]
             o2 == [o1 EXCEPT !.adjudication = emptyReview]
             o3 == [o2 EXCEPT !.over = {}]
             p1 == [p EXCEPT ![s] = o1]
             p2 == [p1 EXCEPT ![s] = o2]
  <2>1. q = [p EXCEPT ![s] = o3]
    <3>1. q = [p EXCEPT ![s].reviewer_b = review, ![s].adjudication = emptyReview, ![s].over = {}]
      BY <1>2, <1>6 DEF Labelled
    <3>2. [p EXCEPT ![s].reviewer_b = review] = p1 /\ p1[s] = o1 /\ DOMAIN p1 = Samples
      BY <1>1, <1>4 DEF PacketSound, Packets
    <3>3. [p1 EXCEPT ![s].adjudication = emptyReview] = p2 /\ p2[s] = o2 /\ DOMAIN p2 = Samples
      BY <1>1, <3>2 DEF PacketSound, Packets
    <3>4. q = [p2 EXCEPT ![s].over = {}]
      BY <3>1, <3>2, <3>3
    <3> QED BY <1>1, <3>3, <3>4 DEF PacketSound, Packets
  <2>2. who # o.reviewer_a.by
    BY <1>2, <1>4, <1>6 DEF other
  <2>3. /\ o3 \in Sample /\ o3.reviewer_b = review /\ o3.reviewer_a = o.reviewer_a
        /\ o3.adjudication = emptyReview
    BY <1>3, <1>4 DEF Sample
  <2>4. SampleSound(o3)
    BY <1>3, <2>2, <2>3 DEF SampleSound
  <2> HIDE DEF o3
  <2> QED BY <2>1, <2>3, <2>4 DEF PacketSound, Packets
<1> QED BY <1>5, <1>6

\* A verdict is of a third person, over two labels that differ.
LEMMA AdjudicationsSound ==
  ASSUME NEW p, PacketSound(p), NEW q \in adjudications(p)
  PROVE  PacketSound(q)
<1>1. PICK s \in {x \in Samples : labelled(p[x]) /\ Cardinality(outcomes(p[x])) = 2} :
        \E says \in Reasons, who \in People \ {p[s].reviewer_a.by, p[s].reviewer_b.by} :
          q = Adjudicated(p, s, who, says)
  BY DEF adjudications
<1>2. PICK says \in Reasons, who \in People \ {p[s].reviewer_a.by, p[s].reviewer_b.by} :
        q = Adjudicated(p, s, who, says)
  BY <1>1
<1> DEFINE review == [by |-> who, says |-> says]
<1>3. review \in Judgement
  BY DEF Judgement
<1>4. PICK o \in Sample : o = p[s]
  BY <1>1 DEF PacketSound, Packets
<1> DEFINE new == [reviewer_a |-> o.reviewer_a, reviewer_b |-> o.reviewer_b,
                   adjudication |-> review, over |-> outcomes(o)]
<1>5. q = [p EXCEPT ![s] = new]
  BY <1>1, <1>2, <1>4 DEF Adjudicated, PacketSound, Packets, Sample
<1>6. outcomes(o) \in SUBSET (Reasons \cup {"nothing"})
  BY <1>4 DEF outcomes, Sample, Judgement
<1>7. new \in Sample
  BY <1>3, <1>4, <1>6 DEF Sample
<1>8. outcomes(new) = outcomes(o) /\ labelled(new) = labelled(o)
  BY DEF outcomes, labelled
<1>9. SampleSound(o) /\ Cardinality(outcomes(o)) = 2
  BY <1>1, <1>4 DEF PacketSound
<1>10. SampleSound(new)
  BY <1>2, <1>4, <1>7, <1>8, <1>9 DEF SampleSound
<1> HIDE DEF new
<1> QED BY <1>1, <1>5, <1>7, <1>10 DEF PacketSound, Packets

\* The parts of a sound packet are apart, and its verdicts fit.
LEMMA SoundStands == FilesSound => PartsAreSeparate /\ VerdictFitsLabels
  BY DEF FilesSound, PacketSound, SampleSound, PartsAreSeparate, VerdictFitsLabels,
         adjudicationState, labelled

------------------------------------------------------------------------------
(* The steps                                                               *)

\* The laboratory opens with a packet without labels.
LEMMA InitLab == LabInit => LabInv
<1> SUFFICES ASSUME LabInit PROVE LabInv
  OBVIOUS
<1>1. /\ packetTmp.written = FALSE /\ packet = invalidated /\ status = statusOf(packet)
      /\ at = [c \in Commands |-> "idle"] /\ DOMAIN copy = Commands /\ disturbed = FALSE
  BY DEF LabInit, NoFile
<1>2. FilesSound
  BY <1>1, InvalidatedSound DEF FilesSound
<1> QED BY <1>1, <1>2 DEF LabInv, Orderly, StatusFitsPacket

\* Every write and rename of a command keeps the files sound.
LEMMA StepLab ==
  ASSUME LabInv, [LabNext]_labVars
  PROVE  LabInv'
<1>1. ASSUME NEW c \in Commands, BeginCommand(c)
      PROVE  LabInv'
  <2>1. PICK p \in labels(packet) \cup adjudications(packet) \cup {invalidated} :
          copy' = [copy EXCEPT ![c] = p]
    BY <1>1 DEF BeginCommand
  <2>2. PacketSound(p)
    BY <2>1, LabelsSound, AdjudicationsSound, InvalidatedSound DEF LabInv, FilesSound
  <2>3. FilesSound'
    BY <1>1, <2>1, <2>2 DEF BeginCommand, LabInv, FilesSound, PacketSound
  <2>4. ASSUME ~disturbed'
        PROVE  /\ \A d \in Commands : Orderly(d)'
               /\ StatusFitsPacket'
    <3>1. /\ ~disturbed /\ \A d \in Commands : at[d] = "idle"
          /\ status = statusOf(packet)
      BY <1>1, <2>4 DEF BeginCommand, LabInv, FilesSound, StatusFitsPacket
    <3> QED BY <1>1, <3>1 DEF BeginCommand, LabInv, FilesSound, Orderly, StatusFitsPacket,
               statusOf
  <2> QED BY <2>3, <2>4 DEF LabInv, StatusFitsPacket
<1>2. ASSUME NEW c \in Commands, WritePacket(c)
      PROVE  LabInv'
  <2>1. FilesSound'
    BY <1>2 DEF WritePacket, LabInv, FilesSound, PacketSound
  <2>2. ASSUME ~disturbed'
        PROVE  (\A d \in Commands : Orderly(d)') /\ StatusFitsPacket'
    BY <1>2, <2>2 DEF WritePacket, LabInv, FilesSound, Orderly, StatusFitsPacket, statusOf
  <2> QED BY <2>1, <2>2 DEF LabInv, StatusFitsPacket
<1>3. ASSUME NEW c \in Commands, RenamePacket(c)
      PROVE  LabInv'
  <2>1. CASE packetTmp.written
    <3>1. /\ at[c] = "packet written" /\ packet' = packetTmp.packet /\ packetTmp'.written = FALSE
          /\ at' = [at EXCEPT ![c] = "packet renamed"]
          /\ UNCHANGED <<copy, disturbed, status, statusTmp>>
      <4>1. at[c] = "packet written" /\ packet' = packetTmp.packet /\ packetTmp' = NoFile
        BY <1>3, <2>1 DEF RenamePacket
      <4>2. /\ at' = [at EXCEPT ![c] = "packet renamed"]
            /\ UNCHANGED <<copy, disturbed, status, statusTmp>>
        BY <1>3, <2>1 DEF RenamePacket
      <4> QED BY <4>1, <4>2 DEF NoFile
    <3>2. /\ PacketSound(packet') /\ ~packetTmp'.written
          /\ at' \in [Commands -> {"idle", "changed", "packet written", "packet renamed",
                                  "status written"}]
          /\ \A d \in Commands : at'[d] # "idle" => at[d] # "idle"
      BY <2>1, <3>1 DEF LabInv, FilesSound
    <3>a. FilesSound'
      BY <3>1, <3>2 DEF LabInv, FilesSound, PacketSound
    <3>3. ASSUME ~disturbed'
          PROVE  (\A d \in Commands : Orderly(d)') /\ StatusFitsPacket'
      BY <3>1, <3>3 DEF LabInv, FilesSound, Orderly, StatusFitsPacket
    <3> QED BY <3>a, <3>3 DEF LabInv, StatusFitsPacket
  <2>2. CASE ~packetTmp.written
    <3>1. /\ at' = [at EXCEPT ![c] = "idle"] /\ copy' = [copy EXCEPT ![c] = NoFile]
          /\ disturbed' = TRUE /\ UNCHANGED <<packet, packetTmp>>
      BY <1>3, <2>2 DEF RenamePacket
    <3>2. FilesSound'
      BY <3>1 DEF LabInv, FilesSound, PacketSound
    <3> QED BY <3>1, <3>2 DEF LabInv, StatusFitsPacket
  <2> QED BY <2>1, <2>2
<1>4. ASSUME NEW c \in Commands, WriteStatus(c)
      PROVE  LabInv'
  <2>1. FilesSound'
    BY <1>4 DEF WriteStatus, LabInv, FilesSound, PacketSound
  <2>2. ASSUME ~disturbed'
        PROVE  (\A d \in Commands : Orderly(d)') /\ StatusFitsPacket'
    <3>1. /\ at[c] = "packet renamed" /\ at' = [at EXCEPT ![c] = "status written"]
          /\ UNCHANGED <<packet, packetTmp, status, copy, disturbed>>
      BY <1>4 DEF WriteStatus
    <3>2. statusTmp' = [written |-> TRUE, status |-> statusOf(copy[c])]
      BY <1>4 DEF WriteStatus
    <3>3. statusTmp'.written /\ statusTmp'.status = statusOf(copy[c])
      BY <3>2
    <3>4. DOMAIN at = Commands /\ ~disturbed
      BY <2>2, <3>1 DEF LabInv, FilesSound
    <3>5. Orderly(c)'
      BY <3>1, <3>3, <3>4 DEF LabInv, Orderly
    <3>6. \A d \in Commands \ {c} : at'[d] = "idle"
      BY <3>1, <3>4 DEF LabInv, Orderly
    <3> QED BY <3>1, <3>4, <3>5, <3>6 DEF Orderly, StatusFitsPacket
  <2> QED BY <2>1, <2>2 DEF LabInv, StatusFitsPacket
<1>5. ASSUME NEW c \in Commands, RenameStatus(c)
      PROVE  LabInv'
  <2>1. FilesSound'
    BY <1>5 DEF RenameStatus, LabInv, FilesSound, PacketSound
  <2>2. ASSUME ~disturbed'
        PROVE  (\A d \in Commands : Orderly(d)') /\ StatusFitsPacket'
    <3>1. /\ at[c] = "status written" /\ at' = [at EXCEPT ![c] = "idle"]
          /\ UNCHANGED <<packet, packetTmp, disturbed>>
      BY <1>5 DEF RenameStatus
    <3>2. DOMAIN at = Commands /\ ~disturbed /\ Orderly(c)
      BY <2>2, <3>1 DEF LabInv, FilesSound
    <3>3. \A d \in Commands : at'[d] = "idle"
      BY <3>1, <3>2 DEF Orderly
    <3>4. status' = statusTmp.status
      BY <1>5, <3>1, <3>2 DEF RenameStatus, Orderly
    <3>5. status' = statusOf(packet')
      BY <3>1, <3>2, <3>4 DEF Orderly
    <3> QED BY <3>1, <3>3, <3>5 DEF Orderly, StatusFitsPacket
  <2> QED BY <2>1, <2>2 DEF LabInv, StatusFitsPacket
<1>6. ASSUME NEW c \in Commands, Stop(c)
      PROVE  LabInv'
  <2>1. FilesSound'
    BY <1>6 DEF Stop, LabInv, FilesSound, PacketSound
  <2>2. ASSUME ~disturbed'
        PROVE  (\A d \in Commands : Orderly(d)') /\ StatusFitsPacket'
    BY <1>6, <2>2 DEF Stop, LabInv, FilesSound, Orderly, StatusFitsPacket, statusOf
  <2> QED BY <2>1, <2>2 DEF LabInv, StatusFitsPacket
<1>7. CASE UNCHANGED labVars
  BY <1>7 DEF labVars, LabInv, FilesSound, PacketSound, Orderly, StatusFitsPacket, statusOf
<1> QED BY <1>1, <1>2, <1>3, <1>4, <1>5, <1>6, <1>7 DEF LabNext

\* The labelling workflow keeps its invariant, for any commands that overlap
\* and stop, and any packet (scripts/reason-lab.mjs).
THEOREM LabInvariant == LabSpec => []LabInv
<1> QED BY InitLab, StepLab, PTL DEF LabSpec

\* Labels, verdicts and status fit each other, however many commands overlap,
\* stop, relabel and throw away (scripts/reason-lab.mjs).
THEOREM LabStands == LabSpec => []LabelsStand
<1>1. LabInv => LabelsStand
  BY SoundStands DEF LabInv, LabelsStand
<1> QED BY <1>1, LabInvariant, PTL
------------------------------------------------------------------------------
(* Comparison with peers                                                   *)

\* Platforms of which counts and days are numbers, and that reviews keep so.
Recorded(P) ==
  /\ FirstPlatforms \subseteq [Slugs -> P]
  /\ \A p \in P : p.value \in Nat /\ p.basis.day \in Nat /\ ReviewsOf(p) \subseteq P

PeerInv(P) == platforms \in [Slugs -> P] /\ now \in Nat

LEMMA PeerInvInit == ASSUME NEW P, Recorded(P), PeerInit PROVE PeerInv(P)
BY DEF PeerInit, PeerInv, Recorded

LEMMA PeerInvNext ==
  ASSUME NEW P, Recorded(P), PeerInv(P), [PeerNext]_peerVars
  PROVE  PeerInv(P)'
<1>1. CASE Wait
  BY <1>1 DEF Wait, PeerInv
<1>2. ASSUME NEW s \in Slugs, Review(s) PROVE PeerInv(P)'
  <2>1. PICK p \in ReviewsOf(platforms[s]) : platforms' = [platforms EXCEPT ![s] = p]
    BY <1>2 DEF Review
  <2>2. platforms[s] \in P
    BY DEF PeerInv
  <2>3. p \in P
    BY <2>1, <2>2 DEF Recorded
  <2> QED BY <1>2, <2>1, <2>3 DEF Review, PeerInv
<1>3. CASE UNCHANGED peerVars
  BY <1>3 DEF peerVars, PeerInv
<1> QED BY <1>1, <1>2, <1>3 DEF PeerNext

LEMMA UpTo == ASSUME NEW n \in Nat PROVE IsFiniteSet(1..n) /\ Cardinality(1..n) = n
BY FS_Interval

\* The rows are finitely many.
LEMMA SlugsFinite == IsFiniteSet(Slugs) /\ Len(Rows) \in Nat /\ \A n \in 1..Len(Rows) : Rows[n] \in Slugs
<1>1. Rows \in Seq(Slugs)
  BY RowsDistinct DEF Slugs
<1>2. Len(Rows) \in Nat /\ DOMAIN Rows = 1..Len(Rows) /\ \A n \in 1..Len(Rows) : Rows[n] \in Slugs
  BY <1>1
<1>3. IsFiniteSet(1..Len(Rows))
  BY <1>2, FS_Interval
<1>4. Slugs = {Rows[n] : n \in 1..Len(Rows)}
  BY <1>2 DEF Slugs, ToSet
<1>5. Rows \in Surjection(1..Len(Rows), Slugs)
  BY <1>1, <1>2, <1>4 DEF Surjection
<1> QED BY <1>2, <1>3, <1>5, FS_Surjection

\* What the loop of buildPeerComparison makes of the n-th row.
NextPeer(subject, f, n) ==
  IF n = 0 THEN <<>>
  ELSE IF /\ eligiblePeer(subject, Rows[n])
          /\ ~collides(Rows[n], {subject} \cup ToSet(f[n - 1]))
       THEN Append(f[n - 1], Rows[n]) ELSE f[n - 1]

\* f holds the peers found in the first n rows, for n up to m.
Finds(subject, f, m) == f = [n \in 0..m |-> NextPeer(subject, f, n)]

LEMMA LoopDefined ==
  ASSUME NEW subject, NEW m \in Nat
  PROVE  \E f : Finds(subject, f, m)
<1> DEFINE Bad == {k \in Nat : ~ \E f : Finds(subject, f, k)}
<1>1. SUFFICES ASSUME Bad # {} PROVE FALSE
  OBVIOUS
<1>2. PICK k \in Bad : \A i \in Bad : k <= i
  BY <1>1, LeastNumber
<1>3. CASE k = 0
  <2> DEFINE g == [n \in 0..0 |-> <<>>]
  <2>1. \A n \in 0..0 : NextPeer(subject, g, n) = <<>>
    BY DEF NextPeer
  <2>2. Finds(subject, g, 0)
    BY <2>1 DEF Finds
  <2> QED BY <1>2, <1>3, <2>2
<1>4. CASE k # 0
  <2>1. k - 1 \in Nat /\ k - 1 \notin Bad
    BY <1>2, <1>4
  <2>2. PICK f : Finds(subject, f, k - 1)
    BY <2>1
  <2> DEFINE g == [n \in 0..k |-> IF n = k THEN NextPeer(subject, f, k) ELSE f[n]]
  <2>3. ASSUME NEW n \in 0..k PROVE g[n] = NextPeer(subject, g, n)
    <3>1. n = 0 \/ g[n - 1] = f[n - 1]
      BY <1>4, <2>3
    <3> HIDE DEF g
    <3>2. NextPeer(subject, g, n) = NextPeer(subject, f, n)
      BY <3>1, Zenon DEF NextPeer
    <3> USE DEF g
    <3>3. n # k => f[n] = NextPeer(subject, f, n)
      BY <2>2, <2>3 DEF Finds
    <3> QED BY <3>2, <3>3, <2>3
  <2>4. g = [n \in 0..k |-> NextPeer(subject, g, n)]
    BY <2>3
  <2>5. Finds(subject, g, k)
    BY <2>4 DEF Finds
  <2> QED BY <1>2, <2>5
<1> QED BY <1>3, <1>4

\* Two platforms of different organizations, with different documentation.
Apart(s, t) ==
  /\ platforms[s].basis.organizationKey # platforms[t].basis.organizationKey
  /\ platforms[s].basis.documentationSetKey # platforms[t].basis.documentationSetKey

LEMMA CollidesWithOne ==
  ASSUME NEW s, NEW earlier
  PROVE  collides(s, earlier) <=> \E t \in earlier : ~Apart(s, t)
BY DEF collides, Apart

\* The peers chosen of the first n rows: eligible, apart from the subject and
\* from each other, and nobody is left out without a collision.
ChosenWell(subject, chosen, n) ==
  /\ chosen \in Seq(Slugs)
  /\ \A k \in 1..Len(chosen) : eligiblePeer(subject, chosen[k]) /\ Apart(chosen[k], subject)
  /\ \A k, l \in 1..Len(chosen) : k # l => Apart(chosen[k], chosen[l])
  /\ \A k \in 1..n : eligiblePeer(subject, Rows[k]) =>
        \/ Rows[k] \in ToSet(chosen)
        \/ collides(Rows[k], {subject} \cup ToSet(chosen))

LEMMA OneMorePeer ==
  ASSUME NEW subject, NEW n \in 1..Len(Rows), NEW chosen, ChosenWell(subject, chosen, n - 1)
  PROVE  ChosenWell(subject,
                    IF /\ eligiblePeer(subject, Rows[n])
                       /\ ~collides(Rows[n], {subject} \cup ToSet(chosen))
                    THEN Append(chosen, Rows[n]) ELSE chosen, n)
<1> DEFINE s == Rows[n]
           longer == Append(chosen, s)
<1>1. s \in Slugs /\ chosen \in Seq(Slugs) /\ Len(chosen) \in Nat
  BY SlugsFinite DEF ChosenWell
<1>2. \A k \in 1..n : k \in 1..(n - 1) \/ k = n
  BY SlugsFinite
<1>3. CASE eligiblePeer(subject, s) /\ ~collides(s, {subject} \cup ToSet(chosen))
  <2>1. /\ longer \in Seq(Slugs) /\ Len(longer) = Len(chosen) + 1
        /\ \A k \in 1..Len(chosen) : longer[k] = chosen[k]
        /\ longer[Len(chosen) + 1] = s
        /\ \A k \in 1..Len(longer) : k \in 1..Len(chosen) \/ k = Len(chosen) + 1
    BY <1>1
  <2>2. ToSet(chosen) = {chosen[k] : k \in 1..Len(chosen)}
        /\ ToSet(longer) = {longer[k] : k \in 1..Len(longer)}
    BY <1>1, <2>1 DEF ToSet
  <2>3. ToSet(chosen) \subseteq ToSet(longer) /\ s \in ToSet(longer)
    <3>1. \A k \in 1..Len(chosen) : k \in 1..Len(longer)
      BY <1>1, <2>1
    <3>2. Len(chosen) + 1 \in 1..Len(longer)
      BY <1>1, <2>1
    <3> HIDE DEF longer, s
    <3> QED BY <2>1, <2>2, <3>1, <3>2
  <2>4. Apart(s, subject) /\ \A k \in 1..Len(chosen) : Apart(s, chosen[k]) /\ Apart(chosen[k], s)
    <3>1. \A t \in {subject} \cup ToSet(chosen) : Apart(s, t)
      BY <1>3, CollidesWithOne
    <3>2. \A k \in 1..Len(chosen) : chosen[k] \in ToSet(chosen)
      BY <2>2
    <3>3. \A t : Apart(s, t) => Apart(t, s)
      BY DEF Apart
    <3> QED BY <3>1, <3>2, <3>3
  <2> HIDE DEF longer, s
  <2>5. \A k \in 1..Len(longer) : eligiblePeer(subject, longer[k]) /\ Apart(longer[k], subject)
    BY <1>3, <2>1, <2>4 DEF ChosenWell
  <2>6. \A k, l \in 1..Len(longer) : k # l => Apart(longer[k], longer[l])
    BY <2>1, <2>4 DEF ChosenWell
  <2>7. ASSUME NEW k \in 1..n, eligiblePeer(subject, Rows[k])
        PROVE  Rows[k] \in ToSet(longer) \/ collides(Rows[k], {subject} \cup ToSet(longer))
    <3>1. CASE k = n
      BY <2>3, <3>1 DEF s
    <3>2. CASE k # n
      BY <1>2, <2>3, <2>7, <3>2, CollidesWithOne DEF ChosenWell
    <3> QED BY <3>1, <3>2
  <2>8. ChosenWell(subject, longer, n)
    BY <2>1, <2>5, <2>6, <2>7 DEF ChosenWell
  <2> QED BY <1>3, <2>8 DEF longer, s
<1>4. CASE ~(eligiblePeer(subject, s) /\ ~collides(s, {subject} \cup ToSet(chosen)))
  <2>1. ASSUME NEW k \in 1..n, eligiblePeer(subject, Rows[k])
        PROVE  Rows[k] \in ToSet(chosen) \/ collides(Rows[k], {subject} \cup ToSet(chosen))
    BY <1>2, <1>4, <2>1 DEF ChosenWell
  <2>2. ChosenWell(subject, chosen, n)
    BY <2>1 DEF ChosenWell
  <2> QED BY <1>4, <2>2
<1> QED BY <1>3, <1>4

LEMMA PeersChosenWell ==
  ASSUME NEW subject
  PROVE  ChosenWell(subject, peers(subject), Len(Rows))
<1> DEFINE f == CHOOSE f : Finds(subject, f, Len(Rows))
<1>1. Finds(subject, f, Len(Rows))
  BY LoopDefined, SlugsFinite
<1>2. peers(subject) = f[Len(Rows)]
  BY DEF peers, Finds, NextPeer
<1> HIDE DEF f
<1> DEFINE Bad == {n \in 0..Len(Rows) : ~ ChosenWell(subject, f[n], n)}
<1>3. Bad = {}
  <2>1. SUFFICES ASSUME Bad # {} PROVE FALSE
    OBVIOUS
  <2>2. PICK n \in Bad : \A i \in Bad : n <= i
    <3>1. Bad \in SUBSET Nat
      BY SlugsFinite
    <3> QED BY <2>1, <3>1, LeastNumber
  <2>3. f[n] = NextPeer(subject, f, n)
    BY <1>1, <2>2 DEF Finds
  <2>4. CASE n = 0
    <3>1. f[n] = <<>>
      BY <2>3, <2>4 DEF NextPeer
    <3>2. ChosenWell(subject, <<>>, 0)
      BY DEF ChosenWell
    <3> QED BY <2>2, <2>4, <3>1, <3>2
  <2>5. CASE n # 0
    <3>1. n \in 1..Len(Rows) /\ n - 1 \in 0..Len(Rows) /\ n - 1 \notin Bad
      BY <2>2, <2>5, SlugsFinite
    <3>2. ChosenWell(subject, f[n - 1], n - 1)
      BY <3>1
    <3>3. f[n] = IF eligiblePeer(subject, Rows[n]) /\ ~collides(Rows[n], {subject} \cup ToSet(f[n - 1]))
                 THEN Append(f[n - 1], Rows[n]) ELSE f[n - 1]
      BY <2>3, <2>5 DEF NextPeer
    <3>4. ChosenWell(subject, f[n], n)
      BY <3>1, <3>2, <3>3, OneMorePeer
    <3> QED BY <2>2, <3>4
  <2> QED BY <2>4, <2>5
<1> QED BY <1>2, <1>3, SlugsFinite

\* What is known of the peers of a platform, whatever the rows are.
LEMMA PeersOf ==
  ASSUME NEW subject
  PROVE  LET c == peers(subject)
         IN  /\ c \in Seq(Slugs) /\ Len(c) \in Nat /\ DOMAIN c = 1..Len(c)
             /\ ToSet(c) = {c[k] : k \in 1..Len(c)}
             /\ \A t \in ToSet(c) : t \in Slugs /\ eligiblePeer(subject, t) /\ Apart(t, subject)
             /\ \A k, l \in 1..Len(c) : k # l => Apart(c[k], c[l]) /\ c[k] # c[l]
             /\ \A t \in Slugs : eligiblePeer(subject, t) =>
                    t \in ToSet(c) \/ collides(t, {subject} \cup ToSet(c))
<1> DEFINE c == peers(subject)
<1>1. ChosenWell(subject, c, Len(Rows))
  BY PeersChosenWell
<1> HIDE DEF c
<1>2. c \in Seq(Slugs) /\ Len(c) \in Nat /\ DOMAIN c = 1..Len(c)
  BY <1>1 DEF ChosenWell
<1>3. ToSet(c) = {c[k] : k \in 1..Len(c)}
  BY <1>2 DEF ToSet
<1>4. \A t \in ToSet(c) : t \in Slugs /\ eligiblePeer(subject, t) /\ Apart(t, subject)
  BY <1>1, <1>2, <1>3 DEF ChosenWell
<1>5. \A k, l \in 1..Len(c) : k # l => Apart(c[k], c[l]) /\ c[k] # c[l]
  BY <1>1 DEF ChosenWell, Apart
<1>6. \A t \in Slugs : \E k \in 1..Len(Rows) : t = Rows[k]
  BY RowsDistinct DEF Slugs, ToSet
<1>7. \A t \in Slugs : eligiblePeer(subject, t) =>
        t \in ToSet(c) \/ collides(t, {subject} \cup ToSet(c))
  BY <1>1, <1>6 DEF ChosenWell
<1> QED BY <1>2, <1>3, <1>4, <1>5, <1>7 DEF c

\* As many peers as there are rows in their list.
LEMMA PeersCounted ==
  ASSUME NEW subject
  PROVE  /\ IsFiniteSet(ToSet(peers(subject)))
         /\ Cardinality(ToSet(peers(subject))) = Len(peers(subject))
<1> DEFINE c == peers(subject)
<1>1. /\ c \in Seq(Slugs) /\ Len(c) \in Nat /\ DOMAIN c = 1..Len(c)
      /\ ToSet(c) = {c[k] : k \in 1..Len(c)}
      /\ \A k, l \in 1..Len(c) : k # l => c[k] # c[l]
  BY PeersOf
<1> HIDE DEF c
<1>2. c \in [1..Len(c) -> ToSet(c)]
  BY <1>1
<1>3. c \in Bijection(1..Len(c), ToSet(c))
  BY <1>1, <1>2 DEF Bijection, Injection, Surjection, IsInjective
<1>4. IsFiniteSet(1..Len(c)) /\ Cardinality(1..Len(c)) = Len(c)
  BY <1>1, UpTo
<1>5. ExistsBijection(1..Len(c), ToSet(c))
  BY <1>3 DEF ExistsBijection
<1>6. IsFiniteSet(ToSet(c)) /\ Cardinality(ToSet(c)) = Len(c)
  BY <1>4, <1>5, FS_Bijection
<1> QED BY <1>6 DEF c

LEMMA CriteriaAreMet == ASSUME NEW P, Recorded(P), PeerInv(P) PROVE CriteriaHold
<1> SUFFICES ASSUME NEW subject \in Slugs, comparable(subject)
    PROVE LET all == {subject} \cup ToSet(peers(subject))
          IN  /\ Cardinality(all) > MIN_QUALIFIED_PEERS
              /\ \A s \in all : /\ platforms[s].published /\ platforms[s].valid
                                /\ now - 2 * platforms[s].basis.day \in 0..(2 * ComparisonDays)
              /\ \A s, t \in all : s # t =>
                   /\ platforms[s].basis.key = platforms[t].basis.key
                   /\ platforms[s].organization # platforms[t].organization
                   /\ platforms[s].basis.documentationSetKey # platforms[t].basis.documentationSetKey
  BY DEF CriteriaHold
<1> DEFINE c == peers(subject)
           all == {subject} \cup ToSet(c)
<1>1. /\ \A t \in ToSet(c) : t \in Slugs /\ eligiblePeer(subject, t) /\ Apart(t, subject)
      /\ \A k, l \in 1..Len(c) : k # l => Apart(c[k], c[l])
      /\ ToSet(c) = {c[k] : k \in 1..Len(c)}
  BY PeersOf
<1>2. /\ IsFiniteSet(ToSet(c)) /\ Cardinality(ToSet(c)) = Len(c)
      /\ Len(c) \in Nat /\ Len(c) >= MIN_QUALIFIED_PEERS /\ qualified(subject)
  BY PeersCounted, PeersOf DEF comparable
<1> HIDE DEF c
<1>3. subject \notin ToSet(c)
  BY <1>1 DEF eligiblePeer
<1>4. Cardinality(all) > MIN_QUALIFIED_PEERS
  <2>1. Cardinality(ToSet(c) \cup {subject}) = Len(c) + 1
    BY <1>2, <1>3, FS_AddElement
  <2>2. all = ToSet(c) \cup {subject}
    OBVIOUS
  <2>3. Cardinality(all) = Len(c) + 1
    BY <2>1, <2>2, Zenon
  <2> HIDE DEF all
  <2> QED BY <1>2, <2>3, PeerLimits
<1>5. \A s \in all : s \in Slugs /\ qualified(s) /\ compatible(subject, s)
  BY <1>1, <1>2 DEF eligiblePeer, compatible
<1>6. ASSUME NEW s \in all, NEW t \in all, s # t PROVE Apart(s, t)
  <2>1. \A x, y : Apart(x, y) => Apart(y, x)
    BY DEF Apart
  <2>2. CASE s \in ToSet(c) /\ t \in ToSet(c)
    <3>1. PICK k \in 1..Len(c), l \in 1..Len(c) : s = c[k] /\ t = c[l]
      BY <1>1, <2>2
    <3> QED BY <1>1, <1>6, <3>1
  <2>3. CASE s = subject
    BY <1>1, <1>6, <2>1, <2>3
  <2>4. CASE t = subject
    BY <1>1, <1>6, <2>4
  <2> QED BY <1>6, <2>2, <2>3, <2>4
<1>7. ASSUME NEW s \in all
      PROVE  /\ platforms[s].published /\ platforms[s].valid
             /\ now - 2 * platforms[s].basis.day \in 0..(2 * ComparisonDays)
             /\ platforms[s].basis.organizationKey = Lowered[platforms[s].organization]
  <2>1. platforms[s].basis.day \in Nat /\ now \in Nat /\ ComparisonDays \in Nat
    BY <1>5, PeerLimits DEF PeerInv, Recorded
  <2>2. platforms[s].published /\ platforms[s].valid /\ validBasis(platforms[s])
    BY <1>5 DEF qualified
  <2>3. 2 * platforms[s].basis.day <= now
        /\ now <= 2 * platforms[s].basis.day + 2 * ComparisonDays
    BY <2>2 DEF validBasis, validFreshnessDate
  <2>4. now - 2 * platforms[s].basis.day \in 0..(2 * ComparisonDays)
    BY <2>1, <2>3
  <2> QED BY <2>2, <2>4 DEF validBasis
<1>8. ASSUME NEW s \in all, NEW t \in all, s # t
      PROVE  /\ platforms[s].basis.key = platforms[t].basis.key
             /\ platforms[s].organization # platforms[t].organization
             /\ platforms[s].basis.documentationSetKey # platforms[t].basis.documentationSetKey
  BY <1>5, <1>6, <1>7, <1>8 DEF compatible, Apart
<1> QED BY <1>4, <1>7, <1>8 DEF c

LEMMA NobodyIsLeftOut == LeftOutCollides
<1> SUFFICES ASSUME NEW subject \in Slugs, NEW s \in Slugs \ ({subject} \cup ToSet(peers(subject))),
                    eligiblePeer(subject, s)
    PROVE collides(s, {subject} \cup ToSet(peers(subject)))
  BY DEF LeftOutCollides
<1> QED BY PeersOf

LEMMA CohortsAreCompared == CertifiedIsCompared
<1> SUFFICES
      ASSUME cohortQualified, NEW s \in Participants,
             \A t \in Participants :
               LET p == platforms[t]
               IN  /\ Normalized[p.organization] = Lowered[p.organization]
                   /\ p.valid /\ p.basis.complete /\ p.basis.classAgrees
                   /\ validFreshnessDate(p.basis.day)
                   /\ \A u \in Slugs : eligiblePeer(t, u) =>
                        p.basis.documentationSetKey # platforms[u].basis.documentationSetKey
      PROVE  comparable(s)
  BY DEF CertifiedIsCompared
<1> DEFINE c == peers(s)
           others == Participants \ {s}
           key(t) == platforms[t].basis.organizationKey
<1>1. ASSUME NEW t \in Participants
      PROVE  t \in Slugs /\ qualified(t) /\ key(t) = Normalized[platforms[t].organization]
             /\ platforms[t].basis.key = CohortKey
  BY RowsDistinct DEF Slugs, cohortQualified, comparisonQualified, qualified, validBasis
<1>2. /\ c \in Seq(Slugs) /\ Len(c) \in Nat
      /\ ToSet(c) = {c[k] : k \in 1..Len(c)}
      /\ \A u \in ToSet(c) : u \in Slugs /\ eligiblePeer(s, u)
      /\ \A u \in Slugs : eligiblePeer(s, u) => u \in ToSet(c) \/ collides(u, {s} \cup ToSet(c))
  BY PeersOf
<1> HIDE DEF c
<1>3. ASSUME NEW t \in others PROVE \E k \in 1..Len(c) : key(c[k]) = key(t)
  <2>1. eligiblePeer(s, t) /\ eligiblePeer(t, s)
    BY <1>1 DEF eligiblePeer, compatible
  <2>2. CASE t \in ToSet(c)
    BY <1>2, <2>2
  <2>3. CASE t \notin ToSet(c)
    <3>1. PICK u \in {s} \cup ToSet(c) : ~Apart(t, u)
      BY <1>1, <1>2, <2>1, <2>3, CollidesWithOne
    <3>2. u # s
      <4>1. key(t) # key(s)
        BY <1>1 DEF cohortQualified
      <4>2. platforms[t].basis.documentationSetKey # platforms[s].basis.documentationSetKey
        BY <1>1, <2>1
      <4> QED BY <3>1, <4>1, <4>2 DEF Apart
    <3>3. u \in ToSet(c) /\ u \in Slugs /\ eligiblePeer(s, u)
      BY <1>2, <3>1, <3>2
    <3>4. eligiblePeer(t, u)
      BY <2>1, <2>3, <3>3 DEF eligiblePeer, compatible
    <3>5. platforms[t].basis.documentationSetKey # platforms[u].basis.documentationSetKey
      BY <3>3, <3>4
    <3>6. key(u) = key(t)
      BY <3>1, <3>5 DEF Apart
    <3> QED BY <1>2, <3>3, <3>6
  <2> QED BY <2>2, <2>3
<1>4. IsFiniteSet(Participants) /\ Cardinality(Participants) >= 4 /\ Cardinality(Participants) \in Nat
  <2>1. Participants \in SUBSET Slugs
    BY RowsDistinct DEF Slugs
  <2>2. IsFiniteSet(Participants)
    BY <2>1, SlugsFinite, FS_Subset
  <2> QED BY <2>2, FS_CardinalityType DEF cohortQualified
<1>5. IsFiniteSet(others) /\ Cardinality(others) >= 3
  <2>1. IsFiniteSet(others)
        /\ Cardinality(others) = IF s \in Participants THEN Cardinality(Participants) - 1
                                 ELSE Cardinality(Participants)
    BY <1>4, FS_RemoveElement, Zenon
  <2> HIDE DEF others
  <2> QED BY <1>4, <2>1
<1> DEFINE f == [t \in others |-> CHOOSE k \in 1..Len(c) : key(c[k]) = key(t)]
<1>6. \A t \in others : f[t] \in 1..Len(c) /\ key(c[f[t]]) = key(t)
  BY <1>3
<1>7. f \in Injection(others, 1..Len(c))
  <2>1. f \in [others -> 1..Len(c)]
    BY <1>6
  <2>2. DOMAIN f = others
    OBVIOUS
  <2> HIDE DEF f, key
  <2>3. ASSUME NEW t \in others, NEW u \in others, f[t] = f[u] PROVE t = u
    <3>1. key(t) = key(u)
      BY <1>6, <2>3, Zenon
    <3>2. Normalized[platforms[t].organization] = Normalized[platforms[u].organization]
      BY <1>1, <3>1 DEF key
    <3> QED BY <3>2 DEF cohortQualified
  <2> QED BY <2>1, <2>2, <2>3 DEF Injection, IsInjective
<1> HIDE DEF f
<1>8. Cardinality(others) <= Len(c)
  <2>1. Len(c) \in Nat
    BY <1>2
  <2>2. IsFiniteSet(1..Len(c)) /\ Cardinality(1..Len(c)) = Len(c)
    BY <2>1, UpTo
  <2> QED BY <1>7, <2>2, FS_Injection
<1>9. Len(c) >= MIN_QUALIFIED_PEERS
  <2>1. Cardinality(others) \in Nat
    BY <1>5, FS_CardinalityType
  <2> QED BY <1>2, <1>5, <1>8, <2>1, PeerLimits
<1> QED BY <1>1, <1>9 DEF comparable, c

------------------------------------------------------------------------------
\* The places of a list with a value up to v, and below v.
UpToValue(values, v) == {i \in DOMAIN values : values[i] <= v}
Below(values, v) == {i \in DOMAIN values : values[i] < v}

LEMMA PlacesCounted ==
  ASSUME NEW values \in Seq(Nat), NEW S \in SUBSET DOMAIN values
  PROVE  /\ IsFiniteSet(S) /\ Cardinality(S) \in Nat
         /\ \A T \in SUBSET S : Cardinality(T) <= Cardinality(S)
         /\ Cardinality((DOMAIN values) \ S) = Len(values) - Cardinality(S)
<1>1. DOMAIN values = 1..Len(values) /\ Len(values) \in Nat
  OBVIOUS
<1>2. IsFiniteSet(DOMAIN values) /\ Cardinality(DOMAIN values) = Len(values)
  BY <1>1, UpTo
<1>3. IsFiniteSet(S) /\ Cardinality(S) \in Nat
  BY <1>2, FS_Subset, FS_CardinalityType
<1>4. \A T \in SUBSET S : Cardinality(T) <= Cardinality(S)
  BY <1>3, FS_Subset
<1>5. (DOMAIN values) \cap S = S
  OBVIOUS
<1>6. Cardinality((DOMAIN values) \ S) = Cardinality(DOMAIN values) - Cardinality((DOMAIN values) \cap S)
  BY <1>2, FS_Difference
<1>7. Cardinality((DOMAIN values) \cap S) = Cardinality(S)
  BY <1>5, Zenon
<1> QED BY <1>2, <1>3, <1>4, <1>6, <1>7

\* A list of natural numbers is bounded.
BoundedTo(values, n) == \E m \in Nat : \A i \in 1..n : values[i] <= m

LEMMA OneMoreBounded ==
  ASSUME NEW values \in Seq(Nat), NEW n \in 1..Len(values), BoundedTo(values, n - 1)
  PROVE  BoundedTo(values, n)
<1>1. PICK m \in Nat : \A i \in 1..(n - 1) : values[i] <= m
  BY DEF BoundedTo
<1>2. n \in Nat /\ values[n] \in Nat /\ \A i \in 1..n : values[i] \in Nat
  OBVIOUS
<1>3. m + values[n] \in Nat /\ \A i \in 1..n : i \in 1..(n - 1) \/ i = n
  BY <1>2
<1>4. \A i \in 1..n : values[i] <= m + values[n]
  BY <1>1, <1>2, <1>3
<1> QED BY <1>3, <1>4 DEF BoundedTo

LEMMA ListBounded ==
  ASSUME NEW values \in Seq(Nat)
  PROVE  BoundedTo(values, Len(values))
<1> DEFINE Bad == {n \in 0..Len(values) : ~BoundedTo(values, n)}
<1>1. Len(values) \in Nat
  OBVIOUS
<1>2. BoundedTo(values, 0)
  <2>1. \A i \in 1..0 : values[i] <= 0
    OBVIOUS
  <2> QED BY <2>1 DEF BoundedTo
<1>3. SUFFICES ASSUME Bad # {} PROVE FALSE
  BY <1>1
<1>4. PICK n \in Bad : \A k \in Bad : n <= k
  <2>1. Bad \in SUBSET Nat
    BY <1>1
  <2> QED BY <1>3, <2>1, LeastNumber
<1>5. n \in 1..Len(values)
  BY <1>1, <1>2, <1>4
<1>6. n - 1 \in 0..Len(values) /\ n - 1 \notin Bad
  BY <1>1, <1>4, <1>5
<1> QED BY <1>4, <1>5, <1>6, OneMoreBounded

\* The k-th of a list of numbers: fewer than k are below it, k are up to it.
LEMMA KthValue ==
  ASSUME NEW values \in Seq(Nat), NEW k \in 1..Len(values)
  PROVE  /\ ascending(values, k) \in Nat
         /\ Cardinality(Below(values, ascending(values, k))) < k
         /\ Cardinality(UpToValue(values, ascending(values, k))) >= k
<1> DEFINE T == {v \in Nat : Cardinality(UpToValue(values, v)) >= k}
<1>1. DOMAIN values = 1..Len(values) /\ Len(values) \in Nat /\ \A i \in DOMAIN values : values[i] \in Nat
  OBVIOUS
<1>2. T # {}
  <2>1. PICK m \in Nat : \A i \in 1..Len(values) : values[i] <= m
    BY ListBounded DEF BoundedTo
  <2>2. UpToValue(values, m) = 1..Len(values)
    BY <1>1, <2>1 DEF UpToValue
  <2>3. Cardinality(1..Len(values)) = Len(values)
    BY <1>1, UpTo
  <2>4. Cardinality(UpToValue(values, m)) = Len(values)
    BY <2>2, <2>3, Zenon
  <2>5. Cardinality(UpToValue(values, m)) >= k
    BY <1>1, <2>4
  <2> QED BY <2>5
<1>3. PICK v \in T : \A w \in T : v <= w
  BY <1>2, LeastNumber
<1>4. ASSUME NEW w PROVE UpToValue(values, w) \subseteq DOMAIN values /\ Below(values, w) \subseteq DOMAIN values
  BY DEF UpToValue, Below
<1>5. Cardinality({}) = 0
  BY FS_EmptySet
<1>6. Cardinality(Below(values, v)) < k
  <2>1. CASE v = 0
    <3>1. Below(values, v) = {}
      BY <1>1, <2>1 DEF Below
    <3>2. Cardinality(Below(values, v)) = 0
      BY <1>5, <3>1, Zenon
    <3> QED BY <3>2
  <2>2. CASE v # 0
    <3>1. v - 1 \in Nat /\ v - 1 \notin T
      BY <1>3, <2>2
    <3>2. Below(values, v) = UpToValue(values, v - 1)
      <4>1. \A i \in DOMAIN values : values[i] < v <=> values[i] <= v - 1
        BY <1>1, <1>3
      <4> QED BY <4>1 DEF Below, UpToValue
    <3>3. Cardinality(UpToValue(values, v - 1)) \in Nat
      BY <1>4, PlacesCounted
    <3>4. Cardinality(UpToValue(values, v - 1)) < k
      BY <3>1, <3>3
    <3> QED BY <3>2, <3>4
  <2> QED BY <2>1, <2>2
<1>7. v \in ToSet(values)
  <2>1. SUFFICES ASSUME v \notin ToSet(values) PROVE FALSE
    OBVIOUS
  <2>2. Below(values, v) = UpToValue(values, v)
    <3>1. \A i \in DOMAIN values : values[i] # v
      BY <2>1 DEF ToSet
    <3>2. \A i \in DOMAIN values : values[i] < v <=> values[i] <= v
      BY <1>1, <1>3, <3>1
    <3> QED BY <3>2 DEF Below, UpToValue
  <2>3. Cardinality(Below(values, v)) \in Nat
    BY <1>4, PlacesCounted
  <2>4. Cardinality(UpToValue(values, v)) >= k
    BY <1>3
  <2>5. Cardinality(UpToValue(values, v)) = Cardinality(Below(values, v))
    BY <2>2, Zenon
  <2> QED BY <1>6, <2>3, <2>4, <2>5
<1>8. Cardinality(UpToValue(values, v)) >= k
  BY <1>3
<1>9. /\ ascending(values, k) \in ToSet(values)
      /\ Cardinality(Below(values, ascending(values, k))) < k
      /\ Cardinality(UpToValue(values, ascending(values, k))) >= k
  <2> DEFINE Q(w) == Cardinality(Below(values, w)) < k /\ Cardinality(UpToValue(values, w)) >= k
  <2>1. ascending(values, k) = CHOOSE w \in ToSet(values) : Q(w)
    BY DEF ascending, Below, UpToValue
  <2>2. \E w \in ToSet(values) : Q(w)
    BY <1>6, <1>7, <1>8
  <2> HIDE DEF Q
  <2>3. ascending(values, k) \in ToSet(values) /\ Q(ascending(values, k))
    BY <2>1, <2>2
  <2> QED BY <2>3 DEF Q
<1>10. ToSet(values) \subseteq Nat
  BY <1>1 DEF ToSet
<1> QED BY <1>9, <1>10

\* Where the k-th value lies, so lie the values counted from it.
LEMMA CountsAround ==
  ASSUME NEW values \in Seq(Nat), NEW k \in 1..Len(values), NEW own \in Nat
  PROVE  LET v == ascending(values, k)
             lower == Cardinality(Below(values, own))
             higher == Cardinality({i \in DOMAIN values : values[i] > own})
         IN  /\ lower \in Nat /\ higher \in Nat /\ v \in Nat
             /\ v < own => lower >= k
             /\ own <= v => lower < k
             /\ own < v => higher > Len(values) - k
             /\ v <= own => higher <= Len(values) - k
<1> DEFINE v == ascending(values, k)
           over == {i \in DOMAIN values : values[i] > own}
<1>1. DOMAIN values = 1..Len(values) /\ Len(values) \in Nat /\ \A i \in DOMAIN values : values[i] \in Nat
  OBVIOUS
<1>2. /\ v \in Nat /\ Cardinality(Below(values, v)) < k
      /\ Cardinality(UpToValue(values, v)) >= k
  BY KthValue
<1> HIDE DEF v
<1>3. ASSUME NEW w
      PROVE  /\ UpToValue(values, w) \in SUBSET DOMAIN values
             /\ Below(values, w) \in SUBSET DOMAIN values
             /\ Cardinality(UpToValue(values, w)) \in Nat
             /\ Cardinality(Below(values, w)) \in Nat
  <2>1. UpToValue(values, w) \in SUBSET DOMAIN values /\ Below(values, w) \in SUBSET DOMAIN values
    BY DEF UpToValue, Below
  <2> QED BY <2>1, PlacesCounted
<1>4. Cardinality(over) = Len(values) - Cardinality(UpToValue(values, own))
  <2>1. over = (DOMAIN values) \ UpToValue(values, own)
    BY <1>1 DEF UpToValue
  <2>2. Cardinality((DOMAIN values) \ UpToValue(values, own)) = Len(values) - Cardinality(UpToValue(values, own))
    BY <1>3, PlacesCounted
  <2> HIDE DEF over
  <2> QED BY <2>1, <2>2
<1>5. Cardinality(over) \in Nat
  <2>1. over \in SUBSET DOMAIN values
    OBVIOUS
  <2> QED BY <2>1, PlacesCounted
<1> HIDE DEF over
<1>6. ASSUME v < own PROVE Cardinality(Below(values, own)) >= k
  <2>1. UpToValue(values, v) \in SUBSET Below(values, own)
    BY <1>1, <1>2, <1>6 DEF UpToValue, Below
  <2>2. Cardinality(UpToValue(values, v)) <= Cardinality(Below(values, own))
    BY <1>3, <2>1, PlacesCounted
  <2> QED BY <1>2, <1>3, <2>2
<1>7. ASSUME own <= v PROVE Cardinality(Below(values, own)) < k
  <2>1. Below(values, own) \in SUBSET Below(values, v)
    BY <1>1, <1>2, <1>7 DEF Below
  <2>2. Cardinality(Below(values, own)) <= Cardinality(Below(values, v))
    BY <1>3, <2>1, PlacesCounted
  <2> QED BY <1>2, <1>3, <2>2
<1>8. ASSUME own < v PROVE Cardinality(over) > Len(values) - k
  <2>1. UpToValue(values, own) \in SUBSET Below(values, v)
    BY <1>1, <1>2, <1>8 DEF UpToValue, Below
  <2>2. Cardinality(UpToValue(values, own)) <= Cardinality(Below(values, v))
    BY <1>3, <2>1, PlacesCounted
  <2> QED BY <1>1, <1>2, <1>3, <1>4, <2>2
<1>9. ASSUME v <= own PROVE Cardinality(over) <= Len(values) - k
  <2>1. UpToValue(values, v) \in SUBSET UpToValue(values, own)
    BY <1>1, <1>2, <1>9 DEF UpToValue
  <2>2. Cardinality(UpToValue(values, v)) <= Cardinality(UpToValue(values, own))
    BY <1>3, <2>1, PlacesCounted
  <2> QED BY <1>1, <1>2, <1>3, <1>4, <2>2
<1> QED BY <1>2, <1>3, <1>5, <1>6, <1>7, <1>8, <1>9 DEF v, over

\* Which side the median of n values lies on, from the counts around its one
\* or two middle values.
LEMMA MedianSide ==
  ASSUME NEW values \in Seq(Nat), Len(values) > 0, NEW own \in Nat
  PROVE  LET lower == Cardinality(Below(values, own))
             higher == Cardinality({i \in DOMAIN values : values[i] > own})
         IN  /\ 2 * own > twiceMedian(values) => 2 * lower >= Len(values)
             /\ 2 * own < twiceMedian(values) => 2 * higher >= Len(values)
             /\ 2 * own = twiceMedian(values) => 2 * lower <= Len(values) /\ 2 * higher <= Len(values)
<1> DEFINE n == Len(values)
           lower == Cardinality(Below(values, own))
           higher == Cardinality({i \in DOMAIN values : values[i] > own})
           m == n \div 2
           v == ascending(values, m + 1)
           u == ascending(values, m)
<1>1. n \in Nat \ {0} /\ m \in Nat /\ m + 1 \in 1..n
      /\ (n % 2 = 0 => n = 2 * m /\ m \in 1..n) /\ (n % 2 # 0 => n = 2 * m + 1)
  OBVIOUS
<1>2. /\ lower \in Nat /\ higher \in Nat /\ v \in Nat
      /\ v < own => lower >= m + 1
      /\ own <= v => lower < m + 1
      /\ own < v => higher > n - (m + 1)
      /\ v <= own => higher <= n - (m + 1)
  <2> HIDE DEF m
  <2> QED BY <1>1, CountsAround
<1>3. n % 2 = 0 =>
        /\ u \in Nat
        /\ u < own => lower >= m
        /\ own <= u => lower < m
        /\ own < u => higher > n - m
        /\ u <= own => higher <= n - m
  <2> HIDE DEF m
  <2> QED BY <1>1, CountsAround
<1>4. twiceMedian(values) = IF n % 2 = 0 THEN u + v ELSE 2 * v
  BY DEF twiceMedian
<1>5. n % 2 = 0 => u <= v
  <2>1. SUFFICES ASSUME n % 2 = 0, ~(u <= v) PROVE FALSE
    OBVIOUS
  <2>2. m \in 1..n /\ u \in Nat
    BY <1>1, <1>3, <2>1
  <2>3. v < u
    BY <1>2, <2>1, <2>2
  <2> HIDE DEF u, v, m
  <2>4. Cardinality(Below(values, u)) >= m + 1
    <3>1. v < u => Cardinality(Below(values, u)) >= m + 1
      BY <1>1, <2>2, CountsAround DEF v
    <3> QED BY <2>3, <3>1
  <2>5. Cardinality(Below(values, u)) < m
    BY <2>2, KthValue DEF u
  <2>6. Cardinality(Below(values, u)) \in Nat
    BY <1>1, <2>2, CountsAround
  <2> QED BY <1>1, <2>4, <2>5, <2>6
<1> HIDE DEF n, m, u, v, lower, higher
<1>6. CASE n % 2 = 0
  <2>1. twiceMedian(values) = u + v /\ n = 2 * m /\ u <= v /\ u \in Nat /\ v \in Nat
    BY <1>1, <1>2, <1>3, <1>4, <1>5, <1>6
  <2>2. ASSUME 2 * own > u + v PROVE 2 * lower >= n
    <3>1. u < own
      BY <2>1, <2>2
    <3> QED BY <1>1, <1>2, <1>3, <1>6, <2>1, <3>1
  <2>3. ASSUME 2 * own < u + v PROVE 2 * higher >= n
    <3>1. own < v
      BY <2>1, <2>3
    <3> QED BY <1>1, <1>2, <2>1, <3>1
  <2>4. ASSUME 2 * own = u + v PROVE 2 * lower <= n /\ 2 * higher <= n
    <3>1. u <= own /\ own <= v
      BY <2>1, <2>4
    <3> QED BY <1>1, <1>2, <1>3, <1>6, <2>1, <3>1
  <2> QED BY <2>1, <2>2, <2>3, <2>4 DEF n, lower, higher
<1>7. CASE n % 2 # 0
  <2>1. twiceMedian(values) = 2 * v /\ n = 2 * m + 1
    BY <1>1, <1>4, <1>7
  <2>2. 2 * own > 2 * v => 2 * lower >= n
    BY <1>1, <1>2, <2>1
  <2>3. 2 * own < 2 * v => 2 * higher >= n
    BY <1>1, <1>2, <2>1
  <2>4. 2 * own = 2 * v => 2 * lower <= n /\ 2 * higher <= n
    BY <1>1, <1>2, <2>1
  <2> QED BY <2>1, <2>2, <2>3, <2>4 DEF n, lower, higher
<1> QED BY <1>6, <1>7

LEMMA SideOfMajority == ASSUME NEW P, Recorded(P), PeerInv(P) PROVE PositionIsMajority
<1> SUFFICES ASSUME NEW subject \in Slugs, comparable(subject)
    PROVE LET chosen == peers(subject)
              own == platforms[subject].value
              lower == Cardinality({k \in DOMAIN chosen : platforms[chosen[k]].value < own})
              higher == Cardinality({k \in DOMAIN chosen : platforms[chosen[k]].value > own})
          IN  /\ position(subject) = "above" => 2 * lower >= Len(chosen)
              /\ position(subject) = "below" => 2 * higher >= Len(chosen)
              /\ position(subject) = "at" => 2 * lower <= Len(chosen) /\ 2 * higher <= Len(chosen)
  BY DEF PositionIsMajority
<1> DEFINE chosen == peers(subject)
           own == platforms[subject].value
           values == valuesOf(chosen)
           lower == Cardinality({k \in DOMAIN chosen : platforms[chosen[k]].value < own})
           higher == Cardinality({k \in DOMAIN chosen : platforms[chosen[k]].value > own})
<1>1. chosen \in Seq(Slugs) /\ Len(chosen) \in Nat /\ DOMAIN chosen = 1..Len(chosen) /\ Len(chosen) > 0
  <2>1. chosen \in Seq(Slugs) /\ Len(chosen) \in Nat /\ DOMAIN chosen = 1..Len(chosen)
    BY PeersOf
  <2>2. Len(chosen) >= MIN_QUALIFIED_PEERS
    BY DEF comparable
  <2> HIDE DEF chosen
  <2> QED BY <2>1, <2>2, PeerLimits
<1>2. position(subject) = IF 2 * own < twiceMedian(values) THEN "below"
                          ELSE IF 2 * own > twiceMedian(values) THEN "above" ELSE "at"
  BY DEF position
<1> HIDE DEF chosen
<1>3. \A s \in Slugs : platforms[s].value \in Nat
  BY DEF PeerInv, Recorded
<1>4. values \in Seq(Nat) /\ Len(values) = Len(chosen) /\ DOMAIN values = DOMAIN chosen
      /\ \A k \in DOMAIN chosen : values[k] = platforms[chosen[k]].value
  <2>1. values = [k \in 1..Len(chosen) |-> platforms[chosen[k]].value]
    BY <1>1 DEF valuesOf
  <2>2. \A k \in 1..Len(chosen) : platforms[chosen[k]].value \in Nat
    BY <1>1, <1>3
  <2> HIDE DEF values
  <2>3. values \in Seq(Nat)
    BY <1>1, <2>1, <2>2
  <2>4. DOMAIN values = 1..Len(chosen) /\ Len(values) = Len(chosen)
    BY <1>1, <2>1, <2>3
  <2> QED BY <1>1, <2>1, <2>3, <2>4
<1> HIDE DEF values
<1>5. own \in Nat
  BY <1>3
<1>6. Below(values, own) = {k \in DOMAIN chosen : platforms[chosen[k]].value < own}
      /\ {i \in DOMAIN values : values[i] > own} = {k \in DOMAIN chosen : platforms[chosen[k]].value > own}
  BY <1>4 DEF Below
<1> HIDE DEF own
<1>7. lower = Cardinality(Below(values, own))
      /\ higher = Cardinality({i \in DOMAIN values : values[i] > own})
  BY <1>6, Zenon
<1> HIDE DEF lower, higher
<1>8. /\ 2 * own > twiceMedian(values) => 2 * lower >= Len(chosen)
      /\ 2 * own < twiceMedian(values) => 2 * higher >= Len(chosen)
      /\ 2 * own = twiceMedian(values) => 2 * lower <= Len(chosen) /\ 2 * higher <= Len(chosen)
  BY <1>1, <1>4, <1>5, <1>7, MedianSide
<1>9. twiceMedian(values) \in Nat
  <2>1. Len(values) \in Nat \ {0} /\ (Len(values) \div 2) + 1 \in 1..Len(values)
        /\ (Len(values) % 2 = 0 => Len(values) \div 2 \in 1..Len(values))
    BY <1>1, <1>4
  <2>2. ascending(values, (Len(values) \div 2) + 1) \in Nat
        /\ (Len(values) % 2 = 0 => ascending(values, Len(values) \div 2) \in Nat)
    BY <1>4, <2>1, KthValue
  <2> QED BY <2>2 DEF twiceMedian
<1>10. /\ position(subject) = "above" => 2 * lower >= Len(chosen)
       /\ position(subject) = "below" => 2 * higher >= Len(chosen)
       /\ position(subject) = "at" => 2 * lower <= Len(chosen) /\ 2 * higher <= Len(chosen)
  <2>1. position(subject) = "above" => 2 * own > twiceMedian(values)
    BY <1>2
  <2>2. position(subject) = "below" => 2 * own < twiceMedian(values)
    BY <1>2
  <2>3. position(subject) = "at" => 2 * own = twiceMedian(values)
    BY <1>2, <1>5, <1>9
  <2> QED BY <1>8, <2>1, <2>2, <2>3
<1> QED BY <1>10 DEF chosen, own, lower, higher

\* Whatever is reviewed and however time passes, comparisons stand.
THEOREM ComparisonsStand ==
  ASSUME NEW P, Recorded(P)
  PROVE  PeerSpec => []PeersStand
<1>1. PeerInit => PeerInv(P)
  BY PeerInvInit
<1>2. PeerInv(P) /\ [PeerNext]_peerVars => PeerInv(P)'
  BY PeerInvNext
<1>3. PeerInv(P) => PeersStand
  BY CriteriaAreMet, NobodyIsLeftOut, CohortsAreCompared, SideOfMajority DEF PeersStand
<1> QED BY <1>1, <1>2, <1>3, PTL DEF PeerSpec

------------------------------------------------------------------------------
(* The form in the browser                                                 *)

\* Where the path runs, whatever it looks like as a list.
PathIds(a) == {a.steps[i].id : i \in {k \in DOMAIN a.steps : a.steps[k].inPath}}

\* Steps have ids of their own; those that were added have ids that are used.
DistinctIds(a) == \A i, j \in DOMAIN a.steps : a.steps[i].id = a.steps[j].id => i = j
UsedIds(a, used) == \A i \in DOMAIN a.steps : a.steps[i].id \in CustomIds => a.steps[i].id \in used

\* Break and furthest step lie on the path, the furthest step first.
Placed(a) ==
  /\ a.break \in {"", "cannot-tell", "completed"} \cup PathIds(a)
  /\ a.furthest \in {"", "none"} \cup PathIds(a)
  /\ \A i, j \in DOMAIN a.steps : a.steps[i].id = a.furthest /\ a.steps[j].id = a.break => i < j

\* The observation answers the question the break leads to.
Fits(a) == a.answer # "" => a.question = Discriminator(a) /\ a.answer \in OptionsOf(a.question)
Evidenced(a) == a.break = "completed" => a.evidence # "assumption"

Agreeing(a, used) ==
  DistinctIds(a) /\ UsedIds(a, used) /\ Placed(a) /\ Fits(a) /\ Evidenced(a)

\* The parts of typed answers.
LEMMA StepsOf ==
  ASSUME NEW a \in FormAnswers
  PROVE  /\ a.steps \in Seq(StepRecords) /\ Len(a.steps) \in Nat /\ DOMAIN a.steps = 1..Len(a.steps)
         /\ \A i \in DOMAIN a.steps :
              /\ a.steps[i] \in StepRecords
              /\ a.steps[i].id \in StepIds /\ a.steps[i].stage \in Stages
              /\ a.steps[i].inPath \in BOOLEAN /\ a.steps[i].named \in BOOLEAN
              /\ a.steps[i].id \notin {"", "none", "cannot-tell", "completed"}
<1>1. a.steps \in Seq(StepRecords)
  BY DEF FormAnswers
<1>2. \A i \in DOMAIN a.steps : a.steps[i] \in StepRecords
  BY <1>1
<1>3. \A id \in StepIds : id \notin {"", "none", "cannot-tell", "completed"}
  BY StepsAreKnown
<1>4. \A s \in StepRecords : s.id \in StepIds /\ s.stage \in Stages /\ s.inPath \in BOOLEAN
                            /\ s.named \in BOOLEAN
  BY DEF StepRecords
<1>5. ASSUME NEW i \in DOMAIN a.steps
      PROVE  /\ a.steps[i] \in StepRecords
             /\ a.steps[i].id \in StepIds /\ a.steps[i].stage \in Stages
             /\ a.steps[i].inPath \in BOOLEAN /\ a.steps[i].named \in BOOLEAN
             /\ a.steps[i].id \notin {"", "none", "cannot-tell", "completed"}
  <2>1. a.steps[i] \in StepRecords
    BY <1>2
  <2>2. a.steps[i].id \in StepIds /\ a.steps[i].stage \in Stages
        /\ a.steps[i].inPath \in BOOLEAN /\ a.steps[i].named \in BOOLEAN
    BY <1>4, <2>1
  <2> QED BY <1>3, <2>1, <2>2
<1>6. Len(a.steps) \in Nat /\ DOMAIN a.steps = 1..Len(a.steps)
  BY <1>1
<1> QED BY <1>1, <1>5, <1>6

\* The path is the steps that are in it, in their order.
LEMMA PathOf ==
  ASSUME NEW a \in FormAnswers
  PROVE  /\ ActiveSteps(a) \in Seq(StepRecords)
         /\ ToSet(ActiveSteps(a)) = {s \in ToSet(a.steps) : s.inPath}
         /\ ActiveIds(a) = PathIds(a)
         /\ \E e : Embeds(e, ActiveSteps(a), Len(a.steps), a.steps)
<1> DEFINE set == {s \in ToSet(a.steps) : s.inPath}
<1>1. a.steps \in Seq(StepRecords)
  BY StepsOf
<1> HIDE DEF set
<1>2. ActiveSteps(a) = Among(a.steps, set)
  BY DEF ActiveSteps, set
<1>3. ToSet(ActiveSteps(a)) = ToSet(a.steps) \cap set
  BY <1>1, <1>2, AmongList
<1>4. ToSet(ActiveSteps(a)) = {s \in ToSet(a.steps) : s.inPath}
  BY <1>3 DEF set
<1>5. ActiveSteps(a) \in Seq(StepRecords) /\ \E e : Embeds(e, ActiveSteps(a), Len(a.steps), a.steps)
  BY <1>1, <1>2, AmongInOrder
<1>6. ToSet(a.steps) = {a.steps[i] : i \in DOMAIN a.steps}
  BY <1>1 DEF ToSet
<1>7. ActiveIds(a) = PathIds(a)
  BY <1>4, <1>6 DEF ActiveIds, PathIds
<1> QED BY <1>4, <1>5, <1>7

\* Where a step of the path is found.
LEMMA IndexOnPath ==
  ASSUME NEW a \in FormAnswers, DistinctIds(a)
  PROVE  /\ \A id \in PathIds(a) :
              IndexOf(a, id) \in 1..Len(ActiveSteps(a)) /\ ActiveSteps(a)[IndexOf(a, id)].id = id
         /\ \A id : id \notin PathIds(a) => IndexOf(a, id) = 0
<1> DEFINE path == ActiveSteps(a)
<1>1. path \in Seq(StepRecords) /\ Len(path) \in Nat /\ DOMAIN path = 1..Len(path)
      /\ ActiveIds(a) = PathIds(a) /\ ToSet(path) = {path[k] : k \in 1..Len(path)}
  BY PathOf DEF ToSet
<1>2. PathIds(a) = {path[k].id : k \in 1..Len(path)}
  BY <1>1 DEF ActiveIds
<1> HIDE DEF path
<1>3. ASSUME NEW id \in PathIds(a)
      PROVE  IndexOf(a, id) \in 1..Len(path) /\ path[IndexOf(a, id)].id = id
  <2> DEFINE spots == {i \in DOMAIN path : path[i].id = id}
  <2>1. spots # {} /\ spots \in SUBSET Nat
    BY <1>1, <1>2
  <2>2. PICK n \in spots : \A m \in spots : n <= m
    BY <2>1, LeastNumber
  <2>3. (CHOOSE i \in spots : \A j \in spots : i <= j) \in spots
    BY <2>2
  <2>4. IndexOf(a, id) = CHOOSE i \in spots : \A j \in spots : i <= j
    BY <2>1 DEF IndexOf, path
  <2> QED BY <1>1, <2>3, <2>4
<1>4. ASSUME NEW id, id \notin PathIds(a) PROVE IndexOf(a, id) = 0
  <2>1. {i \in DOMAIN path : path[i].id = id} = {}
    BY <1>1, <1>2, <1>4
  <2> QED BY <2>1 DEF IndexOf, path
<1> QED BY <1>3, <1>4 DEF path

\* The stage that routes the question is that of the step that broke.
LEMMA StageOfBreak ==
  ASSUME NEW a \in FormAnswers, DistinctIds(a)
  PROVE  /\ a.break \notin PathIds(a) => LastStage(a) = "unlocated"
         /\ \A i \in DOMAIN a.steps :
              a.steps[i].inPath /\ a.steps[i].id = a.break
                => LastStage(a) = lastStageForCatalogStage(a.steps[i].stage)
<1>1. ActiveIds(a) = PathIds(a)
  BY PathOf
<1>2. a.break \notin PathIds(a) => LastStage(a) = "unlocated"
  BY <1>1 DEF LastStage
<1>3. ASSUME NEW i \in DOMAIN a.steps, a.steps[i].inPath, a.steps[i].id = a.break
      PROVE  LastStage(a) = lastStageForCatalogStage(a.steps[i].stage)
  <2>1. a.break \in PathIds(a)
    BY <1>3 DEF PathIds
  <2> DEFINE k == IndexOf(a, a.break)
  <2>2. k \in 1..Len(ActiveSteps(a)) /\ ActiveSteps(a)[k].id = a.break
    BY <2>1, IndexOnPath
  <2>3. PICK e : Embeds(e, ActiveSteps(a), Len(a.steps), a.steps)
    BY PathOf
  <2>4. e[k] \in DOMAIN a.steps /\ ActiveSteps(a)[k] = a.steps[e[k]]
    BY <2>2, <2>3, StepsOf DEF Embeds
  <2>5. e[k] = i
    BY <1>3, <2>2, <2>4 DEF DistinctIds
  <2>6. ActiveSteps(a)[k].stage = a.steps[i].stage
    BY <2>4, <2>5
  <2> QED BY <1>1, <2>1, <2>6 DEF LastStage
<1> QED BY <1>2, <1>3

\* Earlier among the steps is earlier on the path.
LEMMA PathKeepsOrder ==
  ASSUME NEW a \in FormAnswers, DistinctIds(a),
         NEW i \in DOMAIN a.steps, NEW j \in DOMAIN a.steps, a.steps[i].inPath, a.steps[j].inPath, i < j
  PROVE  IndexOf(a, a.steps[i].id) < IndexOf(a, a.steps[j].id)
<1> DEFINE k == IndexOf(a, a.steps[i].id)
           l == IndexOf(a, a.steps[j].id)
<1>1. a.steps[i].id \in PathIds(a) /\ a.steps[j].id \in PathIds(a)
  BY DEF PathIds
<1>2. /\ k \in 1..Len(ActiveSteps(a)) /\ ActiveSteps(a)[k].id = a.steps[i].id
      /\ l \in 1..Len(ActiveSteps(a)) /\ ActiveSteps(a)[l].id = a.steps[j].id
  BY <1>1, IndexOnPath
<1> HIDE DEF k, l
<1>3. PICK e : Embeds(e, ActiveSteps(a), Len(a.steps), a.steps)
  BY PathOf
<1>4. /\ e[k] \in DOMAIN a.steps /\ ActiveSteps(a)[k] = a.steps[e[k]]
      /\ e[l] \in DOMAIN a.steps /\ ActiveSteps(a)[l] = a.steps[e[l]]
  BY <1>2, <1>3, StepsOf DEF Embeds
<1>5. e[k] = i /\ e[l] = j
  BY <1>2, <1>4 DEF DistinctIds
<1>6. k \in Nat /\ l \in Nat /\ i \in Nat /\ j \in Nat
  <2>1. Len(ActiveSteps(a)) \in Nat
    BY PathOf
  <2>2. DOMAIN a.steps = 1..Len(a.steps) /\ Len(a.steps) \in Nat
    BY StepsOf
  <2> QED BY <1>2, <2>1, <2>2
<1>7. l < k => e[l] < e[k]
  BY <1>2, <1>3 DEF Embeds
<1> QED BY <1>5, <1>6, <1>7 DEF k, l

\* The places of steps are numbers.
LEMMA PlacesAreNumbers ==
  ASSUME NEW a \in FormAnswers, NEW i \in DOMAIN a.steps
  PROVE  i \in Nat
<1>1. DOMAIN a.steps = 1..Len(a.steps) /\ Len(a.steps) \in Nat
  BY StepsOf
<1> QED BY <1>1

\* A growing function keeps apart what is apart, and in order.
LEMMA OrderIsKept ==
  ASSUME NEW i \in Nat, NEW j \in Nat, NEW x \in Nat, NEW y \in Nat,
         i < j => x < y, j < i => y < x
  PROVE  (x = y => i = j) /\ ((i = j => x = y) /\ x < y => i < j)
OBVIOUS

\* The steps of b at D are steps of a, in their order, and b has the break, the
\* furthest step and the observation of a or none, which lie on its path at D.
CarriesOver(a, b, D, e) ==
  /\ D \in SUBSET (DOMAIN b.steps) /\ e \in [D -> DOMAIN a.steps]
  /\ \A i, j \in D : i < j => e[i] < e[j]
  /\ \A i \in D : b.steps[i].id = a.steps[e[i]].id /\ b.steps[i].stage = a.steps[e[i]].stage
  /\ \A i \in DOMAIN b.steps : b.steps[i].id \in {b.furthest, b.break} => i \in D
  /\ b.furthest \in {"", a.furthest} /\ b.furthest \in {"", "none"} \cup PathIds(b)
  /\ b.break \in {"", a.break} /\ b.break \in {"", "cannot-tell", "completed"} \cup PathIds(b)
  /\ b.evidence = a.evidence
  /\ b.answer = "" \/ (b.answer = a.answer /\ b.question = a.question /\ b.break = a.break)

\* Then they agree as in a.
LEMMA PlaceCarriesOver ==
  ASSUME NEW a \in FormAnswers, NEW b \in FormAnswers, NEW before, Agreeing(a, before),
         NEW used, DistinctIds(b), UsedIds(b, used), NEW D, NEW e, CarriesOver(a, b, D, e)
  PROVE  Agreeing(b, used)
<1> USE DEF CarriesOver
<1>1. \A i \in DOMAIN b.steps : b.steps[i].id \notin {"", "none", "cannot-tell", "completed"}
  BY StepsOf
<1>2. Placed(b)
  <2> SUFFICES ASSUME NEW i \in DOMAIN b.steps, NEW j \in DOMAIN b.steps,
                      b.steps[i].id = b.furthest, b.steps[j].id = b.break
      PROVE i < j
    BY DEF Placed
  <2>0. i \in D /\ j \in D
    OBVIOUS
  <2>1. b.furthest = a.furthest /\ b.break = a.break
    BY <1>1
  <2>3. e[i] \in DOMAIN a.steps /\ e[j] \in DOMAIN a.steps
    BY <2>0
  <2>2. e[i] < e[j]
    BY <2>0, <2>1, <2>3 DEF Agreeing, Placed
  <2>4. e[i] \in Nat /\ e[j] \in Nat /\ i \in Nat /\ j \in Nat
    BY <2>3, PlacesAreNumbers
  <2>5. (j < i => e[j] < e[i]) /\ (i = j => e[i] = e[j])
    BY <2>0
  <2> QED BY <2>2, <2>4, <2>5, OrderIsKept
<1>3. Fits(b)
  <2> SUFFICES ASSUME b.answer # "" PROVE b.question = Discriminator(b) /\ b.answer \in OptionsOf(b.question)
    BY DEF Fits
  <2>1. b.answer = a.answer /\ b.question = a.question /\ b.break = a.break
    OBVIOUS
  <2>2. LastStage(b) = LastStage(a)
    <3>1. CASE b.break \in PathIds(b)
      <4>1. PICK i \in DOMAIN b.steps : b.steps[i].inPath /\ b.steps[i].id = b.break
        BY <3>1 DEF PathIds
      <4>0. i \in D
        BY <4>1
      <4>2. a.break \in PathIds(a)
        BY <1>1, <2>1, <4>1 DEF Agreeing, Placed
      <4>3. PICK j \in DOMAIN a.steps : a.steps[j].inPath /\ a.steps[j].id = a.break
        BY <4>2 DEF PathIds
      <4>4. j = e[i]
        <5>1. e[i] \in DOMAIN a.steps /\ a.steps[e[i]].id = a.steps[j].id
          BY <2>1, <4>0, <4>1, <4>3
        <5> QED BY <4>3, <5>1 DEF Agreeing, DistinctIds
      <4>5. LastStage(b) = lastStageForCatalogStage(b.steps[i].stage)
        BY <4>1, StageOfBreak
      <4>6. LastStage(a) = lastStageForCatalogStage(a.steps[j].stage)
        BY <4>3, StageOfBreak DEF Agreeing
      <4>7. b.steps[i].stage = a.steps[j].stage
        BY <4>0, <4>4
      <4> QED BY <4>5, <4>6, <4>7
    <3>2. CASE b.break \notin PathIds(b)
      <4>1. a.break \in {"", "cannot-tell", "completed"}
        BY <2>1, <3>2
      <4>2. \A i \in DOMAIN a.steps : a.steps[i].id \notin {"", "none", "cannot-tell", "completed"}
        BY StepsOf
      <4>3. a.break \notin PathIds(a)
        BY <4>1, <4>2 DEF PathIds
      <4> QED BY <3>2, <4>3, StageOfBreak DEF Agreeing
    <3> QED BY <3>1, <3>2
  <2> QED BY <2>1, <2>2 DEF Discriminator, Agreeing, Fits
<1>4. Evidenced(b)
  BY DEF Evidenced, Agreeing
<1> QED BY <1>2, <1>3, <1>4 DEF Agreeing

\* Also when all steps are taken over.
LEMMA TakenOver ==
  ASSUME NEW a \in FormAnswers, NEW b \in FormAnswers, NEW used, Agreeing(a, used),
         NEW e, CarriesOver(a, b, DOMAIN b.steps, e)
  PROVE  Agreeing(b, used)
<1>1. DistinctIds(b)
  <2> SUFFICES ASSUME NEW i \in DOMAIN b.steps, NEW j \in DOMAIN b.steps,
                      b.steps[i].id = b.steps[j].id
      PROVE i = j
    BY DEF DistinctIds
  <2>1. e[i] \in DOMAIN a.steps /\ e[j] \in DOMAIN a.steps
    BY DEF CarriesOver
  <2>2. a.steps[e[i]].id = a.steps[e[j]].id
    BY DEF CarriesOver
  <2>3. e[i] = e[j]
    BY <2>1, <2>2 DEF Agreeing, DistinctIds
  <2>4. e[i] \in Nat /\ e[j] \in Nat /\ i \in Nat /\ j \in Nat
    BY <2>1, PlacesAreNumbers
  <2>5. (i < j => e[i] < e[j]) /\ (j < i => e[j] < e[i])
    BY DEF CarriesOver
  <2> QED BY <2>3, <2>4, <2>5, OrderIsKept
<1>2. UsedIds(b, used)
  BY DEF UsedIds, Agreeing, CarriesOver
<1> QED BY <1>1, <1>2, PlaceCarriesOver

\* Answers with the steps, the break and the furthest step of others.
LEMMA SamePlace ==
  ASSUME NEW a, NEW b, NEW used, Agreeing(a, used),
         b.steps = a.steps, b.break = a.break, b.furthest = a.furthest,
         Evidenced(b), Fits(b)
  PROVE  Agreeing(b, used)
BY DEF Agreeing, DistinctIds, UsedIds, Placed, PathIds

\* The question a break leads to depends on the steps and the break alone.
LEMMA SameQuestion ==
  ASSUME NEW a, NEW b, b.steps = a.steps, b.break = a.break
  PROVE  Discriminator(b) = Discriminator(a)
<1>1. ActiveSteps(b) = ActiveSteps(a)
  BY DEF ActiveSteps
<1>2. ActiveIds(b) = ActiveIds(a)
  BY <1>1 DEF ActiveIds
<1>3. IndexOf(b, b.break) = IndexOf(a, a.break)
  BY <1>1 DEF IndexOf
<1> QED BY <1>1, <1>2, <1>3 DEF Discriminator, LastStage

\* What the break is asked about has a name.
LEMMA QuestionsAreNamed ==
  ASSUME NEW a \in FormAnswers
  PROVE  Discriminator(a) \in QuestionIds /\ LastStage(a) \in LastStages
<1>1. LastStage(a) \in LastStages
  <2>1. ActiveIds(a) = PathIds(a) /\ ActiveSteps(a) \in Seq(StepRecords)
    BY PathOf
  <2>2. CASE a.break \in ActiveIds(a)
    <3>1. \A i \in DOMAIN ActiveSteps(a) : ActiveSteps(a)[i].stage \in Stages
      <4>1. \A i \in DOMAIN ActiveSteps(a) : ActiveSteps(a)[i] \in StepRecords
        BY <2>1
      <4> QED BY <4>1 DEF StepRecords
    <3>2. \A s \in Stages : lastStageForCatalogStage(s) \in LastStages
      BY DEF LastStages, lastStageForCatalogStage
    <3>3. IndexOf(a, a.break) \in DOMAIN ActiveSteps(a)
      <4> DEFINE path == ActiveSteps(a)
                 spots == {i \in DOMAIN path : path[i].id = a.break}
      <4>1. spots # {} /\ spots \in SUBSET Nat
        BY <2>1, <2>2 DEF ActiveIds, ToSet
      <4>2. PICK n \in spots : \A m \in spots : n <= m
        BY <4>1, LeastNumber
      <4>3. (CHOOSE i \in spots : \A j \in spots : i <= j) \in spots
        BY <4>2
      <4>4. IndexOf(a, a.break) = CHOOSE i \in spots : \A j \in spots : i <= j
        BY <4>1 DEF IndexOf
      <4> QED BY <4>3, <4>4
    <3> QED BY <2>2, <3>1, <3>2, <3>3 DEF LastStage
  <2>3. CASE a.break \notin ActiveIds(a)
    BY <2>3 DEF LastStage, LastStages
  <2> QED BY <2>2, <2>3
<1>2. Discriminator(a) \in QuestionIds
  BY DEF Discriminator, selectDiscriminatorQuestion, QuestionIds
<1> QED BY <1>1, <1>2

\* Entering the blocker screen leaves typed answers typed and agreeing.
LEMMA SettleKeeps ==
  ASSUME NEW a \in FormAnswers, NEW s
  PROVE  /\ Settle(s, a) \in FormAnswers
         /\ \A used : Agreeing(a, used) => Agreeing(Settle(s, a), used)
<1> DEFINE posed == IF s = "blocker" /\ a.question # Discriminator(a)
                    THEN [a EXCEPT !.question = Discriminator(a), !.answer = "", !.issue = ""]
                    ELSE a
<1>1. posed \in FormAnswers
  <2>1. Discriminator(a) \in QuestionIds /\ "" \in QuestionIds
    BY QuestionsAreNamed DEF QuestionIds
  <2> QED BY <2>1 DEF FormAnswers
<1>2. Settle(s, a) \in {posed, [posed EXCEPT !.issue = "insufficient"]}
  BY DEF Settle
<1>3. posed.answer # "" => posed.answer = a.answer /\ posed.question = a.question
  BY DEF FormAnswers
<1>4. posed.steps = a.steps /\ posed.break = a.break /\ posed.furthest = a.furthest
      /\ posed.evidence = a.evidence
  BY DEF FormAnswers
<1> HIDE DEF posed
<1>5. Settle(s, a) \in FormAnswers
  BY <1>1, <1>2 DEF FormAnswers
<1> DEFINE b == Settle(s, a)
<1>6. /\ b.steps = a.steps /\ b.break = a.break /\ b.furthest = a.furthest
      /\ b.evidence = a.evidence
      /\ b.answer # "" => b.answer = a.answer /\ b.question = a.question
  BY <1>1, <1>2, <1>3, <1>4 DEF FormAnswers
<1> HIDE DEF b
<1>7. ASSUME NEW used, Agreeing(a, used) PROVE Agreeing(b, used)
  <2>1. Discriminator(b) = Discriminator(a)
    BY <1>6, SameQuestion
  <2>2. Fits(b)
    BY <1>6, <1>7, <2>1 DEF Fits, Agreeing
  <2>3. Evidenced(b)
    BY <1>6, <1>7 DEF Evidenced, Agreeing
  <2> QED BY <1>6, <1>7, <2>2, <2>3, SamePlace
<1> QED BY <1>5, <1>7 DEF b

\* The inductive invariant: typed answers, copies that can be resumed, and a map
\* that agrees with itself as long as it was not reopened.
AppInv ==
  /\ screen \in Screens /\ history \in Seq(Screens) /\ answers \in FormAnswers
  /\ \/ saved \in {NoMap} \cup OlderMaps
     \/ saved.answers \in FormAnswers /\ saved.history \in Seq(Screens)
  /\ importing \in {NoCase} \cup PortableCases
  /\ deletion \in {"none", "sent", "gone"}
  /\ minted \subseteq CustomIds
  /\ origin \in {"new", "resumed", "older"}
  /\ SavedIsShown
  /\ origin = "new" => Agreeing(answers, minted)

LEMMA ScreensAre ==
  Screens = {"welcome", "profile", "developer", "journey-map", "break-point", "blocker", "summary"}
<1>1. DOMAIN ScreenOrder = 1..7
  BY DEF ScreenOrder
<1>2. 1..7 = {1, 2, 3, 4, 5, 6, 7}
  OBVIOUS
<1> QED BY <1>1, <1>2 DEF Screens, ToSet, ScreenOrder

LEMMA NextScreenIsOne ==
  ASSUME NEW s \in {"profile", "journey-map"}
  PROVE  nextScreen(s) \in Screens
<1>1. \E i \in 2..7 : ScreenOrder[i - 1] = s
  <2>1. ScreenOrder[2] = "profile" /\ ScreenOrder[4] = "journey-map"
    BY DEF ScreenOrder
  <2>2. 3 \in 2..7 /\ 5 \in 2..7 /\ 3 - 1 = 2 /\ 5 - 1 = 4
    OBVIOUS
  <2> QED BY <2>1, <2>2
<1> DEFINE k == CHOOSE i \in 2..7 : ScreenOrder[i - 1] = s
<1>2. k \in 2..7
  BY <1>1
<1>3. DOMAIN ScreenOrder = 1..7
  BY DEF ScreenOrder
<1> HIDE DEF k
<1>4. ScreenOrder[k] \in Screens
  BY <1>2, <1>3 DEF Screens, ToSet
<1> QED BY <1>4 DEF nextScreen, k

LEMMA HistoryIsNormal ==
  ASSUME NEW T, NEW h \in Seq(T)
  PROVE  normalizeHistory(h) \in Seq(Screens)
<1> DEFINE named(n) == normalizeScreen(h[n])
           set == {n \in DOMAIN h : n = 1 \/ named(n) # named(n - 1)}
           list == [n \in DOMAIN h |-> n]
           places == Among(list, set)
<1>1. list \in Seq(Nat)
  OBVIOUS
<1> HIDE DEF list, set
<1>2. places \in Seq(Nat)
  BY <1>1, AmongInOrder
<1> HIDE DEF places, named
<1>3. \A n : named(n) \in Screens
  BY ScreensAre DEF named, normalizeScreen
<1>4. [k \in DOMAIN places |-> named(places[k])] \in Seq(Screens)
  <2>1. DOMAIN places = 1..Len(places) /\ Len(places) \in Nat
    BY <1>2
  <2>2. \A k \in 1..Len(places) : named(places[k]) \in Screens
    BY <1>3
  <2> QED BY <2>1, <2>2, IsASeq
<1> QED BY <1>4, Zenon DEF normalizeHistory, places, list, set, named

\* A new map is typed and agrees with itself.
LEMMA EmptyAgrees ==
  emptyAnswers \in FormAnswers /\ \A used : Agreeing(emptyAnswers, used)
<1>1. emptyAnswers \in FormAnswers
  BY StepsAreKnown DEF emptyAnswers, FormAnswers, Breaks, QuestionIds, LastStages
<1>2. /\ emptyAnswers.steps = DefaultSteps /\ emptyAnswers.break = "" /\ emptyAnswers.furthest = ""
      /\ emptyAnswers.answer = ""
  BY DEF emptyAnswers
<1> DEFINE a == emptyAnswers
<1> HIDE DEF a
<1>3. ASSUME NEW used PROVE Agreeing(a, used)
  <2>1. DistinctIds(a)
    BY <1>2, StepsAreKnown DEF DistinctIds, a
  <2>2. UsedIds(a, used)
    <3>1. \A i \in DOMAIN DefaultSteps : DefaultSteps[i].id \in {s.id : s \in ToSet(DefaultSteps)}
      BY DEF ToSet
    <3>2. \A i \in DOMAIN DefaultSteps : DefaultSteps[i].id \notin CustomIds
      BY <3>1, StepsAreKnown
    <3> QED BY <1>2, <3>2 DEF UsedIds, a
  <2>3. Placed(a)
    <3>1. \A i \in DOMAIN a.steps : a.steps[i].id # ""
      BY <1>1, StepsOf DEF a
    <3> QED BY <1>2, <3>1 DEF Placed, a
  <2>4. Fits(a) /\ Evidenced(a)
    BY <1>2 DEF Fits, Evidenced, a
  <2> QED BY <2>1, <2>2, <2>3, <2>4 DEF Agreeing
<1> QED BY <1>1, <1>3 DEF a

\* Answers that are migrated are typed.
LEMMA MigratedIsTyped ==
  ASSUME NEW a \in FormAnswers
  PROVE  migrateAnswers(a) \in FormAnswers
<1>1. \A s : legacyBreakStepId(s) \in Breaks
  BY DEF legacyBreakStepId, Breaks
<1>2. DefaultSteps \in Seq(StepRecords)
  BY StepsAreKnown
<1> DEFINE steps == IF a.steps = <<>> THEN DefaultSteps ELSE a.steps
           break == IF a.break = "" /\ a.lastStage # "" THEN legacyBreakStepId(a.lastStage) ELSE a.break
           evidence == IF a.evidence = "" THEN a.evidenceTypes ELSE a.evidence
           issue == IF a.issue = "" THEN a.explanation ELSE a.issue
<1>3. /\ steps \in Seq(StepRecords) /\ break \in Breaks
      /\ evidence \in {"", "observed", "assumption"}
      /\ issue \in {"", "insufficient", "explained"}
  BY <1>1, <1>2 DEF FormAnswers
<1>4. migrateAnswers(a) =
        [a EXCEPT !.steps = steps, !.break = break, !.evidence = evidence, !.issue = issue]
  BY DEF migrateAnswers, FormAnswers
<1> HIDE DEF steps, break, evidence, issue
<1>5. [a EXCEPT !.steps = steps, !.break = break, !.evidence = evidence, !.issue = issue] \in FormAnswers
  BY <1>3 DEF FormAnswers
<1> QED BY <1>4, <1>5

------------------------------------------------------------------------------
(* The handlers of the form                                                *)

\* What a handler leaves behind.
LEMMA CommitKeeps ==
  ASSUME AppInv, NEW s \in Screens, NEW h \in Seq(Screens), NEW a \in FormAnswers, Commit(s, h, a),
         importing' \in {NoCase} \cup PortableCases, deletion' = deletion,
         minted' \subseteq CustomIds, origin' \in {"new", "resumed", "older"},
         origin' = "new" => Agreeing(a, minted')
  PROVE  AppInv'
<1> DEFINE b == Settle(s, a)
<1>1. b \in FormAnswers /\ \A used : Agreeing(a, used) => Agreeing(b, used)
  BY SettleKeeps
<1>2. /\ screen' = s /\ history' = h /\ answers' = b
      /\ saved' = IF s = "welcome" THEN saved
                  ELSE [screen |-> s, history |-> h, answers |-> b, origin |-> origin']
  BY DEF Commit
<1> HIDE DEF b
<1>3. saved' \in {NoMap} \cup OlderMaps \/ (saved'.answers \in FormAnswers /\ saved'.history \in Seq(Screens))
  <2>1. CASE s = "welcome"
    BY <1>2, <2>1 DEF AppInv
  <2>2. CASE s # "welcome"
    BY <1>1, <1>2, <2>2
  <2> QED BY <2>1, <2>2
<1>4. SavedIsShown'
  BY <1>2 DEF SavedIsShown
<1>5. origin' = "new" => Agreeing(answers', minted')
  BY <1>1, <1>2
<1>6. screen' \in Screens /\ history' \in Seq(Screens) /\ answers' \in FormAnswers
  BY <1>1, <1>2
<1>7. deletion' \in {"none", "sent", "gone"}
  BY DEF AppInv
<1> QED BY <1>3, <1>4, <1>5, <1>6, <1>7 DEF AppInv

LEMMA EditKeeps ==
  ASSUME AppInv, NEW a \in FormAnswers, Edit(a), minted' \subseteq CustomIds,
         origin = "new" => Agreeing(a, minted')
  PROVE  AppInv'
<1>1. Commit(screen, history, a) /\ UNCHANGED <<importing, deletion, origin>>
  BY DEF Edit, remote
<1> QED BY <1>1, CommitKeeps DEF AppInv

LEMMA MoveKeeps ==
  ASSUME AppInv, NEW s \in Screens, NEW a \in FormAnswers, goTo(s, a),
         origin = "new" => Agreeing(a, minted)
  PROVE  AppInv'
<1>1. Commit(s, Append(history, screen), a) /\ UNCHANGED <<importing, deletion, minted, origin>>
  BY DEF goTo, remote
<1>2. Append(history, screen) \in Seq(Screens)
  BY DEF AppInv
<1> QED BY <1>1, <1>2, CommitKeeps DEF AppInv

\* A step that is replaced keeps its id and its stage.
LEMMA StepReplaced ==
  ASSUME NEW a \in FormAnswers, NEW i \in DOMAIN a.steps, NEW new \in StepRecords,
         new.id = a.steps[i].id, new.stage = a.steps[i].stage
  PROVE  LET b == [a EXCEPT !.steps[i] = new]
         IN  /\ b \in FormAnswers /\ DOMAIN b.steps = DOMAIN a.steps
             /\ b.steps[i] = new
             /\ \A k \in DOMAIN a.steps : /\ b.steps[k].id = a.steps[k].id
                                          /\ b.steps[k].stage = a.steps[k].stage
                                          /\ k # i => b.steps[k] = a.steps[k]
             /\ b.furthest = a.furthest /\ b.break = a.break /\ b.evidence = a.evidence
             /\ b.question = a.question /\ b.answer = a.answer /\ b.issue = a.issue
<1> DEFINE steps == [a.steps EXCEPT ![i] = new]
           b == [a EXCEPT !.steps = steps]
<1>1. a.steps \in Seq(StepRecords) /\ Len(a.steps) \in Nat /\ DOMAIN a.steps = 1..Len(a.steps)
  BY StepsOf
<1>2. steps \in Seq(StepRecords) /\ DOMAIN steps = DOMAIN a.steps /\ steps[i] = new
      /\ \A k \in DOMAIN a.steps : k # i => steps[k] = a.steps[k]
  BY <1>1
<1> HIDE DEF steps
<1>3. b \in FormAnswers
  BY <1>2 DEF FormAnswers
<1>4. /\ b.steps = steps /\ b.furthest = a.furthest /\ b.break = a.break /\ b.evidence = a.evidence
      /\ b.question = a.question /\ b.answer = a.answer /\ b.issue = a.issue
  BY DEF FormAnswers
<1>5. b = [a EXCEPT !.steps[i] = new]
  BY DEF steps, FormAnswers
<1>6. \A k \in DOMAIN a.steps : steps[k].id = a.steps[k].id /\ steps[k].stage = a.steps[k].stage
  BY <1>2
<1> HIDE DEF b
<1> QED BY <1>2, <1>3, <1>4, <1>5, <1>6

\* What is left when the step with an id is forgotten.
LEMMA Forgotten ==
  ASSUME NEW b \in FormAnswers, NEW id
  PROVE  /\ Forget(b, id) \in FormAnswers
         /\ Forget(b, id).steps = b.steps /\ Forget(b, id).evidence = b.evidence
         /\ b.furthest = id => Forget(b, id).furthest = ""
         /\ b.furthest # id => Forget(b, id).furthest = b.furthest
         /\ b.break = id => Forget(b, id).break = "" /\ Forget(b, id).answer = ""
         /\ b.break # id => /\ Forget(b, id).break = b.break /\ Forget(b, id).answer = b.answer
                            /\ Forget(b, id).question = b.question
<1> DEFINE f == IF b.furthest = id THEN "" ELSE b.furthest
           k == IF b.break = id THEN "" ELSE b.break
           q == IF b.break = id THEN "" ELSE b.question
           n == IF b.break = id THEN "" ELSE b.answer
           t == IF b.break = id THEN "" ELSE b.issue
           d == [b EXCEPT !.furthest = f, !.break = k, !.question = q, !.answer = n, !.issue = t]
<1>1. Forget(b, id) = d
  BY DEF Forget, FormAnswers
<1>2. /\ f \in {"", "none"} \cup StepIds /\ k \in Breaks /\ q \in QuestionIds
      /\ n \in {""} \cup OptionsOf("DQ_MEASUREMENT") \cup OptionsOf("DQ_VERIFY")
      /\ t \in {"", "insufficient", "explained"}
  BY DEF FormAnswers, Breaks, QuestionIds
<1> HIDE DEF f, k, q, n, t
<1>3. d \in FormAnswers
  BY <1>2 DEF FormAnswers
<1>4. /\ d.steps = b.steps /\ d.evidence = b.evidence /\ d.furthest = f /\ d.break = k
      /\ d.question = q /\ d.answer = n
  BY DEF FormAnswers
<1> HIDE DEF d
<1> QED BY <1>1, <1>3, <1>4 DEF f, k, q, n, t

\* Steps of the same ids and stages, in the same places.
Matches(a, b) ==
  /\ DOMAIN b.steps = DOMAIN a.steps
  /\ \A i \in DOMAIN b.steps : b.steps[i].id = a.steps[i].id /\ b.steps[i].stage = a.steps[i].stage
  /\ b.furthest \in {"", a.furthest} /\ b.furthest \in {"", "none"} \cup PathIds(b)
  /\ b.break \in {"", a.break} /\ b.break \in {"", "cannot-tell", "completed"} \cup PathIds(b)
  /\ b.evidence = a.evidence
  /\ b.answer = "" \/ (b.answer = a.answer /\ b.question = a.question /\ b.break = a.break)

LEMMA SameSteps ==
  ASSUME NEW a \in FormAnswers, NEW b \in FormAnswers, NEW used, Agreeing(a, used), Matches(a, b)
  PROVE  Agreeing(b, used)
<1> DEFINE e == [i \in DOMAIN b.steps |-> i]
<1>1. /\ e \in [DOMAIN b.steps -> DOMAIN a.steps]
      /\ \A i \in DOMAIN b.steps : e[i] = i
  BY DEF Matches
<1> HIDE DEF e
<1>2. CarriesOver(a, b, DOMAIN b.steps, e)
  <2>1. \A i, j \in DOMAIN b.steps : i < j => e[i] < e[j]
    BY <1>1
  <2>2. \A i \in DOMAIN b.steps : b.steps[i].id = a.steps[e[i]].id /\ b.steps[i].stage = a.steps[e[i]].stage
    BY <1>1 DEF Matches
  <2> QED BY <1>1, <2>1, <2>2 DEF CarriesOver, Matches
<1> QED BY <1>2, TakenOver

LEMMA UpdateKeeps ==
  ASSUME AppInv, NEW i \in DOMAIN answers.steps, updateJourneyStep(i)
  PROVE  AppInv'
<1> DEFINE a == answers
           step == a.steps[i]
           with(new) == [a EXCEPT !.steps[i] = new]
           out == [step EXCEPT !.inPath = FALSE]
           back == [step EXCEPT !.inPath = TRUE]
           relabelled == [step EXCEPT !.named = ~ @]
<1>1. a \in FormAnswers /\ minted' = minted /\ minted \subseteq CustomIds
  BY DEF AppInv, updateJourneyStep
<1>2. step \in StepRecords /\ step.inPath \in BOOLEAN
  BY <1>1, StepsOf
<1>3. /\ out \in StepRecords /\ out.id = step.id /\ out.stage = step.stage /\ ~out.inPath
      /\ back \in StepRecords /\ back.id = step.id /\ back.stage = step.stage /\ back.inPath
      /\ relabelled \in StepRecords /\ relabelled.id = step.id /\ relabelled.stage = step.stage
      /\ relabelled.inPath = step.inPath
  BY <1>2 DEF StepRecords
<1>4. \/ step.inPath /\ Edit(Forget(with(out), step.id))
      \/ ~step.inPath /\ Edit(with(back))
      \/ Edit(with(relabelled))
  BY DEF updateJourneyStep
<1> HIDE DEF a, step, with, out, back, relabelled
<1>5. ASSUME step.inPath, Edit(Forget(with(out), step.id)) PROVE AppInv'
  <2> DEFINE b == with(out)
             c == Forget(b, step.id)
  <2>1. /\ b \in FormAnswers /\ DOMAIN b.steps = DOMAIN a.steps
        /\ \A k \in DOMAIN a.steps : /\ b.steps[k].id = a.steps[k].id
                                     /\ b.steps[k].stage = a.steps[k].stage
                                     /\ k # i => b.steps[k] = a.steps[k]
        /\ b.furthest = a.furthest /\ b.break = a.break /\ b.evidence = a.evidence
        /\ b.question = a.question /\ b.answer = a.answer
    BY <1>1, <1>3, StepReplaced DEF with, step, a
  <2>2. /\ c \in FormAnswers /\ c.steps = b.steps /\ c.evidence = b.evidence
        /\ b.furthest = step.id => c.furthest = ""
        /\ b.furthest # step.id => c.furthest = b.furthest
        /\ b.break = step.id => c.break = "" /\ c.answer = ""
        /\ b.break # step.id => /\ c.break = b.break /\ c.answer = b.answer
                               /\ c.question = b.question
    <3>1. c = Forget(b, step.id)
      OBVIOUS
    <3> HIDE DEF b, c
    <3> QED BY <2>1, <3>1, Forgotten
  <2> HIDE DEF b, c
  <2>3. ASSUME Agreeing(a, minted) PROVE Agreeing(c, minted)
    <3>1. ASSUME NEW id \in PathIds(a), id # step.id PROVE id \in PathIds(c)
      <4>1. PICK k \in DOMAIN a.steps : a.steps[k].inPath /\ a.steps[k].id = id
        BY DEF PathIds
      <4>2. k # i
        BY <3>1, <4>1 DEF step
      <4>3. k \in DOMAIN c.steps /\ c.steps[k] = a.steps[k]
        BY <2>1, <2>2, <4>1, <4>2
      <4> QED BY <4>1, <4>3 DEF PathIds
    <3>2. c.furthest \in {"", "none"} \cup PathIds(c)
      BY <2>1, <2>2, <2>3, <3>1 DEF Agreeing, Placed
    <3>3. c.break \in {"", "cannot-tell", "completed"} \cup PathIds(c)
      BY <2>1, <2>2, <2>3, <3>1 DEF Agreeing, Placed
    <3>4. c.furthest \in {"", a.furthest} /\ c.break \in {"", a.break} /\ c.evidence = a.evidence
          /\ (c.answer = "" \/ (c.answer = a.answer /\ c.question = a.question /\ c.break = a.break))
      BY <2>1, <2>2
    <3>5. Matches(a, c)
      BY <2>1, <2>2, <3>2, <3>3, <3>4 DEF Matches
    <3> QED BY <1>1, <2>2, <2>3, <3>5, SameSteps
  <2>4. origin = "new" => Agreeing(c, minted')
    BY <1>1, <2>3 DEF AppInv, a
  <2>5. Edit(c)
    BY <1>5 DEF c, b
  <2> QED BY <1>1, <2>2, <2>4, <2>5, EditKeeps
<1>6. ASSUME ~step.inPath, Edit(with(back)) PROVE AppInv'
  <2> DEFINE b == with(back)
  <2>1. /\ b \in FormAnswers /\ DOMAIN b.steps = DOMAIN a.steps
        /\ \A k \in DOMAIN a.steps : /\ b.steps[k].id = a.steps[k].id
                                     /\ b.steps[k].stage = a.steps[k].stage
                                     /\ k # i => b.steps[k] = a.steps[k]
        /\ b.furthest = a.furthest /\ b.break = a.break /\ b.evidence = a.evidence
        /\ b.question = a.question /\ b.answer = a.answer
    BY <1>1, <1>3, StepReplaced DEF with, step, a
  <2> HIDE DEF b
  <2>2. ASSUME Agreeing(a, minted) PROVE Agreeing(b, minted)
    <3>1. ASSUME NEW id \in PathIds(a) PROVE id \in PathIds(b)
      <4>1. PICK k \in DOMAIN a.steps : a.steps[k].inPath /\ a.steps[k].id = id
        BY DEF PathIds
      <4>2. k # i
        BY <1>6, <4>1 DEF step
      <4>3. k \in DOMAIN b.steps /\ b.steps[k] = a.steps[k]
        BY <2>1, <4>1, <4>2
      <4> QED BY <4>1, <4>3 DEF PathIds
    <3>2. b.furthest \in {"", "none"} \cup PathIds(b) /\ b.break \in {"", "cannot-tell", "completed"} \cup PathIds(b)
      BY <2>1, <2>2, <3>1 DEF Agreeing, Placed
    <3>3. Matches(a, b)
      BY <2>1, <3>2 DEF Matches
    <3> QED BY <1>1, <2>1, <2>2, <3>3, SameSteps
  <2>3. origin = "new" => Agreeing(b, minted')
    BY <1>1, <2>2 DEF AppInv, a
  <2>4. Edit(b)
    BY <1>6 DEF b
  <2> QED BY <1>1, <2>1, <2>3, <2>4, EditKeeps
<1>7. ASSUME Edit(with(relabelled)) PROVE AppInv'
  <2> DEFINE b == with(relabelled)
  <2>1. /\ b \in FormAnswers /\ DOMAIN b.steps = DOMAIN a.steps /\ b.steps[i] = relabelled
        /\ \A k \in DOMAIN a.steps : /\ b.steps[k].id = a.steps[k].id
                                     /\ b.steps[k].stage = a.steps[k].stage
                                     /\ k # i => b.steps[k] = a.steps[k]
        /\ b.furthest = a.furthest /\ b.break = a.break /\ b.evidence = a.evidence
        /\ b.question = a.question /\ b.answer = a.answer
    BY <1>1, <1>3, StepReplaced DEF with, step, a
  <2> HIDE DEF b
  <2>2. ASSUME Agreeing(a, minted) PROVE Agreeing(b, minted)
    <3>1. ASSUME NEW id \in PathIds(a) PROVE id \in PathIds(b)
      <4>1. PICK k \in DOMAIN a.steps : a.steps[k].inPath /\ a.steps[k].id = id
        BY DEF PathIds
      <4>2. k \in DOMAIN b.steps /\ b.steps[k].inPath /\ b.steps[k].id = id
        <5>1. CASE k = i
          BY <1>3, <2>1, <4>1, <5>1 DEF step
        <5>2. CASE k # i
          BY <2>1, <4>1, <5>2
        <5> QED BY <5>1, <5>2
      <4> QED BY <4>2 DEF PathIds
    <3>2. b.furthest \in {"", "none"} \cup PathIds(b) /\ b.break \in {"", "cannot-tell", "completed"} \cup PathIds(b)
      BY <2>1, <2>2, <3>1 DEF Agreeing, Placed
    <3>3. Matches(a, b)
      BY <2>1, <3>2 DEF Matches
    <3> QED BY <1>1, <2>1, <2>2, <3>3, SameSteps
  <2>3. origin = "new" => Agreeing(b, minted')
    BY <1>1, <2>2 DEF AppInv, a
  <2>4. Edit(b)
    BY <1>7 DEF b
  <2> QED BY <1>1, <2>1, <2>3, <2>4, EditKeeps
<1> QED BY <1>4, <1>5, <1>6, <1>7

LEMMA AddKeeps ==
  ASSUME AppInv, NEW id \in CustomIds, addJourneyStep(id)
  PROVE  AppInv'
<1> DEFINE a == answers
           new == [id |-> id, stage |-> "S05", inPath |-> TRUE, named |-> TRUE]
           b == [a EXCEPT !.steps = Append(@, new)]
           n == Len(a.steps)
<1>1. a \in FormAnswers /\ minted \subseteq CustomIds /\ id \notin minted /\ minted' = minted \cup {id}
      /\ Edit(b)
  BY DEF AppInv, addJourneyStep
<1>2. new \in StepRecords /\ new.id = id
  BY DEF StepRecords, Stages, StepIds
<1>3. a.steps \in Seq(StepRecords) /\ n \in Nat /\ DOMAIN a.steps = 1..n
  BY <1>1, StepsOf
<1> HIDE DEF new
<1>4. /\ Append(a.steps, new) \in Seq(StepRecords) /\ DOMAIN Append(a.steps, new) = 1..(n + 1)
      /\ \A k \in 1..n : Append(a.steps, new)[k] = a.steps[k]
      /\ Append(a.steps, new)[n + 1] = new
  BY <1>2, <1>3
<1> HIDE DEF a
<1>5. b.steps = Append(a.steps, new)
      /\ b.furthest = a.furthest /\ b.break = a.break /\ b.evidence = a.evidence
      /\ b.question = a.question /\ b.answer = a.answer
  BY <1>1 DEF FormAnswers
<1>6. b \in FormAnswers
  BY <1>1, <1>4 DEF FormAnswers
<1> HIDE DEF b, n
<1>7. ASSUME Agreeing(a, minted) PROVE Agreeing(b, minted')
  <2>1. \A k \in 1..n : a.steps[k].id # id
    BY <1>1, <1>3, <1>7 DEF Agreeing, UsedIds
  <2>2. DOMAIN b.steps = 1..(n + 1) /\ b.steps[n + 1].id = id
        /\ \A k \in 1..n : b.steps[k] = a.steps[k] /\ k \in 1..(n + 1)
    BY <1>2, <1>3, <1>4, <1>5
  <2>3. \A k \in 1..(n + 1) : k = n + 1 \/ k \in 1..n
    BY <1>3
  <2>4. DistinctIds(b)
    BY <1>3, <1>7, <2>1, <2>2, <2>3 DEF DistinctIds, Agreeing
  <2>5. UsedIds(b, minted')
    BY <1>1, <1>3, <1>7, <2>2, <2>3 DEF UsedIds, Agreeing
  <2>6. \A x \in PathIds(a) : x \in PathIds(b) /\ x # id
    BY <1>3, <2>1, <2>2 DEF PathIds
  <2>7. b.furthest # id /\ b.break # id
    <3>1. id \notin {"", "none", "cannot-tell", "completed"}
      <4>1. n + 1 \in DOMAIN b.steps
        BY <1>3, <2>2
      <4> QED BY <1>6, <2>2, <4>1, StepsOf
    <3> QED BY <1>5, <1>7, <2>6, <3>1 DEF Agreeing, Placed
  <2> DEFINE e == [k \in 1..n |-> k]
  <2>8. e \in [1..n -> DOMAIN a.steps] /\ \A k \in 1..n : e[k] = k
    BY <1>3
  <2> HIDE DEF e
  <2>9. CarriesOver(a, b, 1..n, e)
    <3>1. 1..n \in SUBSET (DOMAIN b.steps)
      BY <2>2
    <3>2. \A i, j \in 1..n : i < j => e[i] < e[j]
      BY <2>8
    <3>3. \A i \in 1..n : b.steps[i].id = a.steps[e[i]].id /\ b.steps[i].stage = a.steps[e[i]].stage
      BY <2>2, <2>8
    <3>4. \A i \in DOMAIN b.steps : b.steps[i].id \in {b.furthest, b.break} => i \in 1..n
      BY <2>2, <2>3, <2>7
    <3>5. b.furthest \in {"", "none"} \cup PathIds(b) /\ b.break \in {"", "cannot-tell", "completed"} \cup PathIds(b)
      BY <1>5, <1>7, <2>6 DEF Agreeing, Placed
    <3> QED BY <1>5, <2>8, <3>1, <3>2, <3>3, <3>4, <3>5 DEF CarriesOver
  <2> QED BY <1>1, <1>6, <1>7, <2>4, <2>5, <2>9, PlaceCarriesOver
<1>8. origin = "new" => Agreeing(b, minted')
  BY <1>7 DEF AppInv, a
<1>9. minted' \subseteq CustomIds
  BY <1>1
<1> QED BY <1>1, <1>6, <1>8, <1>9, EditKeeps

LEMMA RemoveKeeps ==
  ASSUME AppInv, NEW id \in CustomIds, removeJourneyStep(id)
  PROVE  AppInv'
<1> DEFINE a == answers
           set == {s \in ToSet(a.steps) : s.id # id}
           left == Among(a.steps, set)
           b == [a EXCEPT !.steps = left]
           c == Forget(b, id)
<1>1. a \in FormAnswers /\ minted' = minted /\ minted \subseteq CustomIds /\ Edit(c)
  BY DEF AppInv, removeJourneyStep
<1>2. a.steps \in Seq(StepRecords) /\ Len(a.steps) \in Nat /\ DOMAIN a.steps = 1..Len(a.steps)
  BY <1>1, StepsOf
<1>3. ToSet(left) = set
  <2>1. ToSet(left) = ToSet(a.steps) \cap set
    BY <1>2, AmongList
  <2> QED BY <2>1
<1>4. left \in Seq(StepRecords) /\ \E e : Embeds(e, left, Len(a.steps), a.steps)
  BY <1>2, AmongInOrder
<1> HIDE DEF left, a
<1>5. b \in FormAnswers
  BY <1>1, <1>4 DEF FormAnswers
<1>6. b.steps = left
      /\ b.furthest = a.furthest /\ b.break = a.break /\ b.evidence = a.evidence
      /\ b.question = a.question /\ b.answer = a.answer
  BY <1>1 DEF FormAnswers
<1> HIDE DEF b
<1>7. /\ c \in FormAnswers /\ c.steps = left /\ c.evidence = a.evidence
      /\ a.furthest = id => c.furthest = ""
      /\ a.furthest # id => c.furthest = a.furthest
      /\ a.break = id => c.break = "" /\ c.answer = ""
      /\ a.break # id => c.break = a.break /\ c.answer = a.answer /\ c.question = a.question
  <2>1. c = Forget(b, id)
    OBVIOUS
  <2> HIDE DEF c
  <2>2. /\ c \in FormAnswers /\ c.steps = b.steps /\ c.evidence = b.evidence
        /\ b.furthest = id => c.furthest = ""
        /\ b.furthest # id => c.furthest = b.furthest
        /\ b.break = id => c.break = "" /\ c.answer = ""
        /\ b.break # id => c.break = b.break /\ c.answer = b.answer /\ c.question = b.question
    BY <1>5, <2>1, Forgotten
  <2> QED BY <1>6, <2>2
<1> HIDE DEF c
<1>8. ASSUME Agreeing(a, minted) PROVE Agreeing(c, minted)
  <2>1. PICK e : Embeds(e, left, Len(a.steps), a.steps)
    BY <1>4
  <2>2. DOMAIN c.steps = 1..Len(left) /\ Len(left) \in Nat
    <3>1. DOMAIN left = 1..Len(left) /\ Len(left) \in Nat
      BY <1>4
    <3> QED BY <1>7, <3>1
  <2>3. ASSUME NEW x \in PathIds(a), x # id PROVE x \in PathIds(c)
    <3>1. PICK k \in DOMAIN a.steps : a.steps[k].inPath /\ a.steps[k].id = x
      BY DEF PathIds
    <3>2. a.steps[k] \in ToSet(left)
      BY <1>3, <2>3, <3>1 DEF ToSet
    <3>3. PICK l \in DOMAIN left : left[l] = a.steps[k]
      BY <3>2 DEF ToSet
    <3> QED BY <1>7, <3>1, <3>3 DEF PathIds
  <2>4. c.furthest \in {"", "none"} \cup PathIds(c)
    BY <1>7, <1>8, <2>3 DEF Agreeing, Placed
  <2>5. c.break \in {"", "cannot-tell", "completed"} \cup PathIds(c)
    BY <1>7, <1>8, <2>3 DEF Agreeing, Placed
  <2>6. CarriesOver(a, c, DOMAIN c.steps, e)
    <3>1. e \in [DOMAIN c.steps -> DOMAIN a.steps]
          /\ \A i, j \in DOMAIN c.steps : i < j => e[i] < e[j]
      BY <1>2, <2>1, <2>2 DEF Embeds
    <3>2. \A i \in DOMAIN c.steps : c.steps[i] = a.steps[e[i]]
      BY <1>7, <2>1, <2>2 DEF Embeds
    <3>3. \A i \in DOMAIN c.steps : c.steps[i].id = a.steps[e[i]].id /\ c.steps[i].stage = a.steps[e[i]].stage
      BY <3>2
    <3>4. c.furthest \in {"", a.furthest} /\ c.break \in {"", a.break} /\ c.evidence = a.evidence
          /\ (c.answer = "" \/ (c.answer = a.answer /\ c.question = a.question /\ c.break = a.break))
      BY <1>7
    <3> QED BY <2>4, <2>5, <3>1, <3>3, <3>4 DEF CarriesOver
  <2> QED BY <1>1, <1>7, <1>8, <2>6, TakenOver
<1>9. origin = "new" => Agreeing(c, minted')
  BY <1>1, <1>8 DEF AppInv, a
<1> QED BY <1>1, <1>7, <1>9, EditKeeps

\* Where the steps of the path stand among all steps.
LEMMA OnPath ==
  ASSUME NEW a \in FormAnswers, NEW e, Embeds(e, ActiveSteps(a), Len(a.steps), a.steps),
         NEW k \in 1..Len(ActiveSteps(a))
  PROVE  /\ e[k] \in DOMAIN a.steps /\ a.steps[e[k]].id = ActiveSteps(a)[k].id
         /\ ActiveSteps(a)[k].id \in PathIds(a)
<1>1. ActiveIds(a) = PathIds(a) /\ ActiveSteps(a) \in Seq(StepRecords)
  BY PathOf
<1>2. ActiveSteps(a)[k].id \in ActiveIds(a)
  BY <1>1 DEF ActiveIds, ToSet
<1> QED BY <1>1, <1>2, StepsOf DEF Embeds

\* A break and the furthest step before it may be chosen.
Chosen(a, furthest, break) ==
  /\ furthest \in {"", "none"} \cup PathIds(a)
  /\ break \in {"", "cannot-tell", "completed"} \cup PathIds(a)
  /\ DistinctIds(a) =>
       \A i, j \in DOMAIN a.steps : a.steps[i].id = furthest /\ a.steps[j].id = break => i < j

LEMMA PlaceKeeps ==
  ASSUME NEW a \in FormAnswers, NEW furthest, NEW break, Chosen(a, furthest, break)
  PROVE  /\ Place(a, furthest, break) \in FormAnswers
         /\ \A used : Agreeing(a, used) => Agreeing(Place(a, furthest, break), used)
<1> DEFINE b == Place(a, furthest, break)
<1>1. b \in FormAnswers
  <2>1. PathIds(a) \subseteq StepIds
    BY StepsOf DEF PathIds
  <2>2. furthest \in {"", "none"} \cup StepIds /\ break \in Breaks
    BY <2>1 DEF Breaks, Chosen
  <2> QED BY <2>2 DEF Place, FormAnswers
<1>2. b.steps = a.steps /\ b.furthest = furthest /\ b.break = break /\ b.evidence = "" /\ b.answer = ""
  BY DEF Place, FormAnswers
<1> HIDE DEF b
<1>3. ASSUME NEW used, Agreeing(a, used) PROVE Agreeing(b, used)
  <2>1. PathIds(b) = PathIds(a)
    BY <1>2 DEF PathIds
  <2>2. Placed(b)
    BY <1>2, <1>3, <2>1 DEF Placed, Chosen, Agreeing
  <2>3. Fits(b) /\ Evidenced(b)
    BY <1>2 DEF Fits, Evidenced
  <2>4. DistinctIds(b) /\ UsedIds(b, used)
    BY <1>2, <1>3 DEF Agreeing, DistinctIds, UsedIds
  <2> QED BY <2>2, <2>3, <2>4 DEF Agreeing
<1> QED BY <1>1, <1>3 DEF b

\* The three answers to where the journey broke.
LEMMA ChoicesAre ==
  ASSUME NEW a \in FormAnswers, NEW path, path = ActiveSteps(a)
  PROVE  /\ \A i \in DOMAIN path : Chosen(a, IF i = 1 THEN "none" ELSE path[i-1].id, path[i].id)
         /\ Chosen(a, "none", "cannot-tell")
         /\ Chosen(a, IF path = <<>> THEN "none" ELSE Last(path).id, "completed")
         /\ Chosen(a, "", "")
<1>1. \A i \in DOMAIN a.steps : a.steps[i].id \notin {"", "none", "cannot-tell", "completed"}
  BY StepsOf
<1>2. path \in Seq(StepRecords) /\ Len(path) \in Nat /\ DOMAIN path = 1..Len(path)
  BY PathOf
<1>3. PICK e : Embeds(e, path, Len(a.steps), a.steps)
  BY PathOf
<1>4. \A k \in 1..Len(path) : /\ e[k] \in DOMAIN a.steps /\ a.steps[e[k]].id = path[k].id
                              /\ path[k].id \in PathIds(a)
  BY <1>3, OnPath
<1>5. ASSUME NEW i \in DOMAIN path
      PROVE  Chosen(a, IF i = 1 THEN "none" ELSE path[i-1].id, path[i].id)
  <2>1. CASE i = 1
    <3>1. path[i].id \in PathIds(a)
      BY <1>2, <1>4
    <3> QED BY <1>1, <2>1, <3>1 DEF Chosen
  <2>2. CASE i # 1
    <3>1. i \in 1..Len(path) /\ i - 1 \in 1..Len(path) /\ i - 1 < i
      BY <1>2, <2>2
    <3>2. e[i - 1] < e[i]
      BY <1>3, <3>1 DEF Embeds
    <3>3. ASSUME DistinctIds(a), NEW x \in DOMAIN a.steps, NEW y \in DOMAIN a.steps,
                 a.steps[x].id = path[i - 1].id, a.steps[y].id = path[i].id
          PROVE  x < y
      <4>1. x = e[i - 1] /\ y = e[i]
        BY <1>4, <3>1, <3>3 DEF DistinctIds
      <4> QED BY <3>2, <4>1
    <3> QED BY <1>4, <2>2, <3>1, <3>3 DEF Chosen
  <2> QED BY <2>1, <2>2
<1>6. Chosen(a, "none", "cannot-tell") /\ Chosen(a, "", "")
  BY <1>1 DEF Chosen
<1>7. Chosen(a, IF path = <<>> THEN "none" ELSE Last(path).id, "completed")
  <2>1. CASE path = <<>>
    BY <1>1, <2>1 DEF Chosen
  <2>2. CASE path # <<>>
    <3>1. Len(path) \in 1..Len(path) /\ Last(path) = path[Len(path)]
      BY <1>2, <2>2 DEF Last
    <3> QED BY <1>1, <1>4, <2>2, <3>1 DEF Chosen
  <2> QED BY <2>1, <2>2
<1> QED BY <1>5, <1>6, <1>7

LEMMA BreakKeeps ==
  ASSUME AppInv, ChooseBreak \/ ChangeBreak
  PROVE  AppInv'
<1>1. answers \in FormAnswers /\ minted' = minted /\ minted' \subseteq CustomIds
      /\ (origin = "new" => Agreeing(answers, minted'))
  BY DEF AppInv, ChooseBreak, ChangeBreak
<1> DEFINE path == ActiveSteps(answers)
<1>2. \E f, b : Chosen(answers, f, b) /\ Edit(Place(answers, f, b))
  <2>1. /\ \A i \in DOMAIN path : Chosen(answers, IF i = 1 THEN "none" ELSE path[i-1].id, path[i].id)
        /\ Chosen(answers, "none", "cannot-tell")
        /\ Chosen(answers, IF path = <<>> THEN "none" ELSE Last(path).id, "completed")
        /\ Chosen(answers, "", "")
    BY <1>1, ChoicesAre
  <2>2. \/ \E i \in DOMAIN path :
             Edit(Place(answers, IF i = 1 THEN "none" ELSE path[i-1].id, path[i].id))
        \/ Edit(Place(answers, "none", "cannot-tell"))
        \/ Edit(Place(answers, IF path = <<>> THEN "none" ELSE Last(path).id, "completed"))
        \/ Edit(Place(answers, "", ""))
    BY DEF ChooseBreak, ChangeBreak
  <2> HIDE DEF path
  <2> QED BY <2>1, <2>2, Zenon
<1>3. PICK f, b : Chosen(answers, f, b) /\ Edit(Place(answers, f, b))
  BY <1>2
<1>4. Place(answers, f, b) \in FormAnswers
      /\ (origin = "new" => Agreeing(Place(answers, f, b), minted'))
  BY <1>1, <1>3, PlaceKeeps
<1> QED BY <1>1, <1>3, <1>4, EditKeeps

\* Answers that differ in what the path does not bear on.
LEMMA AnswersKeep ==
  ASSUME AppInv, NEW b \in FormAnswers, Edit(b), minted' = minted,
         b.steps = answers.steps, b.break = answers.break, b.furthest = answers.furthest,
         origin = "new" => Evidenced(b) /\ Fits(b)
  PROVE  AppInv'
<1>1. minted' \subseteq CustomIds
  BY DEF AppInv
<1>2. origin = "new" => Agreeing(b, minted')
  BY SamePlace DEF AppInv
<1> QED BY <1>1, <1>2, EditKeeps

LEMMA FillInKeeps ==
  ASSUME AppInv, FillIn
  PROVE  AppInv'
<1> DEFINE a == answers
           b == [a EXCEPT ![screen] = ~ @]
<1>1. a \in FormAnswers /\ Edit(b) /\ minted' = minted /\ screen \in {"profile", "developer"}
  BY DEF AppInv, FillIn
<1>2. /\ b \in FormAnswers /\ b.steps = a.steps /\ b.break = a.break /\ b.furthest = a.furthest
      /\ b.evidence = a.evidence /\ b.answer = a.answer /\ b.question = a.question
  <2>1. CASE screen = "profile"
    BY <1>1, <2>1 DEF FormAnswers
  <2>2. CASE screen = "developer"
    BY <1>1, <2>2 DEF FormAnswers
  <2> QED BY <1>1, <2>1, <2>2
<1> HIDE DEF b
<1>3. origin = "new" => Evidenced(b) /\ Fits(b)
  <2>1. Discriminator(b) = Discriminator(a)
    BY <1>2, SameQuestion
  <2> QED BY <1>2, <2>1 DEF AppInv, Agreeing, Evidenced, Fits
<1> QED BY <1>1, <1>2, <1>3, AnswersKeep

LEMMA EvidenceKeeps ==
  ASSUME AppInv, NEW e \in {"", "observed", "assumption"}, ChooseEvidence(e)
  PROVE  AppInv'
<1> DEFINE a == answers
           b == [a EXCEPT !.evidence = e]
<1>1. /\ a \in FormAnswers /\ Edit(b) /\ minted' = minted
      /\ a.break = "completed" => e # "assumption"
  BY DEF AppInv, ChooseEvidence
<1>2. /\ b \in FormAnswers /\ b.steps = a.steps /\ b.break = a.break /\ b.furthest = a.furthest
      /\ b.evidence = e /\ b.answer = a.answer /\ b.question = a.question
  BY <1>1 DEF FormAnswers
<1> HIDE DEF b
<1>3. origin = "new" => Evidenced(b) /\ Fits(b)
  <2>1. Discriminator(b) = Discriminator(a)
    BY <1>2, SameQuestion
  <2> QED BY <1>1, <1>2, <2>1 DEF AppInv, Agreeing, Evidenced, Fits
<1> QED BY <1>1, <1>2, <1>3, AnswersKeep

LEMMA ObservationKeeps ==
  ASSUME AppInv,
         \/ \E option \in {"seen", "unknown", "observe", "none"} : ChooseObservation(option)
         \/ ChangeObservation
  PROVE  AppInv'
<1> DEFINE a == answers
<1>1. a \in FormAnswers /\ Discriminator(a) \in QuestionIds
  BY QuestionsAreNamed DEF AppInv
<1>2. ASSUME NEW option \in {"seen", "unknown", "observe", "none"}, ChooseObservation(option)
      PROVE  AppInv'
  <2> DEFINE b == [a EXCEPT !.question = Discriminator(a), !.answer = option, !.issue = ""]
  <2>1. Edit(b) /\ minted' = minted /\ option \in OptionsOf(Discriminator(a))
    BY <1>2 DEF ChooseObservation
  <2>2. /\ b \in FormAnswers /\ b.steps = a.steps /\ b.break = a.break /\ b.furthest = a.furthest
        /\ b.evidence = a.evidence /\ b.answer = option /\ b.question = Discriminator(a)
    <3>1. option \in {""} \cup OptionsOf("DQ_MEASUREMENT") \cup OptionsOf("DQ_VERIFY")
      BY DEF OptionsOf
    <3> QED BY <1>1, <3>1 DEF FormAnswers
  <2> HIDE DEF b
  <2>3. origin = "new" => Evidenced(b) /\ Fits(b)
    <3>1. Discriminator(b) = Discriminator(a)
      BY <2>2, SameQuestion
    <3> QED BY <2>1, <2>2, <3>1 DEF AppInv, Agreeing, Evidenced, Fits
  <2> QED BY <2>1, <2>2, <2>3, AnswersKeep
<1>3. ASSUME ChangeObservation PROVE AppInv'
  <2> DEFINE b == [a EXCEPT !.answer = "", !.issue = ""]
  <2>1. Edit(b) /\ minted' = minted
    BY <1>3 DEF ChangeObservation
  <2>2. /\ b \in FormAnswers /\ b.steps = a.steps /\ b.break = a.break /\ b.furthest = a.furthest
        /\ b.evidence = a.evidence /\ b.answer = ""
    BY <1>1 DEF FormAnswers
  <2> HIDE DEF b
  <2>3. origin = "new" => Evidenced(b) /\ Fits(b)
    BY <2>2 DEF AppInv, Agreeing, Evidenced, Fits
  <2> QED BY <2>1, <2>2, <2>3, AnswersKeep
<1> QED BY <1>2, <1>3

LEMMA ConcludeKeeps ==
  ASSUME AppInv, NEW issue \in {"", "insufficient", "explained"}, Conclude(issue)
  PROVE  AppInv'
<1> DEFINE a == answers
           b == [a EXCEPT !.issue = issue]
<1>1. a \in FormAnswers /\ Edit(b) /\ minted' = minted
  BY DEF AppInv, Conclude
<1>2. /\ b \in FormAnswers /\ b.steps = a.steps /\ b.break = a.break /\ b.furthest = a.furthest
      /\ b.evidence = a.evidence /\ b.answer = a.answer /\ b.question = a.question
  BY <1>1 DEF FormAnswers
<1> HIDE DEF b
<1>3. origin = "new" => Evidenced(b) /\ Fits(b)
  <2>1. Discriminator(b) = Discriminator(a)
    BY <1>2, SameQuestion
  <2> QED BY <1>2, <2>1 DEF AppInv, Agreeing, Evidenced, Fits
<1> QED BY <1>1, <1>2, <1>3, AnswersKeep

\* The developer's steps get their names; ids, stages and places stay.
LEMMA NamedKeeps ==
  ASSUME NEW a \in FormAnswers
  PROVE  LET b == [a EXCEPT !.steps = [i \in DOMAIN @ |-> Named(@[i])]]
         IN  b \in FormAnswers /\ \A used : Agreeing(a, used) => Agreeing(b, used)
<1> DEFINE steps == [i \in DOMAIN a.steps |-> Named(a.steps[i])]
           b == [a EXCEPT !.steps = steps]
<1>1. a.steps \in Seq(StepRecords) /\ Len(a.steps) \in Nat /\ DOMAIN a.steps = 1..Len(a.steps)
      /\ \A i \in DOMAIN a.steps : a.steps[i] \in StepRecords
  BY StepsOf
<1>2. b = [a EXCEPT !.steps = [i \in DOMAIN @ |-> Named(@[i])]]
  BY DEF FormAnswers
<1>3. ASSUME NEW s \in StepRecords
      PROVE  /\ Named(s) \in StepRecords /\ Named(s).id = s.id
             /\ Named(s).stage = s.stage /\ Named(s).inPath = s.inPath
  BY DEF StepRecords, Named
<1>4. steps \in Seq(StepRecords) /\ DOMAIN steps = DOMAIN a.steps
      /\ \A i \in DOMAIN a.steps : /\ steps[i].id = a.steps[i].id /\ steps[i].stage = a.steps[i].stage
                                     /\ steps[i].inPath = a.steps[i].inPath
  <2>1. \A i \in 1..Len(a.steps) : Named(a.steps[i]) \in StepRecords
    BY <1>1, <1>3
  <2>2. steps \in Seq(StepRecords) /\ DOMAIN steps = DOMAIN a.steps
    BY <1>1, <2>1, IsASeq
  <2>3. \A i \in DOMAIN a.steps : steps[i] = Named(a.steps[i])
    OBVIOUS
  <2> HIDE DEF steps
  <2> QED BY <1>1, <1>3, <2>2, <2>3
<1> HIDE DEF steps
<1>5. /\ b \in FormAnswers /\ b.steps = steps /\ b.break = a.break /\ b.furthest = a.furthest
      /\ b.evidence = a.evidence /\ b.answer = a.answer /\ b.question = a.question
  BY <1>4 DEF FormAnswers
<1> HIDE DEF b
<1>6. ASSUME NEW used, Agreeing(a, used) PROVE Agreeing(b, used)
  <2>1. PathIds(b) = PathIds(a)
    <3>1. \A i \in DOMAIN a.steps : b.steps[i].id = a.steps[i].id /\ b.steps[i].inPath = a.steps[i].inPath
      BY <1>4, <1>5
    <3>2. DOMAIN b.steps = DOMAIN a.steps
      BY <1>4, <1>5
    <3>3. {k \in DOMAIN b.steps : b.steps[k].inPath} = {k \in DOMAIN a.steps : a.steps[k].inPath}
      BY <3>1, <3>2
    <3> QED BY <3>1, <3>3 DEF PathIds
  <2>2. Matches(a, b)
    <3>1. \A i \in DOMAIN b.steps : b.steps[i].id = a.steps[i].id /\ b.steps[i].stage = a.steps[i].stage
      BY <1>4, <1>5
    <3> QED BY <1>4, <1>5, <1>6, <2>1, <3>1 DEF Matches, Agreeing, Placed
  <2> QED BY <1>5, <1>6, <2>2, SameSteps
<1> QED BY <1>2, <1>5, <1>6

LEMMA ContinueKeeps ==
  ASSUME AppInv, continueFromCurrent
  PROVE  AppInv'
<1> DEFINE a == answers
<1>1. a \in FormAnswers /\ (origin = "new" => Agreeing(a, minted))
  BY DEF AppInv
<1>2. ASSUME NEW s \in {"summary", "blocker"},
             goTo(s, [a EXCEPT !.lastStage = LastStage(a), !.evidenceTypes = a.evidence,
                               !.question = Discriminator(a), !.answer = "", !.issue = ""])
      PROVE  AppInv'
  <2> DEFINE b == [a EXCEPT !.lastStage = LastStage(a), !.evidenceTypes = a.evidence,
                            !.question = Discriminator(a), !.answer = "", !.issue = ""]
  <2>1. Discriminator(a) \in QuestionIds /\ LastStage(a) \in LastStages
    BY <1>1, QuestionsAreNamed
  <2>2. /\ b \in FormAnswers /\ b.steps = a.steps /\ b.break = a.break /\ b.furthest = a.furthest
        /\ b.evidence = a.evidence /\ b.answer = ""
    BY <1>1, <2>1 DEF FormAnswers
  <2>3. goTo(s, b)
    BY <1>2
  <2> HIDE DEF b
  <2>4. Agreeing(a, minted) => Agreeing(b, minted)
    <3>1. Fits(b)
      BY <2>2 DEF Fits
    <3>2. Agreeing(a, minted) => Evidenced(b)
      BY <2>2 DEF Agreeing, Evidenced
    <3> QED BY <2>2, <3>1, <3>2, SamePlace
  <2>5. s \in Screens
    BY ScreensAre
  <2> QED BY <1>1, <2>2, <2>3, <2>4, <2>5, MoveKeeps
<1>3. ASSUME goTo("summary", [a EXCEPT !.explanation = a.issue]) PROVE AppInv'
  <2> DEFINE b == [a EXCEPT !.explanation = a.issue]
  <2>1. /\ b \in FormAnswers /\ b.steps = a.steps /\ b.break = a.break /\ b.furthest = a.furthest
        /\ b.evidence = a.evidence /\ b.answer = a.answer /\ b.question = a.question
    BY <1>1 DEF FormAnswers
  <2>2. goTo("summary", b)
    BY <1>3
  <2> HIDE DEF b
  <2>3. Agreeing(a, minted) => Agreeing(b, minted)
    <3>1. Discriminator(b) = Discriminator(a)
      BY <2>1, SameQuestion
    <3>2. Agreeing(a, minted) => Evidenced(b) /\ Fits(b)
      BY <2>1, <3>1 DEF Agreeing, Evidenced, Fits
    <3> QED BY <2>1, <3>2, SamePlace
  <2>4. "summary" \in Screens
    BY ScreensAre
  <2> QED BY <1>1, <2>1, <2>2, <2>3, <2>4, MoveKeeps
<1>4. ASSUME goTo("journey-map", [a EXCEPT !.steps = [i \in DOMAIN @ |-> Named(@[i])]])
      PROVE  AppInv'
  <2> DEFINE b == [a EXCEPT !.steps = [i \in DOMAIN @ |-> Named(@[i])]]
  <2>1. b \in FormAnswers /\ \A used : Agreeing(a, used) => Agreeing(b, used)
    BY <1>1, NamedKeeps
  <2>2. goTo("journey-map", b)
    BY <1>4
  <2> HIDE DEF b
  <2>3. "journey-map" \in Screens
    BY ScreensAre
  <2> QED BY <1>1, <2>1, <2>2, <2>3, MoveKeeps
<1>5. ASSUME screen \in {"profile", "journey-map"}, goTo(nextScreen(screen), a) PROVE AppInv'
  BY <1>1, <1>5, NextScreenIsOne, MoveKeeps
<1> QED BY <1>2, <1>3, <1>4, <1>5 DEF continueFromCurrent

LEMMA MovesKeep ==
  ASSUME AppInv, Start \/ goBack \/ Revise
  PROVE  AppInv'
<1>1. answers \in FormAnswers /\ (origin = "new" => Agreeing(answers, minted))
      /\ history \in Seq(Screens)
  BY DEF AppInv
<1>2. {"profile", "break-point", "journey-map"} \subseteq Screens
  BY ScreensAre
<1>3. ASSUME goBack PROVE AppInv'
  <2>1. history # <<>> /\ Commit(Last(history), Front(history), answers)
        /\ UNCHANGED <<importing, deletion, minted, origin>>
    BY <1>3 DEF goBack, remote
  <2>2. Last(history) \in Screens /\ Front(history) \in Seq(Screens)
    <3>1. Len(history) \in Nat /\ Len(history) # 0
      BY <1>1, <2>1
    <3>2. Last(history) \in Screens
      BY <1>1, <3>1 DEF Last
    <3>3. Front(history) \in Seq(Screens)
      <4>1. \A i \in 1..(Len(history) - 1) : history[i] \in Screens
        BY <1>1, <3>1
      <4> QED BY <1>1, <3>1, <4>1 DEF Front
    <3> QED BY <3>2, <3>3
  <2> QED BY <1>1, <2>1, <2>2, CommitKeeps DEF AppInv
<1>4. ASSUME Start \/ Revise PROVE AppInv'
  <2>1. \E s \in {"profile", "break-point", "journey-map"} : goTo(s, answers)
    BY <1>4 DEF Start, Revise
  <2> QED BY <1>1, <1>2, <2>1, MoveKeeps
<1> QED BY <1>3, <1>4

LEMMA ReopenKeeps ==
  ASSUME AppInv, Resume \/ AcceptImport
  PROVE  AppInv'
<1>1. ASSUME Resume PROVE AppInv'
  <2> DEFINE s == normalizeScreen(saved.screen)
             h == normalizeHistory(saved.history)
             a == migrateAnswers(saved.answers)
  <2>1. /\ saved # NoMap /\ Commit(s, h, a) /\ origin' \in {"resumed", "older"}
        /\ UNCHANGED <<importing, deletion, minted>>
    BY <1>1 DEF Resume, remote
  <2>2. s \in Screens
    BY ScreensAre DEF normalizeScreen
  <2>3. h \in Seq(Screens) /\ a \in FormAnswers
    <3>1. CASE saved \in OlderMaps
      BY <3>1, CopiesAreKnown, HistoryIsNormal
    <3>2. CASE saved \notin OlderMaps
      <4>1. saved.answers \in FormAnswers /\ saved.history \in Seq(Screens)
        BY <2>1, <3>2 DEF AppInv
      <4> QED BY <4>1, HistoryIsNormal, MigratedIsTyped
    <3> QED BY <3>1, <3>2
  <2> HIDE DEF s, h, a
  <2> QED BY <2>1, <2>2, <2>3, CommitKeeps DEF AppInv
<1>2. ASSUME AcceptImport PROVE AppInv'
  <2> DEFINE a == migrateAnswers(importing)
  <2>1. /\ importing # NoCase /\ Commit("summary", <<>>, a) /\ origin' = "resumed"
        /\ importing' = NoCase /\ deletion' = deletion /\ minted' \subseteq CustomIds
    BY <1>2 DEF AcceptImport, AppInv
  <2>2. a \in FormAnswers
    BY <2>1, CopiesAreKnown DEF AppInv
  <2>3. "summary" \in Screens /\ <<>> \in Seq(Screens)
    BY ScreensAre
  <2> HIDE DEF a
  <2> QED BY <2>1, <2>2, <2>3, CommitKeeps
<1> QED BY <1>1, <1>2

LEMMA OthersKeep ==
  ASSUME AppInv,
         \/ CancelImport \/ (\E case \in PortableCases : PreviewImport(case))
         \/ ConfirmReset \/ DeletionArrives \/ DeletionConfirmed \/ DeletionFails \/ Reload
         \/ UNCHANGED appVars
  PROVE  AppInv'
<1>1. ASSUME UNCHANGED <<screen, history, answers, saved, minted, origin>>,
             importing' \in {NoCase} \cup PortableCases, deletion' \in {"none", "sent", "gone"}
      PROVE  AppInv'
  BY <1>1 DEF AppInv, SavedIsShown
<1>2. ASSUME Blank, origin' = "new", saved' \in {NoMap, saved}, minted' = minted,
             importing' \in {NoCase} \cup PortableCases, deletion' \in {"none", "sent", "gone"}
      PROVE  AppInv'
  <2>1. screen' = "welcome" /\ history' = <<>> /\ answers' = emptyAnswers
    BY <1>2 DEF Blank
  <2>2. "welcome" \in Screens /\ <<>> \in Seq(Screens)
    BY ScreensAre
  <2>3. emptyAnswers \in FormAnswers /\ Agreeing(emptyAnswers, minted')
    BY EmptyAgrees
  <2>4. SavedIsShown'
    BY <2>1 DEF SavedIsShown
  <2>5. \/ saved' \in {NoMap} \cup OlderMaps
        \/ saved'.answers \in FormAnswers /\ saved'.history \in Seq(Screens)
    BY <1>2 DEF AppInv
  <2> QED BY <1>2, <2>1, <2>2, <2>3, <2>4, <2>5 DEF AppInv
<1>3. importing \in {NoCase} \cup PortableCases /\ deletion \in {"none", "sent", "gone"}
  BY DEF AppInv
<1>4. ASSUME CancelImport \/ \E case \in PortableCases : PreviewImport(case) PROVE AppInv'
  BY <1>1, <1>3, <1>4 DEF CancelImport, PreviewImport, form
<1>5. ASSUME ConfirmReset PROVE AppInv'
  BY <1>1, <1>2, <1>3, <1>5 DEF ConfirmReset, Erase, form
<1>6. ASSUME DeletionArrives \/ DeletionFails PROVE AppInv'
  BY <1>1, <1>3, <1>6 DEF DeletionArrives, DeletionFails, form
<1>7. ASSUME DeletionConfirmed PROVE AppInv'
  BY <1>2, <1>3, <1>7 DEF DeletionConfirmed, Erase
<1>8. ASSUME Reload PROVE AppInv'
  BY <1>2, <1>8 DEF Reload
<1>9. ASSUME UNCHANGED appVars PROVE AppInv'
  BY <1>1, <1>3, <1>9 DEF appVars
<1> QED BY <1>4, <1>5, <1>6, <1>7, <1>8, <1>9

LEMMA AppInvInvariant == AppSpec => []AppInv
<1>1. AppInit => AppInv
  <2> SUFFICES ASSUME AppInit PROVE AppInv
    OBVIOUS
  <2>1. /\ screen = "welcome" /\ history = <<>> /\ answers = emptyAnswers
        /\ saved \in {NoMap} \cup OlderMaps /\ importing = NoCase /\ deletion = "none"
        /\ minted = {} /\ origin = "new"
    BY DEF AppInit
  <2>2. "welcome" \in Screens /\ <<>> \in Seq(Screens)
    BY ScreensAre
  <2>3. SavedIsShown
    BY <2>1 DEF SavedIsShown
  <2> QED BY <2>1, <2>2, <2>3, EmptyAgrees DEF AppInv
<1>2. AppInv /\ [AppNext]_appVars => AppInv'
  <2> SUFFICES ASSUME AppInv, [AppNext]_appVars PROVE AppInv'
    OBVIOUS
  <2>1. CASE Step
    BY <2>1, MovesKeep, ReopenKeeps, OthersKeep, FillInKeeps, BreakKeeps, ObservationKeeps,
       UpdateKeeps, AddKeeps, RemoveKeeps, EvidenceKeeps, ConcludeKeeps, ContinueKeeps DEF Step
  <2>2. CASE ~ Step
    BY <2>2, OthersKeep DEF AppNext
  <2> QED BY <2>1, <2>2
<1> QED BY <1>1, <1>2, PTL DEF AppSpec

\* What the invariant says of the map that is shown.
LEMMA AppInvAgrees ==
  ASSUME AppInv
  PROVE  JourneyAgrees
<1> DEFINE a == answers
<1>1. a \in FormAnswers /\ (origin = "new" => Agreeing(a, minted)) /\ SavedIsShown
  BY DEF AppInv
<1>2. ActiveIds(a) = PathIds(a)
  BY <1>1, PathOf
<1>3. FormTypeOK
  BY DEF AppInv, FormTypeOK
<1>4. BreakInJourney
  BY <1>1, <1>2 DEF BreakInJourney, Agreeing, Placed
<1>5. AnswerFitsBreak
  BY <1>1 DEF AnswerFitsBreak, Agreeing, Fits
<1>6. CompletionIsEvidenced
  BY <1>1 DEF CompletionIsEvidenced, Agreeing, Evidenced
<1>7. ReachedLiesBeforeBreak
  <2> SUFFICES ASSUME origin = "new", a.break \in ActiveIds(a), NEW step \in ToSet(ActiveSteps(a)),
                      IndexOf(a, step.id) >= IndexOf(a, a.break)
      PROVE journeyStatus(a, step) # "Reached"
    BY DEF ReachedLiesBeforeBreak
  <2>1. a.break \in PathIds(a) /\ step.inPath /\ step.id \in PathIds(a) /\ Agreeing(a, minted)
    BY <1>1, <1>2, PathOf DEF ActiveIds
  <2>2. a.break # "completed"
    BY <1>1, <2>1, StepsOf DEF PathIds
  <2>3. a.furthest # "none" => IndexOf(a, a.furthest) < IndexOf(a, step.id)
    <3>1. IndexOf(a, a.break) \in 1..Len(ActiveSteps(a)) /\ IndexOf(a, step.id) \in 1..Len(ActiveSteps(a))
          /\ Len(ActiveSteps(a)) \in Nat
      BY <1>1, <2>1, IndexOnPath, PathOf DEF Agreeing
    <3>2. CASE a.furthest \in PathIds(a)
      <4>1. PICK i \in DOMAIN a.steps : a.steps[i].inPath /\ a.steps[i].id = a.furthest
        BY <3>2 DEF PathIds
      <4>2. PICK j \in DOMAIN a.steps : a.steps[j].inPath /\ a.steps[j].id = a.break
        BY <2>1 DEF PathIds
      <4>3. i < j
        BY <2>1, <4>1, <4>2 DEF Agreeing, Placed
      <4>4. IndexOf(a, a.furthest) < IndexOf(a, a.break)
        BY <1>1, <2>1, <4>1, <4>2, <4>3, PathKeepsOrder DEF Agreeing
      <4>5. IndexOf(a, a.furthest) \in 1..Len(ActiveSteps(a))
        BY <1>1, <2>1, <3>2, IndexOnPath DEF Agreeing
      <4> QED BY <3>1, <4>4, <4>5
    <3>3. CASE a.furthest \notin PathIds(a)
      <4>1. IndexOf(a, a.furthest) = 0
        BY <1>1, <2>1, <3>3, IndexOnPath DEF Agreeing
      <4> QED BY <3>1, <4>1
    <3> QED BY <3>2, <3>3
  <2>4. IndexOf(a, step.id) \in Nat /\ (a.furthest # "none" => IndexOf(a, a.furthest) \in Nat)
    <3>1. \A id : IndexOf(a, id) \in Nat
      BY <1>1, <2>1, IndexOnPath, PathOf DEF Agreeing
    <3> QED BY <3>1
  <2> QED BY <2>1, <2>2, <2>3, <2>4 DEF journeyStatus
<1> QED BY <1>1, <1>3, <1>4, <1>5, <1>6, <1>7 DEF JourneyAgrees

(* In every map that is worked through, break, furthest step, path,        *)
(* question and observation agree, and first success is not confirmed by   *)
(* an assumption; every copy, also an older or an imported one, has        *)
(* answers that can be shown; and what is shown is what is saved           *)
(* (App.tsx).                                                              *)
THEOREM FormAgrees == AppSpec => []JourneyAgrees
BY AppInvInvariant, AppInvAgrees, PTL

\* A deletion that arrived leaves no session at the server, and without a
\* credential there is none.
ServerFirst ==
  /\ deletion = "gone" => server = "gone"
  /\ ~ credential => server = "gone"

\* What a handler of the form does to the local copy and the older session.
KeepsCopy ==
  /\ saved' = saved \/ saved' # NoMap
  /\ deletion' = deletion /\ credential' = credential /\ server' = server

\* Entering a screen leaves the local copy or saves another one.
LEMMA CommitSaves ==
  ASSUME NEW s, NEW h, NEW a, Commit(s, h, a)
  PROVE  saved' = saved \/ saved' # NoMap
<1>1. CASE s = "welcome"
  BY <1>1 DEF Commit
<1>2. CASE s # "welcome"
  <2>1. saved' = [screen |-> s, history |-> h, answers |-> Settle(s, a), origin |-> origin']
    BY <1>2 DEF Commit
  <2>2. saved'.screen # NoMap.screen
    BY <1>2, <2>1 DEF NoMap
  <2> QED BY <2>2
<1> QED BY <1>1, <1>2

\* So does every handler that edits the answers or moves on.
LEMMA EditSaves == ASSUME NEW a, Edit(a) PROVE KeepsCopy
BY CommitSaves DEF Edit, remote, KeepsCopy

LEMMA MoveSaves == ASSUME NEW s, NEW a, goTo(s, a) PROVE KeepsCopy
BY CommitSaves DEF goTo, remote, KeepsCopy

\* None of the handlers but those of the reset touches the older session.
LEMMA StepKeepsCopy == Step => KeepsCopy
<1> SUFFICES ASSUME Step PROVE KeepsCopy
  OBVIOUS
<1>1. CASE Start
  BY <1>1, MoveSaves DEF Start
<1>2. CASE Resume
  BY <1>2, CommitSaves DEF Resume, remote, KeepsCopy
<1>3. CASE CancelImport
  BY <1>3 DEF CancelImport, KeepsCopy
<1>4. CASE AcceptImport
  BY <1>4, CommitSaves DEF AcceptImport, KeepsCopy
<1>5. ASSUME NEW portable \in PortableCases, PreviewImport(portable) PROVE KeepsCopy
  BY <1>5 DEF PreviewImport, KeepsCopy
<1>6. CASE FillIn \/ ChooseBreak \/ ChangeBreak \/ ChangeObservation
  BY <1>6, EditSaves DEF FillIn, ChooseBreak, ChangeBreak, ChangeObservation
<1>7. ASSUME NEW i, updateJourneyStep(i) PROVE KeepsCopy
  BY <1>7, EditSaves DEF updateJourneyStep
<1>8. ASSUME NEW id, addJourneyStep(id) \/ removeJourneyStep(id) PROVE KeepsCopy
  BY <1>8, EditSaves DEF addJourneyStep, removeJourneyStep
<1>9. ASSUME NEW e, ChooseEvidence(e) \/ ChooseObservation(e) \/ Conclude(e) PROVE KeepsCopy
  BY <1>9, EditSaves DEF ChooseEvidence, ChooseObservation, Conclude
<1>10. CASE continueFromCurrent
  <2>1. CASE screen = "break-point"
    BY <1>10, <2>1, MoveSaves DEF continueFromCurrent
  <2>2. CASE screen # "break-point"
    <3>1. PICK s, a : goTo(s, a)
      BY <1>10, <2>2 DEF continueFromCurrent
    <3> QED BY <3>1, MoveSaves
  <2> QED BY <2>1, <2>2
<1>11. CASE goBack
  BY <1>11, CommitSaves DEF goBack, remote, KeepsCopy
<1>12. CASE Revise
  BY <1>12, MoveSaves DEF Revise
<1> QED BY <1>1, <1>2, <1>3, <1>4, <1>5, <1>6, <1>7, <1>8, <1>9, <1>10, <1>11, <1>12 DEF Step

\* A local copy is erased, and the credential of an older session given up,
\* only when no such session is left at the server, whatever reply is lost and
\* whenever the page is reloaded (App.tsx, reset and clearAll).
THEOREM CopyGoesLast == AppSpec => LocalCopyGoesLast
<1> DEFINE Goes == /\ saved # NoMap /\ saved' = NoMap => server' = "gone"
                   /\ credential /\ ~credential' => server' = "gone"
<1>1. AppInit => ServerFirst
  BY DEF AppInit, ServerFirst
<1>2. ServerFirst /\ [AppNext]_appVars => ServerFirst' /\ [Goes]_appVars
  <2> SUFFICES ASSUME ServerFirst, [AppNext]_appVars
               PROVE  ServerFirst' /\ (Goes \/ UNCHANGED appVars)
    OBVIOUS
  <2>1. CASE Step
    BY <2>1, StepKeepsCopy DEF KeepsCopy, ServerFirst
  <2>2. CASE ConfirmReset
    BY <2>2 DEF ConfirmReset, Erase, ServerFirst
  <2>3. CASE DeletionArrives
    BY <2>3 DEF DeletionArrives, ServerFirst
  <2>4. CASE DeletionConfirmed
    BY <2>4 DEF DeletionConfirmed, ServerFirst
  <2>5. CASE DeletionFails
    BY <2>5 DEF DeletionFails, ServerFirst
  <2>6. CASE Reload
    BY <2>6 DEF Reload, ServerFirst
  <2>7. CASE UNCHANGED appVars
    BY <2>7 DEF appVars, ServerFirst
  <2> QED BY <2>1, <2>2, <2>3, <2>4, <2>5, <2>6, <2>7 DEF AppNext
<1> QED BY <1>1, <1>2, PTL DEF AppSpec, LocalCopyGoesLast

===============================================================================
