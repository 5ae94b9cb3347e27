--------------------------- MODULE MenuUI_proofs ---------------------------
(* Proofs about MenuUI for any number of computers, any taps and any length  *)
(* of a behaviour: no bound of the model is used.                            *)
EXTENDS MenuUI, FiniteSetTheorems, TLAPS

(* The order of lists.  R is a strict total order of S.                      *)
Orders(R, S) ==
  /\ \A x \in S : <<x, x>> \notin R
  /\ \A x, y \in S : x # y => <<x, y>> \in R \/ <<y, x>> \in R
  /\ \A x, y, z \in S : <<x, y>> \in R /\ <<y, z>> \in R => <<x, z>> \in R

(* The place of an element is one more than the number of those before it.   *)
LEMMA Place ==
  ASSUME NEW S, IsFiniteSet(S), NEW R, Orders(R, S)
  PROVE  \E f \in Bijection(S, 1..Cardinality(S)) :
           \A x, y \in S : <<x, y>> \in R => f[x] < f[y]
  <1> DEFINE Pred(x) == {y \in S : <<y, x>> \in R}
             n == Cardinality(S)
             f == [x \in S |-> Cardinality(Pred(x)) + 1]
  <1>1. n \in Nat
    BY FS_CardinalityType
  <1>2. ASSUME NEW x \in S
        PROVE  /\ IsFiniteSet(Pred(x)) /\ Cardinality(Pred(x)) \in Nat
               /\ Cardinality(Pred(x)) < n
    <2>1. Pred(x) \in SUBSET S /\ Pred(x) # S
      BY DEF Orders
    <2>2. IsFiniteSet(Pred(x)) /\ Cardinality(Pred(x)) <= n
          /\ Cardinality(Pred(x)) # n
      BY <2>1, FS_Subset
    <2>3. Cardinality(Pred(x)) \in Nat
      BY <2>2, FS_CardinalityType
    <2> HIDE DEF Pred, n
    <2> QED BY <1>1, <2>2, <2>3
  <1>3. ASSUME NEW x \in S, NEW y \in S, <<x, y>> \in R
        PROVE  Cardinality(Pred(x)) < Cardinality(Pred(y))
    <2>1. Pred(x) \in SUBSET Pred(y) /\ Pred(x) # Pred(y)
      BY <1>3 DEF Orders
    <2>2. IsFiniteSet(Pred(y))
      BY <1>2
    <2> HIDE DEF Pred
    <2>3. /\ Cardinality(Pred(x)) <= Cardinality(Pred(y))
          /\ Cardinality(Pred(x)) # Cardinality(Pred(y))
      BY <2>1, <2>2, FS_Subset
    <2>4. Cardinality(Pred(x)) \in Nat /\ Cardinality(Pred(y)) \in Nat
      BY <1>2
    <2> QED BY <2>3, <2>4
  <1> HIDE DEF Pred, n
  <1>4. f \in [S -> 1..n] /\ \A x, y \in S : <<x, y>> \in R => f[x] < f[y]
    <2>1. \A x \in S : f[x] = Cardinality(Pred(x)) + 1
      OBVIOUS
    <2>2. ASSUME NEW x \in S PROVE f[x] \in 1..n
      BY <1>1, <1>2, <2>1
    <2>3. ASSUME NEW x \in S, NEW y \in S, <<x, y>> \in R PROVE f[x] < f[y]
      <3>1. Cardinality(Pred(x)) \in Nat /\ Cardinality(Pred(y)) \in Nat
        BY <1>2
      <3> QED BY <1>3, <2>1, <2>3, <3>1
    <2>4. f \in [S -> 1..n]
      BY <2>2
    <2> QED BY <2>3, <2>4
  <1>5. \A x \in S : f[x] \in Nat
    BY <1>2
  <1> HIDE DEF f
  <1>6. ASSUME NEW x \in S, NEW y \in S, f[x] = f[y], x # y PROVE FALSE
    <2>1. f[x] < f[y] \/ f[y] < f[x]
      BY <1>4, <1>6 DEF Orders
    <2> QED BY <1>5, <1>6, <2>1
  <1>7. f \in Injection(S, 1..n)
    BY <1>4, <1>6 DEF Injection, IsInjective
  <1>8. IsFiniteSet(1..n) /\ Cardinality(1..n) = n
    BY <1>1, FS_Interval
  <1>9. f \in Surjection(S, 1..n)
    BY <1>7, <1>8, FS_Injection DEF n
  <1> QED BY <1>4, <1>7, <1>9 DEF Bijection, n

(* A finite set has its members in that order, each once.                    *)
LEMMA InOrder ==
  ASSUME NEW S, IsFiniteSet(S), NEW R, Orders(R, S)
  PROVE  \E s \in SetToSeqs(S) :
           \A i, j \in DOMAIN s : i < j => <<s[i], s[j]>> \in R
  <1> DEFINE D == 1..Cardinality(S)
  <1>1. PICK f \in Bijection(S, D) : \A x, y \in S : <<x, y>> \in R => f[x] < f[y]
    BY Place
  <1>2. /\ f \in [S -> D] /\ \A d \in D : \E x \in S : f[x] = d
    BY <1>1 DEF Bijection, Injection, Surjection
  <1>3. Cardinality(S) \in Nat
    BY FS_CardinalityType
  <1> DEFINE s == [d \in D |-> CHOOSE x \in S : f[x] = d]
  <1>4. \A d \in D : s[d] \in S /\ f[s[d]] = d
    BY <1>2
  <1>5. DOMAIN s = D /\ s \in [D -> S]
    BY <1>4
  <1> HIDE DEF s
  <1>6. s \in SetToSeqs(S)
    BY <1>4, <1>5 DEF SetToSeqs
  <1>7. ASSUME NEW i \in D, NEW j \in D, i < j PROVE <<s[i], s[j]>> \in R
    <2>1. s[i] # s[j] /\ s[i] \in S /\ s[j] \in S
      BY <1>3, <1>4, <1>7
    <2>2. <<s[j], s[i]>> \in R => j < i
      BY <1>1, <1>4, <2>1
    <2>3. i \in Nat /\ j \in Nat
      BY <1>3
    <2> QED BY <1>7, <2>1, <2>2, <2>3 DEF Orders
  <1> QED BY <1>5, <1>6, <1>7

LEMMA Listed ==
  ASSUME NEW S, IsFiniteSet(S), NEW s \in SetToSeqs(S)
  PROVE  /\ s \in Seq(S) /\ {s[i] : i \in DOMAIN s} = S
         /\ \A i, j \in DOMAIN s : s[i] = s[j] => i = j
  <1> DEFINE n == Cardinality(S)
  <1>1. n \in Nat
    BY FS_CardinalityType
  <1>2. s \in [1..n -> S] /\ \A i, j \in 1..n : i # j => s[i] # s[j]
    BY DEF SetToSeqs
  <1>3. s \in Injection(1..n, S)
    BY <1>2 DEF Injection, IsInjective
  <1>4. Cardinality(1..n) = n
    BY <1>1, FS_Interval
  <1>5. s \in Surjection(1..n, S)
    BY <1>3, <1>4, FS_Injection
  <1>6. \A x \in S : \E i \in 1..n : s[i] = x
    BY <1>5 DEF Surjection
  <1> QED BY <1>1, <1>2, <1>6

----------------------------------------------------------------------------
(* The order of the computers' names, and of the hosts of a list.            *)

LEMMA MacsFinite == IsFiniteSet(Macs)
  <1> DEFINE n == Len(Names)
  <1>1. n \in Nat /\ Names \in [1..n -> Macs] /\ DOMAIN Names = 1..n
    BY MenuAssumption
  <1>2. \A m \in Macs : \E i \in 1..n : Names[i] = m
    BY <1>1 DEF Macs, ToSet
  <1>3. Names \in Surjection(1..n, Macs)
    BY <1>1, <1>2 DEF Surjection
  <1>4. IsFiniteSet(1..n)
    BY <1>1, FS_Interval
  <1> QED BY <1>3, <1>4, FS_Surjection

LEMMA NamesOrder ==
  /\ \A m \in Macs : ~Before(m, m)
  /\ \A m, k \in Macs : m # k => Before(m, k) \/ Before(k, m)
  /\ \A m, k, l \in Macs : Before(m, k) /\ Before(k, l) => Before(m, l)
  <1>1. DOMAIN Names \subseteq Nat
    BY MenuAssumption
  <1>2. \A i, j \in DOMAIN Names : Names[i] = Names[j] => i = j
    BY MenuAssumption DEF IsInjective
  <1>3. \A m \in Macs : \E i \in DOMAIN Names : Names[i] = m
    BY DEF Macs, ToSet
  <1>4. \A m \in Macs : ~Before(m, m)
    BY <1>1, <1>2 DEF Before
  <1>5. ASSUME NEW m \in Macs, NEW k \in Macs, m # k
        PROVE  Before(m, k) \/ Before(k, m)
    <2>1. PICK i \in DOMAIN Names : Names[i] = m
      BY <1>3
    <2>2. PICK j \in DOMAIN Names : Names[j] = k
      BY <1>3
    <2>3. i < j \/ j < i
      BY <1>1, <1>5, <2>1, <2>2
    <2> QED BY <2>1, <2>2, <2>3 DEF Before
  <1>6. ASSUME NEW m \in Macs, NEW k \in Macs, NEW l \in Macs,
               Before(m, k), Before(k, l)
        PROVE  Before(m, l)
    <2>1. PICK i, j \in DOMAIN Names : i < j /\ Names[i] = m /\ Names[j] = k
      BY <1>6 DEF Before
    <2>2. PICK g, h \in DOMAIN Names : g < h /\ Names[g] = k /\ Names[h] = l
      BY <1>6 DEF Before
    <2>3. i < h
      BY <1>1, <1>2, <2>1, <2>2
    <2> QED BY <2>1, <2>2, <2>3 DEF Before
  <1> QED BY <1>4, <1>5, <1>6

(* Connected hosts come before live ones, these before the others, and       *)
(* hosts of a rank in the order of their names.                              *)
HostSet(answer, liveMacs) == {Host(m, answer, liveMacs) : m \in answer.paired}

LEMMA HostTypes ==
  ASSUME NEW answer \in Snapshots, NEW liveMacs
  PROVE  /\ HostSet(answer, liveMacs) \subseteq HostStates
         /\ IsFiniteSet(HostSet(answer, liveMacs))
         /\ \A g, h \in HostSet(answer, liveMacs) : g.mac = h.mac => g = h
  <1> DEFINE S == HostSet(answer, liveMacs)
             f == [m \in answer.paired |-> Host(m, answer, liveMacs)]
  <1>1. answer.paired \subseteq Macs
    BY DEF Snapshots
  <1>2. \A m \in answer.paired : Host(m, answer, liveMacs).mac = m
    BY DEF Host
  <1>3. \A m \in Macs : Host(m, answer, liveMacs) \in HostStates
    BY DEF Host, HostStates
  <1>4. IsFiniteSet(answer.paired)
    BY <1>1, MacsFinite, FS_Subset
  <1>5. f \in Surjection(answer.paired, S)
    BY DEF Surjection, HostSet
  <1>6. IsFiniteSet(S)
    BY <1>4, <1>5, FS_Surjection
  <1> QED BY <1>1, <1>2, <1>3, <1>6 DEF HostSet

LEMMA RankType ==
  ASSUME NEW h PROVE Rank(h) \in {0, 1, 2}
  BY DEF Rank

LEMMA HostsOrder ==
  ASSUME NEW answer \in Snapshots, NEW liveMacs
  PROVE  Orders({p \in HostStates \X HostStates : HostBefore(p[1], p[2])},
                HostSet(answer, liveMacs))
  <1> DEFINE S == HostSet(answer, liveMacs)
             R == {p \in HostStates \X HostStates : HostBefore(p[1], p[2])}
  <1>1. S \subseteq HostStates /\ \A g, h \in S : g.mac = h.mac => g = h
    BY HostTypes
  <1>2. \A h \in S : h.mac \in Macs
    BY <1>1 DEF HostStates
  <1> HIDE DEF S
  <1>3. \A g, h \in S : <<g, h>> \in R <=> HostBefore(g, h)
    BY <1>1
  <1>4. ASSUME NEW h \in S PROVE ~HostBefore(h, h)
    BY <1>2, NamesOrder, RankType DEF HostBefore
  <1>5. ASSUME NEW g \in S, NEW h \in S, g # h
        PROVE  HostBefore(g, h) \/ HostBefore(h, g)
    <2>1. Before(g.mac, h.mac) \/ Before(h.mac, g.mac)
      BY <1>1, <1>2, <1>5, NamesOrder
    <2> QED BY <2>1, RankType DEF HostBefore
  <1>6. ASSUME NEW f \in S, NEW g \in S, NEW h \in S,
               HostBefore(f, g), HostBefore(g, h)
        PROVE  HostBefore(f, h)
    <2>1. Before(f.mac, g.mac) /\ Before(g.mac, h.mac) => Before(f.mac, h.mac)
      BY <1>2, NamesOrder
    <2>2. Rank(f) \in Nat /\ Rank(g) \in Nat /\ Rank(h) \in Nat
      BY RankType
    <2> QED BY <1>6, <2>1, <2>2 DEF HostBefore
  <1> HIDE DEF R
  <1> QED BY <1>3, <1>4, <1>5, <1>6 DEF Orders, S, R

(* build_host_state() lists every paired host once: the connected ones       *)
(* first, then those seen live, then the others, and by name among equals.   *)
THEOREM HostListOrdered ==
  ASSUME NEW answer \in Snapshots, NEW liveMacs
  PROVE  /\ HostList(answer, liveMacs) \in Seq(HostStates)
         /\ ToSet(HostList(answer, liveMacs)) = HostSet(answer, liveMacs)
         /\ \A i, j \in DOMAIN HostList(answer, liveMacs) :
              i < j => HostBefore(HostList(answer, liveMacs)[i],
                                  HostList(answer, liveMacs)[j])
         /\ IsInjective(HostList(answer, liveMacs))
  <1> DEFINE S == HostSet(answer, liveMacs)
             l == HostList(answer, liveMacs)
  <1>1. S \subseteq HostStates /\ IsFiniteSet(S)
    BY HostTypes
  <1> DEFINE R == {p \in HostStates \X HostStates : HostBefore(p[1], p[2])}
  <1>2. PICK s \in SetToSeqs(S) : \A i, j \in DOMAIN s : i < j => <<s[i], s[j]>> \in R
    BY <1>1, HostsOrder, InOrder
  <1>3. \A i, j \in DOMAIN s : i < j => HostBefore(s[i], s[j])
    BY <1>2
  <1>4. l \in SetToSeqs(S) /\ \A i, j \in DOMAIN l : i < j => HostBefore(l[i], l[j])
    BY <1>2, <1>3 DEF HostList, Sorted, HostSet
  <1>5. l \in Seq(S) /\ {l[i] : i \in DOMAIN l} = S
        /\ \A i, j \in DOMAIN l : l[i] = l[j] => i = j
    BY <1>1, <1>4, Listed
  <1> HIDE DEF S, l
  <1>6. l \in Seq(HostStates)
    BY <1>1, <1>5
  <1> QED BY <1>4, <1>5, <1>6 DEF ToSet, IsInjective, S, l

(* scan_devices() lists what it found by name.                               *)
LEMMA ResultsOrdered ==
  ASSUME NEW S \in SUBSET Macs
  PROVE  ByName(S) \in Seq(Macs)
  <1> DEFINE R == {p \in Macs \X Macs : Before(p[1], p[2])}
  <1>1. IsFiniteSet(S)
    BY MacsFinite, FS_Subset
  <1>2. \A m, k \in S : <<m, k>> \in R <=> Before(m, k)
    OBVIOUS
  <1> HIDE DEF R
  <1>3. Orders(R, S)
    BY <1>2, NamesOrder DEF Orders
  <1>4. PICK s \in SetToSeqs(S) : \A i, j \in DOMAIN s : i < j => <<s[i], s[j]>> \in R
    BY <1>1, <1>3, InOrder
  <1>5. \A i, j \in DOMAIN s : i < j => Before(s[i], s[j])
    BY <1>4 DEF R
  <1>6. ByName(S) \in SetToSeqs(S)
    BY <1>4, <1>5 DEF ByName, Sorted
  <1>7. ByName(S) \in Seq(S)
    BY <1>1, <1>6, Listed
  <1> QED BY <1>7

----------------------------------------------------------------------------
(* Where a tap lands.                                                        *)

(* Two items of height h in a column, with a gap, are apart.                 *)
LEMMA Apart ==
  ASSUME NEW i \in Int, NEW j \in Int, i < j, NEW h \in Nat, NEW gap \in Nat \ {0},
         NEW top \in Int, NEW y \in Int
  PROVE  ~(/\ y <= top + i * (h + gap) + h
           /\ top + j * (h + gap) <= y)
  <1> DEFINE p == h + gap
  <1>1. p \in Nat /\ j - i \in Nat /\ j - i >= 1
    OBVIOUS
  <1>2. (j - i) * p >= p
    BY <1>1
  <1>3. j * p = i * p + (j - i) * p
    BY <1>1
  <1>4. i * p \in Int /\ j * p \in Int
    BY <1>1
  <1>5. j * p >= i * p + p
    <2> HIDE DEF p
    <2> QED BY <1>1, <1>2, <1>3, <1>4
  <1> QED BY <1>4, <1>5

LEMMA TileHeightType ==
  ASSUME NEW n \in Nat
  PROVE  TileHeight(n) \in Nat /\ TileHeight(n) >= 96
  <1>1. Rows(n) \in Int /\ Rows(n) >= 1
    BY DEF Rows, MaxOf, Columns
  <1>2. (FbHeight - 56 - 160 - 18 * (Rows(n) - 1)) \div Rows(n) \in Int
    BY <1>1 DEF FbHeight
  <1> QED BY <1>2 DEF TileHeight, MinOf, MaxOf

LEMMA TilesApart ==
  ASSUME NEW n \in Nat, NEW i \in 1..n, NEW j \in 1..n, NEW x \in Int, NEW y \in Int,
         Inside(Tile(n, i), x, y), Inside(Tile(n, j), x, y)
  PROVE  i = j
  <1> DEFINE h == TileHeight(n)
             row(k) == (k - 1) \div 2
             col(k) == (k - 1) % 2
  <1>1. h \in Nat
    BY TileHeightType
  <1>2. TileWidth = 193
    BY DEF TileWidth, FbWidth, LegendWidth, Columns
  <1>3. /\ row(i) \in Int /\ row(j) \in Int
        /\ col(i) \in {0, 1} /\ col(j) \in {0, 1}
        /\ i = 2 * row(i) + col(i) + 1 /\ j = 2 * row(j) + col(j) + 1
    OBVIOUS
  <1>4. ASSUME NEW k \in 1..n, Inside(Tile(n, k), x, y)
        PROVE  /\ 160 + row(k) * (h + 18) <= y /\ y <= 160 + row(k) * (h + 18) + h
               /\ 24 + col(k) * 211 <= x /\ x <= 24 + col(k) * 211 + 193
    BY <1>2, <1>4 DEF Inside, Tile, Rect, Columns
  <1> HIDE DEF h, row, col
  <1>5. ~(row(i) < row(j)) /\ ~(row(j) < row(i))
    BY <1>1, <1>3, <1>4, Apart
  <1>6. col(i) = col(j)
    BY <1>3, <1>4
  <1> QED BY <1>3, <1>5, <1>6

LEMMA RowsApart ==
  ASSUME NEW i \in Nat, NEW j \in Nat, NEW x \in Int, NEW y \in Int
  PROVE  /\ Inside(HostRow(i), x, y) /\ Inside(HostRow(j), x, y) => i = j
         /\ Inside(ResultRow(i), x, y) /\ Inside(ResultRow(j), x, y) => i = j
  BY DEF Inside, HostRow, ResultRow, Rect, RowHeight, ScanTop, MaxRows, FbWidth

(* A tap is on one tile at most, one row or one result: on_tap(), which takes*)
(* the first that it finds, finds the only one, for any number of hosts.     *)
THEOREM OneItemHit ==
  ASSUME NEW view, view.hosts \in Seq(HostStates), view.results \in Seq(Macs),
         NEW x \in Int, NEW y \in Int
  PROVE  /\ \A i, j \in TilesHit(view, x, y) : i = j
         /\ \A i, j \in RowsHit(view, x, y) : i = j
         /\ \A i, j \in ResultsHit(view, x, y) : i = j
  <1> DEFINE n == Len(view.hosts)
  <1>1. n \in Nat /\ DOMAIN view.hosts = 1..n
    OBVIOUS
  <1>2. DOMAIN view.hosts \subseteq Nat /\ DOMAIN view.results \subseteq Nat
    OBVIOUS
  <1> HIDE DEF n
  <1>3. ASSUME NEW i \in TilesHit(view, x, y), NEW j \in TilesHit(view, x, y)
        PROVE  i = j
    BY <1>1, <1>3, TilesApart DEF TilesHit, n
  <1>4. ASSUME NEW i \in RowsHit(view, x, y), NEW j \in RowsHit(view, x, y)
        PROVE  i = j
    BY <1>2, <1>4, RowsApart DEF RowsHit
  <1>5. ASSUME NEW i \in ResultsHit(view, x, y), NEW j \in ResultsHit(view, x, y)
        PROVE  i = j
    BY <1>2, <1>5, RowsApart DEF ResultsHit
  <1> QED BY <1>3, <1>4, <1>5

LEMMA Bands ==
  ASSUME NEW i \in Nat, NEW x \in Int, NEW y \in Int
  PROVE  /\ Inside(CloseButton, x, y) => y <= 72
         /\ i >= 1 /\ i <= MaxRows /\ Inside(HostRow(i), x, y) => 106 <= y /\ y <= 436
         /\ Inside(ScanButton, x, y) => 456 <= y /\ y <= 512
         /\ i >= 1 /\ Inside(ResultRow(i), x, y) => 546 <= y
  BY DEF Inside, CloseButton, HostRow, ScanButton, ResultRow, Rect, RowHeight,
         ScanTop, MaxRows, FbWidth

(* The controls of the overlay are apart: the order in which on_tap() tests  *)
(* them does not matter.                                                     *)
THEOREM ControlsApart ==
  ASSUME NEW view, view.hosts \in Seq(HostStates), view.results \in Seq(Macs),
         NEW x \in Int, NEW y \in Int
  PROVE  /\ Inside(CloseButton, x, y) =>
              /\ RowsHit(view, x, y) = {} /\ ~Inside(ScanButton, x, y)
              /\ ResultsHit(view, x, y) = {}
         /\ RowsHit(view, x, y) # {} =>
              ~Inside(ScanButton, x, y) /\ ResultsHit(view, x, y) = {}
         /\ Inside(ScanButton, x, y) => ResultsHit(view, x, y) = {}
  <1>1. /\ \A i \in DOMAIN view.hosts : i \in Nat /\ i >= 1
        /\ \A i \in DOMAIN view.results : i \in Nat /\ i >= 1
    OBVIOUS
  <1>2. RowsHit(view, x, y) # {} => 106 <= y /\ y <= 436
    <2>1. ASSUME NEW i \in RowsHit(view, x, y) PROVE 106 <= y /\ y <= 436
      <3>1. i \in Nat /\ i >= 1 /\ i <= MaxRows /\ Inside(HostRow(i), x, y)
        BY <1>1 DEF RowsHit
      <3> QED BY <3>1, Bands
    <2> QED BY <2>1
  <1>3. ResultsHit(view, x, y) # {} => 546 <= y
    <2>1. ASSUME NEW i \in ResultsHit(view, x, y) PROVE 546 <= y
      <3>1. i \in Nat /\ i >= 1 /\ Inside(ResultRow(i), x, y)
        BY <1>1 DEF ResultsHit
      <3> QED BY <3>1, Bands
    <2> QED BY <2>1
  <1>4. /\ Inside(CloseButton, x, y) => y <= 72
        /\ Inside(ScanButton, x, y) => 456 <= y /\ y <= 512
    BY Bands
  <1> QED BY <1>2, <1>3, <1>4

----------------------------------------------------------------------------
(* A dialog is painted before anybody can answer it, and from "yes" to the   *)
(* removal the target is the host it named.                                  *)
DialogNamed ==
  /\ confirm # NoMac => named = confirm
  /\ pc = "remove" => confirm = NoMac /\ named = target

(* No scan begins while another one has its flag up.                         *)
ScanAlone == pc = "drop" => scan = "none"

(* A refresh and a write of the status know where the main loop goes on.     *)
ReturnKnown ==
  /\ pc \in {"refresh", "store"} => ret \in {"probe", "menu", "touch", "taps"}
  /\ pc \in {"error", "status", "until"} =>
       ret \in {"probe", "menu", "touch", "taps", "connect"}

Inv == ScanFlagTruthful /\ ScanAlone /\ DialogNamed /\ ReturnKnown

----------------------------------------------------------------------------
LEMMA InitInv == Init => Inv
  BY DEF Init, Started, Inv, ScanFlagTruthful, ScanAlone, DialogNamed, ReturnKnown

(* Only a dialog answers a tap with "yes". *)
LEMMA YesFromDialog ==
  ASSUME Hit.do = "yes" PROVE visible /\ confirm # NoMac
  BY DEF Hit, Surface, HitTest, HomeTap, DialogTap, OverlayTap, Nothing

(* After a draw the main loop goes on at one of its places; with the taps    *)
(* and the device only when something waits there.                           *)
LEMMA Onward ==
  ASSUME NEW after \in {"probe", "menu", "touch", "taps", "connect"}, GoOn(after)
  PROVE  /\ pc' \in {"select", "probe", "menu", "touch", "taps", "connect"}
         /\ ret' = "select" /\ message' = "none"
         /\ pc' = "taps" => events' # <<>>
         /\ pc' = "touch" => ready.touch
         /\ pc' = "connect" => after = "connect"
  <1>1. AfterTap(events') \in {"taps", "select"}
        /\ (AfterTap(events') = "taps" => events' # <<>>)
    BY DEF AfterTap
  <1>2. /\ AfterMenu \in {"touch", "select"} /\ AfterProbe \in {"menu", "touch", "select"}
        /\ (AfterMenu = "touch" \/ AfterProbe = "touch") => ready.touch
    BY DEF AfterMenu, AfterProbe
  <1> HIDE DEF AfterTap, AfterMenu, AfterProbe
  <1> QED BY <1>1, <1>2 DEF GoOn

(* draw_current() ends with a frame, or begins to clear the status.          *)
LEMMA Currently ==
  ASSUME NEW after \in {"probe", "menu", "touch", "taps"}, DrawCurrent(after)
  PROVE  /\ pc' \in {"select", "probe", "menu", "touch", "taps", "error"}
         /\ ret' \in {"select", after} /\ message' = "none"
         /\ pc' = "error" => ret' = after
         /\ pc' = "taps" => events' # <<>>
         /\ pc' = "touch" => ready.touch
         /\ Draw \/ DrawIdle \/ UNCHANGED frame
  <1>1. CASE Paint /\ GoOn(after)
    BY <1>1, Onward DEF Paint
  <1>2. CASE Write("none", after) /\ UNCHANGED frame
    BY <1>2 DEF Write
  <1> QED BY <1>1, <1>2 DEF DrawCurrent

(* A frame names the dialog it shows.                                        *)
LEMMA Painted ==
  ASSUME Draw \/ DrawIdle
  PROVE  named' \in {named, confirm'} /\ (named' # named => confirm' # NoMac)
         /\ (Draw /\ confirm' # NoMac => named' = confirm')
  BY DEF Draw, DrawIdle

(* A toggle closes the dialog, and ends with a frame or begins a refresh or  *)
(* the clearing of the status.                                               *)
LEMMA ToggleKeeps ==
  ASSUME NEW after \in {"touch", "taps"}, Toggle(after)
  PROVE  /\ confirm' = NoMac /\ UNCHANGED <<named, results, scanning>>
         /\ pc' \in {"select", "probe", "menu", "touch", "taps", "error", "refresh"}
         /\ ret' \in {"select", after} /\ message' = "none"
         /\ pc' \in {"error", "refresh"} => ret' = after
         /\ pc' = "taps" => events' # <<>>
         /\ pc' = "touch" => ready.touch
  <1>1. CASE visible
    <2>1. DrawCurrent(after) /\ confirm' = NoMac /\ UNCHANGED <<results, scanning>>
      BY <1>1 DEF Toggle
    <2>2. UNCHANGED named
      BY <2>1, Currently, Painted DEF frame
    <2> QED BY <2>1, <2>2, Currently
  <1>2. CASE ~visible
    BY <1>2 DEF Toggle, Refresh, frame
  <1> QED BY <1>1, <1>2

LEMMA NextInv == Inv /\ [Next]_vars => Inv'
  <1> SUFFICES ASSUME Inv, [Next]_vars PROVE Inv'
    OBVIOUS
  <1> USE DEF Inv, ScanFlagTruthful, ScanAlone, DialogNamed, ReturnKnown
  <1>0. CASE UNCHANGED vars
    BY <1>0 DEF vars, fields, mainVars, scanVars, frame
  <1>1. CASE Select
    BY <1>1 DEF Select, Refresh, At, fields, NoWorker, scanVars, frame
  <1>2. CASE Wait
    BY <1>2 DEF Wait, vars, fields, mainVars, scanVars, frame
  <1>3. CASE RefreshAsk
    BY <1>3 DEF RefreshAsk, At, fields, NoWorker, scanVars, frame
  <1>4. CASE RefreshStore
    <2>1. ret \in {"probe", "menu", "touch", "taps"} /\ pc = "store"
      BY <1>4 DEF RefreshStore
    <2>2. CASE ret = "menu"
      BY <1>4, <2>1, <2>2, Onward DEF RefreshStore, NoWorker, scanVars, frame
    <2>3. CASE ret # "menu"
      <3>1. DrawCurrent(ret)
        BY <1>4, <2>3 DEF RefreshStore
      <3>2. named' = named \/ (confirm' # NoMac /\ named' = confirm')
        BY <2>1, <3>1, Currently, Painted DEF frame
      <3> QED BY <1>4, <2>1, <3>1, <3>2, Currently
              DEF RefreshStore, NoWorker, scanVars
    <2> QED BY <2>2, <2>3
  <1>5. CASE StartProbe
    BY <1>5 DEF StartProbe, At, AfterProbe, AfterMenu, fields, scanVars, frame
  <1>6. CASE NothingToProbe
    BY <1>6 DEF NothingToProbe, Refresh, NoWorker, scanVars, frame
  <1>7. CASE SkipProbe
    BY <1>7 DEF SkipProbe, At, AfterProbe, AfterMenu, fields, NoWorker, scanVars, frame
  <1>8. CASE OnMenuSocket
    BY <1>8, ToggleKeeps DEF OnMenuSocket, NoWorker, scanVars
  <1>9. CASE ReadEvents
    BY <1>9 DEF ReadEvents, At, fields, NoWorker, scanVars, frame
  <1>10. CASE TapConnect
    BY <1>10 DEF TapConnect, Asked, Write, fields, NoWorker, scanVars, frame
  <1>11. CASE TapDelete
    BY <1>11, Onward, Painted DEF TapDelete, Asked, NoWorker, scanVars
  <1>12. CASE TapYes
    BY <1>12, YesFromDialog DEF TapYes, Asked, At, NoWorker, scanVars, frame
  <1>13. CASE TapNo
    BY <1>13, Onward, Painted DEF TapNo, Asked, NoWorker, scanVars
  <1>14. CASE TapClose
    BY <1>14, ToggleKeeps DEF TapClose, Asked, NoWorker, scanVars
  <1>15. CASE TapScan
    <2>1. CASE scanning
      BY <1>15, <2>1, Onward, Painted DEF TapScan, Asked, NoWorker, scanVars
    <2>2. CASE ~scanning
      BY <1>15, <2>2 DEF TapScan, Asked, At, NoWorker, scanVars, frame
    <2> QED BY <2>1, <2>2
  <1>16. CASE DropResults
    BY <1>16 DEF DropResults, At, scanVars, frame
  <1>17. CASE DrawScan
    BY <1>17, Onward, Painted DEF DrawScan, fields, NoWorker, scanVars
  <1>18. CASE TapNothing
    BY <1>18, Onward DEF TapNothing, Asked, fields, NoWorker, scanVars, frame
  <1>19. CASE WriteError
    BY <1>19 DEF WriteError, Writing, At, NoWorker, scanVars, frame
  <1>20. CASE WriteStatus
    BY <1>20 DEF WriteStatus, Writing, At, NoWorker, scanVars, frame
  <1>21. CASE WriteUntil
    <2>1. CASE message # "none" /\ ret = "taps"
      BY <1>21, <2>1 DEF WriteUntil, Writing, Refresh, NoWorker, scanVars, frame
    <2>2. CASE ~(message # "none" /\ ret = "taps")
      <3>1. Draw \/ DrawIdle
        BY <1>21, <2>2 DEF WriteUntil, Paint
      <3> QED BY <1>21, <2>2, <3>1, Onward, Painted
              DEF WriteUntil, Writing, NoWorker, scanVars
    <2> QED BY <2>1, <2>2
  <1>22. CASE Connect \/ PairTarget \/ ConnectAgain
    BY <1>22 DEF Connect, PairTarget, ConnectAgain, Blocked, Report, Step, Write, At,
                 NoWorker, scanVars, frame
  <1>23. CASE RemoveTarget
    BY <1>23 DEF RemoveTarget, Blocked, Refresh, NoWorker, scanVars
  <1>24. CASE ProbeScan \/ ProbeAsk \/ ProbeStore
    BY <1>24 DEF ProbeScan, ProbeAsk, ProbeStore, Worker, fields, mainVars, scanVars,
                 frame
  <1>25. CASE ProbePaint
    <2>1. Draw \/ DrawIdle \/ UNCHANGED frame
      BY <1>25 DEF ProbePaint
    <2> QED BY <1>25, <2>1, Painted DEF ProbePaint, Worker, fields, mainVars, scanVars,
                                        frame
  <1>26. CASE ClearError \/ ClearStatus \/ ClearUntil
    BY <1>26, Painted DEF ClearError, ClearStatus, ClearUntil, Clearing, Worker,
                          mainVars, scanVars, frame
  <1>27. CASE ScanFinds \/ ScanRaises \/ ScanDrops \/ ScanEnds \/ ScanLooks
    BY <1>27 DEF ScanFinds, ScanRaises, ScanDrops, ScanEnds, ScanLooks, Scanning,
                 Worker, mainVars, frame
  <1>28. CASE ScanPaint
    BY <1>28, Painted DEF ScanPaint, Scanning, Worker, mainVars
  <1>29. CASE PressMenu \/ ComputerChanges
    BY <1>29 DEF PressMenu, ComputerChanges, UIUnchanged, fields, mainVars, NoWorker,
                 scanVars, frame
  <1>30. ASSUME NEW p \in Points, TapAt(p) PROVE Inv'
    BY <1>30 DEF TapAt, UIUnchanged, fields, mainVars, NoWorker, scanVars, frame
  <1> QED BY <1>0, <1>1, <1>2, <1>3, <1>4, <1>5, <1>6, <1>7, <1>8, <1>9, <1>10, <1>11,
             <1>12, <1>13, <1>14, <1>15, <1>16, <1>17, <1>18, <1>19, <1>20, <1>21,
             <1>22, <1>23, <1>24, <1>25, <1>26, <1>27, <1>28, <1>29, <1>30
          DEF Next, Main, ProbeWorker, ScanWorker

LEMMA InvHolds == Spec => []Inv
  BY InitInv, NextInv, PTL DEF Spec

(* The scan flag is up from the write that raises it to the one that takes   *)
(* it down, one write a step, whichever way a scan ends, and a search begins *)
(* over no old result.                                                       *)
THEOREM ScanFlag == Spec => []ScanFlagTruthful
  BY InvHolds, PTL DEF Inv

(* No host is removed but the one that the dialog on the screen named,       *)
(* whatever the workers do to the list of hosts meanwhile.                   *)
THEOREM RemovalConfirmed == Spec => RemovesHostNamed
  <1>1. Inv /\ [Next]_vars => [\A m \in paired \ paired' : named = m]_vars
    <2> SUFFICES ASSUME Inv, [Next]_vars, NEW m \in paired \ paired'
                 PROVE  named = m
      OBVIOUS
    <2>1. RemoveTarget
      BY DEF Next, Main, ProbeWorker, ScanWorker, vars, world, NoInput, Worker,
             Ask, Asked, Blocked, Connected, Writing, Clearing, Scanning,
             Select, Wait, RefreshAsk, RefreshStore, StartProbe,
             NothingToProbe, SkipProbe, OnMenuSocket, ReadEvents,
             TapConnect, TapDelete, TapYes, TapNo, TapClose, TapScan,
             DropResults, DrawScan, TapNothing, WriteError, WriteStatus, WriteUntil,
             Connect, PairTarget, ConnectAgain, ProbeScan,
             ProbeAsk, ProbeStore, ProbePaint, ClearError, ClearStatus, ClearUntil,
             ScanFinds, ScanRaises, ScanDrops, ScanEnds, ScanLooks, ScanPaint,
             PressMenu, TapAt, ComputerChanges
    <2>2. pc = "remove" /\ m = target
      BY <2>1 DEF RemoveTarget
    <2> QED BY <2>2 DEF Inv, DialogNamed
  <1> QED BY InvHolds, <1>1, PTL DEF Spec, RemovesHostNamed

----------------------------------------------------------------------------
(* Types.                                                                    *)

FieldTypes ==
  /\ visible \in BOOLEAN /\ scanning \in BOOLEAN
  /\ hosts \in Seq(HostStates) /\ results \in Seq(Macs)
  /\ live \subseteq Macs /\ confirm \in Macs \cup {NoMac}

NoteTypes ==
  /\ error \in Messages /\ status \in {"none", "status"} /\ until \in BOOLEAN

FrameTypes ==
  /\ screen \in Views /\ named \in Macs \cup {NoMac}

LoopTypes ==
  /\ pc \in {"select", "refresh", "store", "probe", "menu", "touch", "taps",
             "error", "status", "until", "drop", "draw",
             "connect", "pair", "again", "remove"}
  /\ ret \in {"select", "probe", "menu", "touch", "taps", "connect"}
  /\ message \in {"none", "status"}
  /\ snap \in Snapshots /\ target \in Macs \cup {NoMac}
  /\ ready \in [menu : BOOLEAN, touch : BOOLEAN]
  /\ events \in Seq(Taps)

WorkerTypes ==
  /\ ppc \in {"none", "scan", "refresh", "store", "home", "overlay",
              "error", "status", "until"}
  /\ psnap \in Snapshots /\ targets \subseteq Macs
  /\ scan \in {"none", "search", "drop", "end"} /\ tails \in [look : Nat, paint : Nat]

OutsideTypes ==
  /\ menuq \in BOOLEAN /\ taps \in Seq(Taps) /\ Len(taps) <= MaxPending
  /\ paired \subseteq Macs /\ linked \subseteq Macs
  /\ inputs \in 0..MaxInputs /\ changes \in 0..MaxChanges

LEMMA TypeParts ==
  TypeOK <=> /\ FieldTypes /\ NoteTypes /\ FrameTypes
             /\ LoopTypes /\ WorkerTypes /\ OutsideTypes
  BY DEF TypeOK, FieldTypes, NoteTypes, FrameTypes, LoopTypes, WorkerTypes, OutsideTypes

(* The main loop connects to a computer that it knows.                       *)
TargetKnown ==
  /\ pc \in {"connect", "pair", "again"} => target \in Macs
  /\ pc \in {"error", "status", "until"} /\ ret = "connect" => target \in Macs

(* The main loop handles a tap, and reads the device, only when there is one.*)
TapsWait ==
  /\ pc = "taps" => events # <<>>
  /\ ready.touch => taps # <<>>
  /\ pc = "touch" => ready.touch

TypeInv == TypeOK /\ ReturnKnown /\ TargetKnown /\ TapsWait

LEMMA AnswerTypes ==
  ASSUME TypeOK
  PROVE  /\ Answers \subseteq Snapshots /\ NoAnswer \in Snapshots
         /\ Answer \in Snapshots
         /\ changes = MaxChanges => Answers = {Answer}
  BY DEF TypeOK, Answers, Answer, NoAnswer, Snapshots

(* A tap asks for something that the surface offers.                         *)
LEMMA HitTypes ==
  ASSUME NEW view, view.hosts \in Seq(HostStates), view.results \in Seq(Macs),
         view.confirm \in Macs \cup {NoMac}, NEW x, NEW y
  PROVE  LET hit == HitTest(view, x, y, NoMac)
         IN /\ hit \in [do : {"nothing", "connect", "yes", "no", "close",
                              "delete", "scan"},
                        mac : Macs \cup {NoMac}]
            /\ hit.do \in {"connect", "delete"} => hit.mac \in Macs
  <1> DEFINE Hits == [do : {"nothing", "connect", "yes", "no", "close", "delete",
                            "scan"}, mac : Macs \cup {NoMac}]
             Known(a) == a \in Hits /\ (a.do \in {"connect", "delete"} => a.mac \in Macs)
  <1>1. \A i \in DOMAIN view.hosts : view.hosts[i].mac \in Macs
    <2>1. \A i \in DOMAIN view.hosts : view.hosts[i] \in HostStates
      OBVIOUS
    <2> QED BY <2>1 DEF HostStates
  <1>2. \A i \in DOMAIN view.results : view.results[i] \in Macs
    OBVIOUS
  <1>3. ASSUME NEW m \in Macs, NEW d \in {"connect", "delete"}
        PROVE  Known([do |-> d, mac |-> m])
    OBVIOUS
  <1>4. ASSUME NEW m \in Macs \cup {NoMac},
               NEW d \in {"nothing", "yes", "no", "close", "scan"}
        PROVE  Known([do |-> d, mac |-> m])
    OBVIOUS
  <1> HIDE DEF Known
  <1>5. Known(HomeTap(view, x, y, NoMac))
    <2> DEFINE i == CHOOSE k \in TilesHit(view, x, y) : TRUE
    <2>1. TilesHit(view, x, y) # {} => i \in DOMAIN view.hosts
      BY DEF TilesHit
    <2> QED BY <1>1, <1>3, <1>4, <2>1 DEF HomeTap, Nothing
  <1>6. Known(DialogTap(view, x, y, NoMac))
    BY <1>4 DEF DialogTap, Nothing
  <1>7. Known(OverlayTap(view, x, y, NoMac))
    <2> DEFINE i == CHOOSE k \in RowsHit(view, x, y) : TRUE
               j == CHOOSE k \in ResultsHit(view, x, y) : TRUE
    <2>1. RowsHit(view, x, y) # {} => i \in DOMAIN view.hosts
      BY DEF RowsHit
    <2>2. ResultsHit(view, x, y) # {} => j \in DOMAIN view.results
      BY DEF ResultsHit
    <2> QED BY <1>1, <1>2, <1>3, <1>4, <2>1, <2>2 DEF OverlayTap, Nothing
  <1> QED BY <1>5, <1>6, <1>7 DEF HitTest, Known

LEMMA DrawTypes ==
  ASSUME FieldTypes', NoteTypes', FrameTypes, Draw \/ DrawIdle
  PROVE  FrameTypes'
  <1> USE DEF FieldTypes, NoteTypes, FrameTypes
  <1>1. CASE Draw
    <2>1. screen' \in Views
      BY <1>1 DEF Draw, Views
    <2> QED BY <1>1, <2>1 DEF Draw
  <1>2. CASE DrawIdle
    <2>1. screen' \in Views
      BY <1>2 DEF DrawIdle, HomeView, Views, Messages
    <2> QED BY <1>2, <2>1 DEF DrawIdle
  <1> QED BY <1>1, <1>2

(* The fields. *)
LEMMA FieldsKept ==
  ASSUME TypeInv, Next
  PROVE  FieldTypes'
  <1> USE DEF FieldTypes
  <1>0. FieldTypes /\ LoopTypes /\ WorkerTypes /\ OutsideTypes
    BY TypeParts DEF TypeInv
  <1>a. Hit.do = "delete" => Hit.mac \in Macs
    BY <1>0, HitTypes DEF Hit, Surface
  <1>1. CASE RefreshStore
    <2>1. hosts' \in Seq(HostStates)
      BY <1>0, <1>1, HostListOrdered DEF RefreshStore, LoopTypes
    <2> QED BY <1>0, <1>1, <2>1 DEF RefreshStore
  <1>2. CASE NothingToProbe
    BY <1>0, <1>2 DEF NothingToProbe
  <1>3. CASE OnMenuSocket \/ TapClose
    <2>1. UNCHANGED <<hosts, results, scanning, live>> /\ confirm' = NoMac
      BY <1>3 DEF OnMenuSocket, TapClose, Toggle
    <2>2. visible' \in BOOLEAN
      BY <1>3, Zenon DEF OnMenuSocket, TapClose, Toggle
    <2> QED BY <1>0, <2>1, <2>2
  <1>4. CASE TapDelete
    BY <1>0, <1>4, <1>a DEF TapDelete, Asked
  <1>5. CASE TapYes \/ TapNo
    BY <1>0, <1>5 DEF TapYes, TapNo
  <1>6. CASE TapScan
    BY <1>0, <1>6 DEF TapScan
  <1>7. CASE DropResults
    BY <1>0, <1>7 DEF DropResults
  <1>8. CASE RemoveTarget
    BY <1>0, <1>8 DEF RemoveTarget, Blocked
  <1>9. CASE ProbeScan
    BY <1>0, <1>9 DEF ProbeScan, WorkerTypes
  <1>10. CASE ProbeStore
    <2>1. hosts' \in Seq(HostStates)
      BY <1>0, <1>10, HostListOrdered DEF ProbeStore, WorkerTypes
    <2> QED BY <1>0, <1>10, <2>1 DEF ProbeStore
  <1>11. CASE ScanFinds
    <2>1. \A S \in Nearby : S \in SUBSET Macs
      BY MenuAssumption
    <2>2. results' \in Seq(Macs)
      BY <1>11, <2>1, ResultsOrdered DEF ScanFinds, Scans
    <2> QED BY <1>0, <1>11, <2>2 DEF ScanFinds, Scanning
  <1>12. CASE ScanDrops \/ ScanEnds
    <2>1. <<>> \in Seq(Macs)
      OBVIOUS
    <2>2. results' \in Seq(Macs)
      BY <1>0, <1>12, <2>1, Zenon DEF ScanDrops, ScanEnds
    <2>3. scanning' \in BOOLEAN
      BY <1>0, <1>12, Zenon DEF ScanDrops, ScanEnds
    <2>4. UNCHANGED <<visible, hosts, live, confirm>>
      BY <1>12 DEF ScanDrops, ScanEnds, Scanning
    <2> QED BY <1>0, <2>2, <2>3, <2>4
  <1>13. CASE UNCHANGED <<visible, hosts, results, scanning, live, confirm>>
    BY <1>0, <1>13
  <1> QED BY <1>1, <1>2, <1>3, <1>4, <1>5, <1>6, <1>7, <1>8, <1>9, <1>10, <1>11,
             <1>12, <1>13
          DEF Next, Main, ProbeWorker, ScanWorker, vars, fields, Asked, Blocked,
              UIUnchanged, Writing, Clearing, Scanning, Select, Wait, RefreshAsk,
              StartProbe, SkipProbe, ReadEvents, TapConnect, DrawScan, TapNothing,
              WriteError, WriteStatus, WriteUntil, Connect, PairTarget, ConnectAgain,
              ProbeAsk, ProbePaint, ClearError, ClearStatus, ClearUntil, ScanRaises,
              ScanLooks, ScanPaint, PressMenu, TapAt, ComputerChanges

(* The messages. *)
LEMMA NotesKept ==
  ASSUME TypeInv, Next
  PROVE  NoteTypes'
  <1> USE DEF NoteTypes, Messages
  <1>0. NoteTypes /\ message \in {"none", "status"}
    BY TypeParts DEF TypeInv, LoopTypes
  <1>1. CASE OnMenuSocket \/ TapClose
    <2>1. error' = "none" /\ UNCHANGED <<status, until>>
      BY <1>1 DEF OnMenuSocket, TapClose, Toggle
    <2> QED BY <1>0, <2>1
  <1>2. CASE WriteError \/ WriteStatus
    BY <1>0, <1>2 DEF WriteError, WriteStatus
  <1>3. CASE WriteUntil
    <2>1. until' \in BOOLEAN /\ UNCHANGED <<error, status>>
      BY <1>3, Zenon DEF WriteUntil
    <2> QED BY <1>0, <2>1
  <1>4. CASE Connect \/ PairTarget \/ ConnectAgain
    BY <1>0, <1>4 DEF Connect, PairTarget, ConnectAgain, Blocked, Report, Step
  <1>5. CASE RemoveTarget
    BY <1>0, <1>5 DEF RemoveTarget, Blocked
  <1>6. CASE ClearError \/ ClearStatus \/ ClearUntil
    BY <1>0, <1>6 DEF ClearError, ClearStatus, ClearUntil
  <1>7. CASE ScanRaises
    BY <1>0, <1>7 DEF ScanRaises, Scanning
  <1>8. CASE UNCHANGED notes
    BY <1>0, <1>8 DEF notes
  <1> QED BY <1>1, <1>2, <1>3, <1>4, <1>5, <1>6, <1>7, <1>8
          DEF Next, Main, ProbeWorker, ScanWorker, vars, fields, notes, UIUnchanged,
              Scanning, Select, Wait, RefreshAsk, RefreshStore, StartProbe,
              NothingToProbe, SkipProbe, ReadEvents, TapConnect, TapDelete, TapYes,
              TapNo, TapScan, DropResults, DrawScan, TapNothing, ProbeScan, ProbeAsk,
              ProbeStore, ProbePaint, ScanFinds, ScanDrops, ScanEnds, ScanLooks,
              ScanPaint, PressMenu, TapAt, ComputerChanges

(* The last frame. *)
LEMMA FrameKept ==
  ASSUME TypeInv, Next
  PROVE  FrameTypes'
  <1>0. FieldTypes' /\ NoteTypes' /\ FrameTypes /\ ReturnKnown
    BY TypeParts, FieldsKept, NotesKept DEF TypeInv
  <1>1. CASE Draw \/ DrawIdle
    BY <1>0, <1>1, DrawTypes
  <1>2. CASE UNCHANGED frame
    BY <1>0, <1>2 DEF FrameTypes, frame
  <1>3. CASE RemoveTarget
    BY <1>0, <1>3 DEF RemoveTarget, FrameTypes
  <1>4. CASE RefreshStore
    BY <1>0, <1>1, <1>2, <1>4, Currently DEF RefreshStore, ReturnKnown
  <1>5. CASE OnMenuSocket \/ TapClose
    <2>1. PICK after \in {"touch", "taps"} : Toggle(after)
      BY <1>5 DEF OnMenuSocket, TapClose
    <2>2. Draw \/ DrawIdle \/ UNCHANGED frame
      BY <2>1, Currently DEF Toggle
    <2> QED BY <1>1, <1>2, <2>2
  <1>6. CASE WriteUntil
    BY <1>1, <1>2, <1>6 DEF WriteUntil, Paint
  <1> QED BY <1>1, <1>2, <1>3, <1>4, <1>5, <1>6
          DEF Next, Main, ProbeWorker, ScanWorker, vars, UIUnchanged, Report, Step,
              Select, Wait, RefreshAsk, StartProbe, NothingToProbe, SkipProbe,
              ReadEvents, TapConnect, TapDelete, TapYes, TapNo, TapScan, DropResults,
              DrawScan, TapNothing, WriteError, WriteStatus, Connect, PairTarget,
              ConnectAgain, ProbeScan, ProbeAsk, ProbeStore, ProbePaint, ClearError,
              ClearStatus, ClearUntil, ScanFinds, ScanRaises, ScanDrops, ScanEnds,
              ScanLooks, ScanPaint, PressMenu, TapAt, ComputerChanges

(* The place of the main loop, and the taps that it has read. *)
LEMMA LoopKept ==
  ASSUME TypeInv, Next
  PROVE  LoopTypes' /\ ReturnKnown' /\ TargetKnown'
  <1> USE DEF LoopTypes, ReturnKnown, TargetKnown
  <1>0. /\ LoopTypes /\ ReturnKnown /\ TargetKnown /\ FieldTypes /\ OutsideTypes
        /\ pc = "taps" => events # <<>>
        /\ Answers \subseteq Snapshots /\ NoAnswer \in Snapshots
    BY TypeParts, AnswerTypes DEF TypeInv, TapsWait
  <1>b. AfterMenu \in {"touch", "select"} /\ AfterProbe \in {"menu", "touch", "select"}
    BY DEF AfterMenu, AfterProbe
  <1>c. /\ Hit.mac \in Macs \cup {NoMac}
        /\ Hit.do = "connect" => Hit.mac \in Macs
    BY <1>0, HitTypes DEF Hit, Surface, FieldTypes
  <1>d. pc = "taps" => Tail(events) \in Seq(Taps)
    BY <1>0
  <1>1. CASE Select
    <2>1. ready' \in [menu : BOOLEAN, touch : BOOLEAN]
      BY <1>0, <1>1 DEF Select, OutsideTypes
    <2> QED BY <1>0, <1>1, <2>1 DEF Select, Refresh, At
  <1>2. CASE RefreshAsk
    BY <1>0, <1>2 DEF RefreshAsk, At
  <1>3. CASE RefreshStore
    <2>1. CASE ret = "menu"
      BY <1>0, <1>3, <2>1, Onward DEF RefreshStore
    <2>2. CASE ret # "menu"
      BY <1>0, <1>3, <2>2, Currently DEF RefreshStore
    <2> QED BY <2>1, <2>2
  <1>4. CASE StartProbe \/ NothingToProbe \/ SkipProbe
    BY <1>0, <1>4, <1>b DEF StartProbe, NothingToProbe, SkipProbe, At, Refresh
  <1>5. CASE OnMenuSocket
    BY <1>0, <1>5, ToggleKeeps DEF OnMenuSocket
  <1>6. CASE ReadEvents
    BY <1>0, <1>6 DEF ReadEvents, At, OutsideTypes
  <1>7. CASE TapConnect
    BY <1>0, <1>7, <1>c, <1>d DEF TapConnect, Asked, Write
  <1>8. CASE TapDelete \/ TapNo \/ TapNothing \/ (TapScan /\ scanning)
    BY <1>0, <1>8, <1>d, Onward DEF TapDelete, TapNo, TapScan, TapNothing, Asked
  <1>9. CASE TapScan /\ ~scanning
    BY <1>0, <1>9, <1>d DEF TapScan, Asked, At
  <1>10. CASE TapYes
    BY <1>0, <1>10, <1>d DEF TapYes, Asked, At, FieldTypes
  <1>11. CASE TapClose
    BY <1>0, <1>11, <1>d, ToggleKeeps DEF TapClose, Asked
  <1>12. CASE DropResults \/ WriteError \/ WriteStatus
    BY <1>0, <1>12 DEF DropResults, WriteError, WriteStatus, Writing, At
  <1>13. CASE DrawScan
    BY <1>0, <1>13, Onward DEF DrawScan
  <1>14. CASE WriteUntil
    <2>1. CASE message # "none" /\ ret = "taps"
      BY <1>0, <1>14, <2>1 DEF WriteUntil, Writing, Refresh
    <2>2. CASE ~(message # "none" /\ ret = "taps")
      BY <1>0, <1>14, <2>2, Onward DEF WriteUntil, Writing
    <2> QED BY <2>1, <2>2
  <1>15. CASE Connect \/ PairTarget \/ ConnectAgain
    BY <1>0, <1>15 DEF Connect, PairTarget, ConnectAgain, Blocked, Report, Step, At,
                       Write
  <1>16. CASE RemoveTarget
    BY <1>0, <1>16 DEF RemoveTarget, Blocked, Refresh
  <1>17. CASE UNCHANGED mainVars
    BY <1>0, <1>17 DEF mainVars
  <1> QED BY <1>1, <1>2, <1>3, <1>4, <1>5, <1>6, <1>7, <1>8, <1>9, <1>10, <1>11,
             <1>12, <1>13, <1>14, <1>15, <1>16, <1>17
          DEF Next, Main, ProbeWorker, ScanWorker, Worker, UIUnchanged, Wait,
              vars, Clearing, Scanning, ProbeScan, ProbeAsk, ProbeStore, ProbePaint,
              ClearError, ClearStatus, ClearUntil, ScanFinds, ScanRaises, ScanDrops,
              ScanEnds, ScanLooks, ScanPaint, PressMenu, TapAt, ComputerChanges

LEMMA TapsStillWait ==
  ASSUME TypeInv, Next
  PROVE  TapsWait'
  <1> USE DEF TapsWait, NotReady
  <1>0. TapsWait /\ LoopTypes /\ OutsideTypes /\ ReturnKnown
    BY TypeParts DEF TypeInv
  <1>c. /\ AfterMenu \in {"touch", "select"} /\ AfterProbe \in {"menu", "touch", "select"}
        /\ (AfterMenu = "touch" \/ AfterProbe = "touch") => ready.touch
    BY DEF AfterMenu, AfterProbe
  <1>1. CASE Select
    BY <1>0, <1>1 DEF Select, Refresh, At, NoInput, userVars
  <1>2. CASE RefreshAsk
    BY <1>0, <1>2 DEF RefreshAsk, At, Ask, userVars
  <1>3. CASE RefreshStore
    <2>0. UNCHANGED <<ready, events, taps>>
      BY <1>3 DEF RefreshStore, NoInput, userVars
    <2>1. CASE ret = "menu"
      BY <1>0, <1>3, <2>0, <2>1, Onward DEF RefreshStore
    <2>2. CASE ret # "menu"
      BY <1>0, <1>3, <2>0, <2>2, Currently DEF RefreshStore, ReturnKnown
    <2> QED BY <2>1, <2>2
  <1>4. CASE StartProbe \/ NothingToProbe \/ SkipProbe
    BY <1>0, <1>4, <1>c
       DEF StartProbe, NothingToProbe, SkipProbe, At, Refresh, NoInput, userVars
  <1>5. CASE OnMenuSocket
    <2>1. ready'.touch = ready.touch /\ UNCHANGED <<taps, events>>
      BY <1>0, <1>5 DEF OnMenuSocket, LoopTypes
    <2> QED BY <1>0, <1>5, <2>1, ToggleKeeps DEF OnMenuSocket
  <1>6. CASE ReadEvents
    <2>1. ready'.touch = FALSE
      BY <1>0, <1>6 DEF ReadEvents, LoopTypes
    <2> QED BY <1>0, <1>6, <2>1 DEF ReadEvents, At
  <1>7. CASE TapConnect \/ TapYes \/ (TapScan /\ ~scanning)
    BY <1>0, <1>7 DEF TapConnect, TapYes, TapScan, Asked, Write, At, NoInput, userVars
  <1>8. CASE TapDelete \/ TapNo \/ (TapScan /\ scanning) \/ TapNothing
    BY <1>0, <1>8, Onward
       DEF TapDelete, TapNo, TapScan, TapNothing, Asked, NoInput, userVars
  <1>9. CASE TapClose
    BY <1>0, <1>9, ToggleKeeps DEF TapClose, Asked, NoInput, userVars
  <1>10. CASE Connect \/ PairTarget \/ ConnectAgain \/ RemoveTarget
    BY <1>0, <1>10 DEF Connect, PairTarget, ConnectAgain, RemoveTarget, Blocked,
                       Report, Step, Write, At, Refresh, userVars
  <1>11. CASE DropResults \/ WriteError \/ WriteStatus
    BY <1>0, <1>11 DEF DropResults, WriteError, WriteStatus, Writing, At, NoInput,
                       userVars
  <1>12. CASE DrawScan
    BY <1>0, <1>12, Onward DEF DrawScan, NoInput, userVars
  <1>13. CASE WriteUntil
    <2>0. UNCHANGED <<ready, events, taps>>
      BY <1>13 DEF WriteUntil, Writing, NoInput, userVars
    <2>1. CASE message # "none" /\ ret = "taps"
      BY <1>0, <1>13, <2>0, <2>1 DEF WriteUntil, Refresh
    <2>2. CASE ~(message # "none" /\ ret = "taps")
      BY <1>0, <1>13, <2>0, <2>2, Onward DEF WriteUntil, ReturnKnown
    <2> QED BY <2>1, <2>2
  <1>14. ASSUME NEW p \in Points, TapAt(p) PROVE TapsWait'
    BY <1>0, <1>14 DEF TapAt, UIUnchanged, mainVars, OutsideTypes
  <1>15. CASE UNCHANGED <<mainVars, taps>>
    BY <1>0, <1>15 DEF mainVars
  <1> QED BY <1>1, <1>2, <1>3, <1>4, <1>5, <1>6, <1>7, <1>8, <1>9, <1>10, <1>11,
             <1>12, <1>13, <1>14, <1>15
          DEF Next, Main, ProbeWorker, ScanWorker, Worker, NoInput, UIUnchanged,
              Wait, vars, userVars, Ask, Clearing, Scanning, ProbeScan, ProbeAsk,
              ProbeStore, ProbePaint, ClearError, ClearStatus, ClearUntil, ScanFinds,
              ScanRaises, ScanDrops, ScanEnds, ScanLooks, ScanPaint, PressMenu,
              ComputerChanges

(* The workers. *)
LEMMA WorkersKept ==
  ASSUME TypeInv, Next
  PROVE  WorkerTypes'
  <1> USE DEF WorkerTypes
  <1>0. WorkerTypes /\ FieldTypes /\ OutsideTypes
        /\ Answers \subseteq Snapshots /\ NoAnswer \in Snapshots
    BY TypeParts, AnswerTypes DEF TypeInv
  <1>1. CASE StartProbe
    <2>1. \A i \in DOMAIN hosts : hosts[i].mac \in Macs
      <3>1. \A i \in DOMAIN hosts : hosts[i] \in HostStates
        BY <1>0 DEF FieldTypes
      <3> QED BY <3>1 DEF HostStates
    <2>2. ProbeTargets \subseteq Macs
      BY <1>0, <2>1 DEF ProbeTargets, OutsideTypes
    <2> QED BY <1>0, <1>1, <2>2 DEF StartProbe, scanVars
  <1>2. CASE DropResults
    BY <1>0, <1>2 DEF DropResults, probeVars
  <1>3. CASE ProbeScan
    BY <1>0, <1>3 DEF ProbeScan, scanVars
  <1>4. CASE ProbeAsk
    BY <1>0, <1>4 DEF ProbeAsk, scanVars
  <1>5. CASE ProbeStore
    BY <1>0, <1>5 DEF ProbeStore, scanVars
  <1>6. CASE ProbePaint
    BY <1>0, <1>6 DEF ProbePaint, scanVars
  <1>7. CASE ClearError \/ ClearStatus \/ ClearUntil
    BY <1>0, <1>7 DEF ClearError, ClearStatus, ClearUntil, Clearing, scanVars
  <1>8. CASE ScanFinds \/ ScanRaises \/ ScanDrops \/ ScanEnds \/ ScanLooks \/ ScanPaint
    BY <1>0, <1>8 DEF ScanFinds, ScanRaises, ScanDrops, ScanEnds, ScanLooks,
                      ScanPaint, Scanning, probeVars
  <1>9. CASE UNCHANGED <<probeVars, scanVars>>
    BY <1>0, <1>9 DEF probeVars, scanVars
  <1> QED BY <1>1, <1>2, <1>3, <1>4, <1>5, <1>6, <1>7, <1>8, <1>9
          DEF Next, Main, ProbeWorker, ScanWorker, vars, NoWorker, UIUnchanged,
              Blocked, Writing, Select, Wait, RefreshAsk, RefreshStore,
              NothingToProbe, SkipProbe, OnMenuSocket, ReadEvents, TapConnect,
              TapDelete, TapYes, TapNo, TapClose, TapScan, DrawScan, TapNothing,
              WriteError, WriteStatus, WriteUntil, Connect, PairTarget, ConnectAgain,
              RemoveTarget, PressMenu, TapAt, ComputerChanges

(* The user's input, BlueZ and the computers. *)
LEMMA OutsideKept ==
  ASSUME TypeInv, Next
  PROVE  OutsideTypes'
  <1> USE DEF OutsideTypes
  <1>0. OutsideTypes /\ FrameTypes /\ TargetKnown /\ LoopTypes
        /\ (changes = MaxChanges => Answers = {Answer})
    BY TypeParts, AnswerTypes DEF TypeInv
  <1>a. MaxInputs \in Nat /\ MaxChanges \in Nat /\ MaxPending \in Nat \ {0}
    BY MenuAssumption
  <1>b. ASSUME NEW s \in Answers, Ask(s # Answer) PROVE OutsideTypes'
    BY <1>0, <1>a, <1>b DEF Ask, userVars
  <1>1. CASE RefreshAsk \/ ProbeAsk
    BY <1>b, <1>1 DEF RefreshAsk, ProbeAsk
  <1>2. CASE OnMenuSocket
    BY <1>0, <1>2 DEF OnMenuSocket, world
  <1>3. CASE ReadEvents
    BY <1>0, <1>3, <1>a DEF ReadEvents, world
  <1>4. CASE Connect \/ PairTarget \/ ConnectAgain
    BY <1>0, <1>4 DEF Connect, PairTarget, ConnectAgain, Connected, Blocked,
                      userVars, TargetKnown
  <1>5. CASE RemoveTarget
    BY <1>0, <1>5 DEF RemoveTarget, Blocked, userVars
  <1>6. CASE PressMenu
    BY <1>0, <1>6, <1>a DEF PressMenu, Input, world
  <1>7. ASSUME NEW p \in Points, TapAt(p) PROVE OutsideTypes'
    <2> DEFINE tap == [x |-> p[1], y |-> p[2],
                       aim |-> HitTest(screen, p[1], p[2], NoMac)]
    <2>1. p[1] \in 0..FbWidth - 1 /\ p[2] \in 0..FbHeight - 1
      BY MenuAssumption
    <2>2. tap \in Taps
      BY <1>0, <2>1, HitTypes DEF FrameTypes, Views, Taps
    <2> HIDE DEF tap
    <2>3. taps' = Append(taps, tap) /\ Len(taps) < MaxPending
      BY <1>7 DEF TapAt, tap
    <2>4. taps' \in Seq(Taps) /\ Len(taps') <= MaxPending
      BY <1>0, <1>a, <2>2, <2>3
    <2> QED BY <1>0, <1>7, <1>a, <2>4 DEF TapAt, Input, world
  <1>8. CASE ComputerChanges
    BY <1>0, <1>8, <1>a DEF ComputerChanges, userVars
  <1>9. CASE UNCHANGED <<userVars, world>>
    BY <1>0, <1>9 DEF userVars, world
  <1> QED BY <1>1, <1>2, <1>3, <1>4, <1>5, <1>6, <1>7, <1>8, <1>9
          DEF Next, Main, ProbeWorker, ScanWorker, vars, NoInput, Worker, Asked,
              Writing, Clearing, Scanning,
              Select, Wait, RefreshStore, StartProbe, NothingToProbe, SkipProbe,
              TapConnect, TapDelete, TapYes, TapNo, TapClose, TapScan, DropResults,
              DrawScan, TapNothing, WriteError, WriteStatus, WriteUntil, ProbeScan,
              ProbeStore, ProbePaint, ClearError, ClearStatus, ClearUntil, ScanFinds,
              ScanRaises, ScanDrops, ScanEnds, ScanLooks, ScanPaint

LEMMA InitTypes ==
  ASSUME Init
  PROVE  TypeInv
  <1>1. Answer \in Snapshots /\ NoAnswer \in Snapshots
    BY DEF Init, Started, Answer, NoAnswer, Snapshots
  <1>2. hosts \in Seq(HostStates)
    BY <1>1, HostListOrdered DEF Init, Started
  <1>a. /\ <<>> \in Seq(HostStates) /\ <<>> \in Seq(Macs) /\ <<>> \in Seq(Taps)
        /\ {} \subseteq Macs
    OBVIOUS
  <1>3. FieldTypes
    BY <1>2, <1>a, Zenon DEF Init, Started, FieldTypes
  <1>9. NoteTypes
    BY DEF Init, Started, NoteTypes, Messages
  <1>4. FrameTypes
    <2>1. screen \in Views
      BY <1>2, <1>a DEF Init, Started, HomeView, Views, Messages
    <2> QED BY <2>1 DEF Init, Started, FrameTypes
  <1>5. LoopTypes
    <2>1. ready \in [menu : BOOLEAN, touch : BOOLEAN]
      BY DEF Init, Started, NotReady
    <2> QED BY <1>1, <1>a, <2>1 DEF Init, Started, LoopTypes
  <1>8. WorkerTypes
    BY <1>1, <1>a DEF Init, Started, WorkerTypes
  <1>6. OutsideTypes
    <2>1. menuq \in BOOLEAN
      BY Zenon DEF Init, Started
    <2>2. taps \in Seq(Taps) /\ Len(taps) = 0
      BY <1>a DEF Init, Started
    <2>3. inputs \in 0..MaxInputs /\ changes \in 0..MaxChanges /\ 0 <= MaxPending
      BY MenuAssumption DEF Init, Started
    <2> QED BY <2>1, <2>2, <2>3 DEF Init, Started, OutsideTypes
  <1>7. ReturnKnown /\ TargetKnown /\ TapsWait
    BY DEF Init, Started, ReturnKnown, TargetKnown, TapsWait, NotReady
  <1> QED BY <1>3, <1>4, <1>5, <1>6, <1>7, <1>8, <1>9, TypeParts DEF TypeInv

LEMMA NextTypes ==
  ASSUME TypeInv, [Next]_vars
  PROVE  TypeInv'
  <1>1. CASE Next
    <2>1. TypeOK'
      BY <1>1, FieldsKept, NotesKept, FrameKept, LoopKept, WorkersKept, OutsideKept
         DEF TypeOK, FieldTypes, NoteTypes, FrameTypes, LoopTypes, WorkerTypes,
             OutsideTypes
    <2> QED BY <1>1, <2>1, LoopKept, TapsStillWait DEF TypeInv
  <1>2. CASE UNCHANGED vars
    BY <1>2 DEF TypeInv, TypeOK, ReturnKnown, TargetKnown, TapsWait, vars, fields,
                notes, mainVars, probeVars, scanVars, userVars, world, frame
  <1> QED BY <1>1, <1>2

(* Fields, frames and taps keep their types: the main loop connects only to  *)
(* a computer it knows, and takes a tap only when it has read one.           *)
THEOREM TypeCorrect == Spec => []TypeOK
  <1>1. TypeInv => TypeOK
    BY DEF TypeInv
  <1> QED BY InitTypes, NextTypes, <1>1, PTL DEF Spec

=============================================================================
