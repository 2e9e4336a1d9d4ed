--------------------------- MODULE Markers_proofs ---------------------------
(***************************************************************************)
(* What the handlers make of any list of cue points, and what the parser   *)
(* makes of it: where a jump lands, how the sections follow one another,   *)
(* and which is the current one.                                           *)
(***************************************************************************)
EXTENDS MCMarkers, FiniteSetTheorems, TLAPS

CueList == Seq([name : Name, position : Nat])

-----------------------------------------------------------------------------
(* Natural numbers *)

\* Every set of natural numbers that is not empty has a least element.
LEMMA LeastNatural ==
    ASSUME NEW S \in SUBSET Nat, S # {}
    PROVE  \E n \in S : \A m \in S : n <= m
<1> DEFINE T == {0..m : m \in S}
           R == StrictSubsetOrdering(Nat)
<1>1. T \subseteq FiniteSubsetsOf(Nat)
  <2> SUFFICES ASSUME NEW m \in S
               PROVE  0..m \in FiniteSubsetsOf(Nat)
    OBVIOUS
  <2>1. IsFiniteSet(0..m)
    BY FS_Interval
  <2> QED BY <2>1 DEF FiniteSubsetsOf
<1>2. IsWellFoundedOn(R, FiniteSubsetsOf(Nat))
  BY FS_StrictSubsetOrderingWellFounded
<1>3. T # {}
  OBVIOUS
<1> HIDE DEF R
<1>4. \E x \in T : \A y \in T : ~(<<y, x>> \in R)
  <2> HIDE DEF T
  <2> QED BY <1>1, <1>2, <1>3, WFMin, Zenon
<1>5. PICK n \in S : \A m \in S : ~(<<0..m, 0..n>> \in R)
  BY <1>4
<1>6. ASSUME NEW m \in S, m < n
      PROVE  FALSE
  <2>1. 0..m \subseteq Nat /\ 0..n \subseteq Nat /\ 0..m \subseteq 0..n /\ 0..m # 0..n
    <3>1. n \in 0..n /\ n \notin 0..m
      BY <1>6
    <3> QED BY <1>6, <3>1
  <2>2. <<0..m, 0..n>> \in R
    BY <2>1 DEF R, StrictSubsetOrdering
  <2> QED BY <1>5, <2>2
<1> QED BY <1>6

\* Induction along a loop of n rounds.
LEMMA Rounds ==
    ASSUME NEW n \in Nat, NEW S, 0 \in S, \A k \in 0..n : k < n /\ k \in S => k + 1 \in S
    PROVE  \A k \in 0..n : k \in S
<1> DEFINE Bad == {k \in 0..n : k \notin S}
<1>1. SUFFICES ASSUME Bad # {}
               PROVE  FALSE
  OBVIOUS
<1>2. PICK b \in Bad : \A m \in Bad : b <= m
  <2>1. Bad \in SUBSET Nat
    OBVIOUS
  <2> HIDE DEF Bad
  <2> QED BY <1>1, <2>1, LeastNatural
<1>3. b - 1 \in 0..n /\ b - 1 < n /\ b - 1 \in S
  BY <1>2
<1>4. (b - 1) + 1 = b
  BY <1>2
<1> QED BY <1>2, <1>3, <1>4

\* A set of numbers up to n has a greatest element, which Max finds.
LEMMA MaxUpTo ==
    ASSUME NEW n \in Nat, NEW S \in SUBSET (0..n), S # {}
    PROVE  Max(S) \in S /\ \A m \in S : m <= Max(S)
<1> DEFINE T == {n - m : m \in S}
<1>1. T \in SUBSET Nat /\ T # {}
  OBVIOUS
<1>2. PICK t \in T : \A u \in T : t <= u
  BY <1>1, LeastNatural
<1>3. n - t \in S /\ \A m \in S : n - t >= m
  BY <1>2
<1>4. Max(S) \in S /\ \A m \in S : Max(S) >= m
  BY <1>3 DEF Max
<1> QED BY <1>4

-----------------------------------------------------------------------------
(* Sorting *)

\* What a list of cue points is made of.
LEMMA Cues ==
    ASSUME NEW list \in CueList
    PROVE  /\ Len(list) \in Nat /\ DOMAIN list = 1..Len(list)
           /\ \A i \in DOMAIN list : list[i].name \in Name /\ list[i].position \in Nat /\ i \in Int
<1> DEFINE C == [name : Name, position : Nat]
<1>1. list \in Seq(C)
  BY DEF CueList
<1>2. Len(list) \in Nat /\ DOMAIN list = 1..Len(list) /\ \A i \in DOMAIN list : list[i] \in C /\ i \in Int
  <2> HIDE DEF C
  <2> QED BY <1>1
<1>3. \A c \in C : c.name \in Name /\ c.position \in Nat
  OBVIOUS
<1> HIDE DEF C
<1> QED BY <1>2, <1>3

\* The sort key orders the cue points, each before or behind any other.
LEMMA SortsBeforeOrders ==
    ASSUME NEW list \in CueList
    PROVE  /\ \A i \in DOMAIN list : ~SortsBefore(list, i, i)
           /\ \A i, j \in DOMAIN list : i # j => SortsBefore(list, i, j) \/ SortsBefore(list, j, i)
           /\ \A i, j, k \in DOMAIN list :
                  SortsBefore(list, i, j) /\ SortsBefore(list, j, k) => SortsBefore(list, i, k)
<1>1. \A i \in DOMAIN list : list[i].position \in Nat /\ i \in Int
  BY Cues
<1>2. \A i \in DOMAIN list : ~SortsBefore(list, i, i)
  BY <1>1 DEF SortsBefore
<1>3. \A i, j \in DOMAIN list : i # j => SortsBefore(list, i, j) \/ SortsBefore(list, j, i)
  BY <1>1 DEF SortsBefore
<1>4. \A i, j, k \in DOMAIN list :
          SortsBefore(list, i, j) /\ SortsBefore(list, j, k) => SortsBefore(list, i, k)
  BY <1>1 DEF SortsBefore
<1> QED BY <1>2, <1>3, <1>4

\* The k-th index in sorted order is one that has k - 1 before it, so that every cue point
\* comes exactly once and no later one sorts before an earlier one.
LEMMA SortedIndicesSort ==
    ASSUME NEW list \in CueList
    PROVE  LET sorted == SortedIndices(list)
               n == Len(list)
           IN  /\ n \in Nat /\ DOMAIN list = 1..n
               /\ sorted \in [1..n -> 1..n]
               /\ \A i \in 1..n : \E k \in 1..n : sorted[k] = i
               /\ \A k, l \in 1..n : k < l => SortsBefore(list, sorted[k], sorted[l])
<1> DEFINE n == Len(list)
           Before_(i) == {j \in 1..n : SortsBefore(list, j, i)}
           place == [i \in 1..n |-> Cardinality(Before_(i)) + 1]
           sorted == SortedIndices(list)
<1>1. n \in Nat /\ DOMAIN list = 1..n
  BY Cues
<1>2. /\ \A i \in 1..n : ~SortsBefore(list, i, i)
      /\ \A i, j \in 1..n : i # j => SortsBefore(list, i, j) \/ SortsBefore(list, j, i)
      /\ \A i, j, k \in 1..n :
             SortsBefore(list, i, j) /\ SortsBefore(list, j, k) => SortsBefore(list, i, k)
  BY <1>1, SortsBeforeOrders
<1> HIDE DEF n
<1>3. IsFiniteSet(1..n) /\ Cardinality(1..n) = n
  BY <1>1, FS_Interval
<1>4. \A i \in 1..n : IsFiniteSet(Before_(i)) /\ Cardinality(Before_(i)) \in Nat
  BY <1>3, FS_Subset, FS_CardinalityType
<1>5. \A i \in 1..n : place[i] \in 1..n
  <2> TAKE i \in 1..n
  <2>1. Before_(i) \in SUBSET (1..n) /\ Before_(i) # 1..n
    BY <1>2
  <2>2. Cardinality(Before_(i)) <= n /\ Cardinality(Before_(i)) # n
    <3> HIDE DEF Before_
    <3> QED BY <1>3, <2>1, FS_Subset
  <2>3. Cardinality(Before_(i)) \in Nat
    BY <1>4
  <2> HIDE DEF Before_
  <2> QED BY <1>1, <2>2, <2>3
<1>6. \A i, j \in 1..n : SortsBefore(list, i, j) => place[i] < place[j]
  <2> SUFFICES ASSUME NEW i \in 1..n, NEW j \in 1..n, SortsBefore(list, i, j)
               PROVE  place[i] < place[j]
    OBVIOUS
  <2>1. Before_(i) \in SUBSET Before_(j) /\ i \in Before_(j) /\ i \notin Before_(i)
    BY <1>2
  <2>2. /\ Cardinality(Before_(i)) <= Cardinality(Before_(j))
        /\ Cardinality(Before_(i)) # Cardinality(Before_(j))
    <3> HIDE DEF Before_
    <3> QED BY <1>4, <2>1, FS_Subset
  <2>3. Cardinality(Before_(i)) \in Nat /\ Cardinality(Before_(j)) \in Nat
    BY <1>4
  <2> HIDE DEF Before_
  <2> QED BY <2>2, <2>3
<1>0. \A i \in 1..n : Cardinality(Before_(i)) = place[i] - 1
  <2> SUFFICES ASSUME NEW i \in 1..n
               PROVE  Cardinality(Before_(i)) = place[i] - 1
    OBVIOUS
  <2>1. Cardinality(Before_(i)) \in Nat
    BY <1>4
  <2> HIDE DEF Before_
  <2> QED BY <2>1
<1> HIDE DEF place, Before_
<1>7. place \in [1..n -> 1..n]
  BY <1>5 DEF place
<1>8. \A i, j \in 1..n : place[i] = place[j] => i = j
  BY <1>1, <1>2, <1>5, <1>6
<1>9. place \in Surjection(1..n, 1..n)
  <2>1. place \in Injection(1..n, 1..n)
    BY <1>7, <1>8 DEF Injection, IsInjective
  <2> QED BY <1>3, <2>1, FS_Injection
<1>10. \A k \in 1..n : \E i \in 1..n : place[i] = k
  BY <1>9 DEF Surjection
<1>11. \A k \in 1..n : sorted[k] \in 1..n /\ place[sorted[k]] = k
  <2> TAKE k \in 1..n
  <2>1. sorted[k] = CHOOSE i \in 1..n : Cardinality(Before_(i)) = k - 1
    BY <1>1, Zenon DEF SortedIndices, Before_, n
  <2>2. \E i \in 1..n : Cardinality(Before_(i)) = k - 1
    <3>1. PICK i \in 1..n : place[i] = k
      BY <1>10
    <3> QED BY <1>0, <3>1
  <2>3. sorted[k] \in 1..n /\ Cardinality(Before_(sorted[k])) = k - 1
    <3> HIDE DEF sorted
    <3> QED BY <2>1, <2>2
  <2>4. k - 1 = place[sorted[k]] - 1
    BY <1>0, <2>3
  <2> HIDE DEF sorted
  <2> QED BY <1>1, <1>5, <2>3, <2>4
<1>12. sorted \in [1..n -> 1..n]
  <2> DEFINE kth(k) == CHOOSE i \in DOMAIN list :
                           Cardinality({j \in DOMAIN list : SortsBefore(list, j, i)}) = k - 1
  <2>1. sorted = [k \in 1..n |-> kth(k)]
    BY <1>1, Zenon DEF SortedIndices
  <2> HIDE DEF sorted, kth
  <2> QED BY <1>11, <2>1
<1>13. \A i \in 1..n : \E k \in 1..n : sorted[k] = i
  BY <1>5, <1>8, <1>11
<1>14. \A k, l \in 1..n : k < l => SortsBefore(list, sorted[k], sorted[l])
  <2> SUFFICES ASSUME NEW k \in 1..n, NEW l \in 1..n, k < l, ~SortsBefore(list, sorted[k], sorted[l])
               PROVE  FALSE
    OBVIOUS
  <2>1. sorted[k] # sorted[l]
    BY <1>1, <1>11
  <2>2. SortsBefore(list, sorted[l], sorted[k])
    BY <1>2, <1>11, <2>1
  <2>3. place[sorted[l]] < place[sorted[k]]
    BY <1>6, <1>11, <2>2
  <2> QED BY <1>1, <1>11, <2>3
<1> QED BY <1>1, <1>12, <1>13, <1>14
-----------------------------------------------------------------------------
(* The loop of parse_markers *)

\* SongsAfter is what its definition says: the recursion is well founded.
LEMMA SongsAfterStep ==
    ASSUME NEW list, Len(list) \in Nat
    PROVE  SongsAfter(list) =
             [k \in 0..Len(list) |->
                IF k = 0 THEN <<>>
                ELSE AddCue(list, SongsAfter(list)[k - 1], list[SortedIndices(list)[k]])]
<1> DEFINE F(g, k) == IF k = 0 THEN <<>> ELSE AddCue(list, g[k - 1], list[SortedIndices(list)[k]])
           n == Len(list)
           S == {m \in 0..n : \E g : g = [k \in 0..m |-> F(g, k)]}
<1> HIDE DEF n
<1>0. n \in Nat
  BY DEF n
<1>1. 0 \in S
  <2> DEFINE g0 == [k \in 0..0 |-> <<>>]
  <2>1. g0 = [k \in 0..0 |-> F(g0, k)]
    OBVIOUS
  <2> HIDE DEF g0, F
  <2> QED BY <1>0, <2>1
<1>2. ASSUME NEW m \in 0..n, m < n, m \in S
      PROVE  m + 1 \in S
  <2>1. PICK g : g = [k \in 0..m |-> F(g, k)]
    BY <1>2
  <2> DEFINE last == AddCue(list, g[m], list[SortedIndices(list)[m + 1]])
             h == [k \in 0..m + 1 |-> IF k <= m THEN g[k] ELSE last]
  <2>2. ASSUME NEW k \in 0..m + 1
        PROVE  h[k] = F(h, k)
    <3>1. CASE k = m + 1
      <4>1. h[k] = last /\ h[k - 1] = g[m] /\ k # 0 /\ k - 1 = m
        BY <1>0, <3>1
      <4> QED BY <3>1, <4>1
    <3>2. CASE k \in 0..m /\ k # 0
      <4>1. h[k] = g[k] /\ h[k - 1] = g[k - 1]
        BY <1>0, <3>2
      <4> HIDE DEF h
      <4>2. g[k] = F(g, k)
        BY <2>1, <3>2
      <4> QED BY <3>2, <4>1, <4>2
    <3>3. CASE k = 0
      <4>1. h[k] = g[k]
        BY <1>0, <3>3
      <4> HIDE DEF h
      <4> QED BY <1>0, <2>1, <3>3, <4>1
    <3> QED BY <1>0, <3>1, <3>2, <3>3
  <2>3. h = [k \in 0..m + 1 |-> F(h, k)]
    <3> HIDE DEF F
    <3> QED BY <2>2
  <2> HIDE DEF h, F
  <2> QED BY <1>0, <1>2, <2>3
<1> HIDE DEF S
<1>3. n \in S
  BY <1>0, <1>1, <1>2, Rounds
<1> DEFINE Is(g) == g = [k \in 0..n |-> F(g, k)]
<1>4. \E g : Is(g)
  BY <1>3 DEF S
<1>5. SongsAfter(list) = CHOOSE g : Is(g)
  BY DEF SongsAfter, n
<1>6. Is(CHOOSE g : Is(g))
  <2> HIDE DEF Is
  <2> QED BY <1>4
<1> QED BY <1>5, <1>6 DEF n

\* The section a cue makes: its index in Live's own list is that of an equal cue.
Section(list) ==
    {s \in [name : Name, position : Nat, cue_index : 0..Len(list) - 1, is_loop : BOOLEAN] :
        list[s.cue_index + 1].position = s.position}

Song(list) == [position : Nat, sections : Seq(Section(list))]

\* Its index is that of the last of the cues equal to the one it is made of.
LEMMA NewSectionLands ==
    ASSUME NEW list \in CueList, NEW i \in DOMAIN list, NEW loops \in BOOLEAN
    PROVE  /\ NewSection(list, list[i], loops) \in Section(list)
           /\ NewSection(list, list[i], loops).position = list[i].position
<1> DEFINE n == Len(list)
           Same == {j \in DOMAIN list : list[j] = list[i]}
           index == OriginalIndex(list, list[i])
           name == IF list[i].name \in SongHeader THEN StartName ELSE list[i].name
<1>1. n \in Nat /\ DOMAIN list = 1..n /\ list[i].name \in Name /\ list[i].position \in Nat
  BY Cues
<1>2. Same \in SUBSET (0..n) /\ i \in Same
  <2> HIDE DEF n
  <2> QED BY <1>1
<1>3. Max(Same) \in Same
  <2> HIDE DEF n, Same
  <2> QED BY <1>1, <1>2, MaxUpTo
<1>4. index = Max(Same) - 1
  BY DEF OriginalIndex
<1>5. index \in 0..n - 1 /\ list[index + 1] = list[i]
  <2> HIDE DEF n, index
  <2>1. Max(Same) \in 1..n /\ list[Max(Same)] = list[i]
    BY <1>1, <1>3
  <2>2. index + 1 = Max(Same)
    BY <1>1, <1>4, <2>1
  <2> QED BY <1>1, <1>4, <2>1, <2>2
<1>6. name \in Name
  BY <1>1, NameAssumption
<1>7. NewSection(list, list[i], loops) =
        [name |-> name, position |-> list[i].position, cue_index |-> index, is_loop |-> loops]
  BY DEF NewSection
<1> HIDE DEF name, index, Same
<1> QED BY <1>1, <1>5, <1>6, <1>7 DEF Section
Opens(cue) == cue.name \in SongHeader \cup SongStart

\* A cue that opens a song adds one, with one section; another one adds a section to the
\* last song; one that comes before all songs adds nothing.
LEMMA AddCueAdds ==
    ASSUME NEW list \in CueList, NEW songs \in Seq(Song(list)), NEW i \in DOMAIN list
    PROVE  \E section \in Section(list) :
             /\ section.position = list[i].position
             /\ Opens(list[i]) =>
                  AddCue(list, songs, list[i]) =
                    Append(songs, [position |-> list[i].position, sections |-> <<section>>])
             /\ ~Opens(list[i]) /\ songs # <<>> =>
                  AddCue(list, songs, list[i]) =
                    [songs EXCEPT ![Len(songs)].sections = Append(@, section)]
             /\ ~Opens(list[i]) /\ songs = <<>> => AddCue(list, songs, list[i]) = songs
<1>1. CASE Opens(list[i])
  <2> DEFINE section == NewSection(list, list[i], FALSE)
  <2>1. section \in Section(list) /\ section.position = list[i].position
    BY NewSectionLands
  <2>2. AddCue(list, songs, list[i]) =
          Append(songs, [position |-> list[i].position, sections |-> <<section>>])
    BY <1>1 DEF AddCue, Opens
  <2> HIDE DEF section
  <2> QED BY <1>1, <2>1, <2>2
<1>2. CASE ~Opens(list[i])
  <2> DEFINE loops == list[i].name \in LoopName
             section == NewSection(list, list[i], loops)
  <2>1. section \in Section(list) /\ section.position = list[i].position
    <3>1. loops \in BOOLEAN
      OBVIOUS
    <3> HIDE DEF loops
    <3> QED BY <3>1, NewSectionLands
  <2>2. songs # <<>> => AddCue(list, songs, list[i]) =
                          [songs EXCEPT ![Len(songs)].sections = Append(@, section)]
    BY <1>2 DEF AddCue, Opens
  <2>3. songs = <<>> => AddCue(list, songs, list[i]) = songs
    BY <1>2 DEF AddCue, Opens
  <2> HIDE DEF section
  <2> QED BY <1>2, <2>1, <2>2, <2>3
<1> QED BY <1>1, <1>2

\* A sequence with one element replaced.
LEMMA ReplaceElement ==
    ASSUME NEW S, NEW q \in Seq(S), NEW i \in 1..Len(q), NEW e \in S
    PROVE  /\ [q EXCEPT ![i] = e] \in Seq(S)
           /\ Len([q EXCEPT ![i] = e]) = Len(q)
           /\ [q EXCEPT ![i] = e][i] = e
           /\ \A j \in 1..Len(q) : j # i => [q EXCEPT ![i] = e][j] = q[j]
  OBVIOUS

\* A song with one more section at its end.
LEMMA MoreSections ==
    ASSUME NEW list, NEW song \in Song(list), NEW section \in Section(list)
    PROVE  /\ [song EXCEPT !.sections = Append(@, section)] \in Song(list)
           /\ [song EXCEPT !.sections = Append(@, section)].position = song.position
           /\ [song EXCEPT !.sections = Append(@, section)].sections = Append(song.sections, section)
<1> DEFINE more == Append(song.sections, section)
<1>1. /\ song = [position |-> song.position, sections |-> song.sections]
      /\ song.position \in Nat /\ song.sections \in Seq(Section(list))
  BY DEF Song
<1>2. more \in Seq(Section(list))
  BY <1>1
<1>3. [song EXCEPT !.sections = Append(@, section)] = [position |-> song.position, sections |-> more]
  <2> DEFINE p == song.position
             q == song.sections
  <2>1. song = [position |-> p, sections |-> q]
    BY <1>1
  <2> HIDE DEF p, q
  <2>2. [[position |-> p, sections |-> q] EXCEPT !.sections = Append(@, section)]
          = [position |-> p, sections |-> Append(q, section)]
    OBVIOUS
  <2>3. [song EXCEPT !.sections = Append(@, section)] = [position |-> p, sections |-> Append(q, section)]
    BY <2>1, <2>2
  <2> QED BY <2>3 DEF p, q
<1> HIDE DEF more
<1>4. [position |-> song.position, sections |-> more] \in Song(list)
  BY <1>1, <1>2 DEF Song
<1> QED BY <1>3, <1>4 DEF more

\* The last song with one more section at its end.
LEMMA LongerSong ==
    ASSUME NEW list, NEW songs \in Seq(Song(list)), songs # <<>>, NEW section \in Section(list),
           NEW new, new = [songs EXCEPT ![Len(songs)].sections = Append(@, section)]
    PROVE  /\ new \in Seq(Song(list)) /\ Len(new) = Len(songs) /\ Len(songs) \in 1..Len(songs)
           /\ \A s \in 1..Len(songs) : s # Len(songs) => new[s] = songs[s]
           /\ new[Len(songs)].position = songs[Len(songs)].position
           /\ new[Len(songs)].sections = Append(songs[Len(songs)].sections, section)
<1> DEFINE n == Len(songs)
           last == songs[n]
           longer == [last EXCEPT !.sections = Append(@, section)]
<1>1. n \in 1..n /\ last \in Song(list)
  OBVIOUS
<1>2. new = [songs EXCEPT ![n] = longer]
  OBVIOUS
<1>3. /\ longer.position = last.position /\ longer.sections = Append(last.sections, section)
      /\ longer \in Song(list)
  <2> HIDE DEF last
  <2> QED BY <1>1, MoreSections
<1> HIDE DEF longer, last
<1>4. /\ [songs EXCEPT ![n] = longer] \in Seq(Song(list)) /\ Len([songs EXCEPT ![n] = longer]) = n
      /\ [songs EXCEPT ![n] = longer][n] = longer
      /\ \A s \in 1..n : s # n => [songs EXCEPT ![n] = longer][s] = songs[s]
  BY <1>1, <1>3, ReplaceElement
<1> QED BY <1>1, <1>2, <1>3, <1>4, Zenon DEF last, n

\* The songs with one more song at the end.
LEMMA OneMoreSong ==
    ASSUME NEW list, NEW songs \in Seq(Song(list)), NEW section \in Section(list),
           NEW p \in Nat, NEW new, new = Append(songs, [position |-> p, sections |-> <<section>>])
    PROVE  /\ new \in Seq(Song(list)) /\ Len(new) = Len(songs) + 1 /\ Len(songs) \in Nat
           /\ \A s \in 1..Len(songs) : new[s] = songs[s]
           /\ new[Len(songs) + 1].position = p
           /\ Len(new[Len(songs) + 1].sections) = 1
           /\ new[Len(songs) + 1].sections[1] = section
<1> DEFINE song == [position |-> p, sections |-> <<section>>]
<1>1. /\ song \in Song(list) /\ song.position = p
      /\ Len(song.sections) = 1 /\ song.sections[1] = section
  BY DEF Song
<1> HIDE DEF song
<1>2. new = Append(songs, song)
  BY DEF song
<1>3. /\ new \in Seq(Song(list)) /\ Len(new) = Len(songs) + 1 /\ new[Len(songs) + 1] = song
      /\ Len(songs) \in Nat /\ \A s \in 1..Len(songs) : new[s] = songs[s]
  BY <1>1, <1>2
<1> QED BY <1>1, <1>3

\* The sections of a song.
LEMMA SongFields ==
    ASSUME NEW list, NEW songs \in Seq(Song(list)), NEW s \in 1..Len(songs)
    PROVE  /\ songs[s].position \in Nat /\ songs[s].sections \in Seq(Section(list))
           /\ Len(songs[s].sections) \in Nat
           /\ \A k \in 1..Len(songs[s].sections) :
                  /\ songs[s].sections[k] \in Section(list)
                  /\ songs[s].sections[k].position \in Nat
<1> DEFINE song == songs[s]
<1>1. song \in Song(list)
  OBVIOUS
<1> HIDE DEF song
<1>2. song.position \in Nat /\ song.sections \in Seq(Section(list))
  BY <1>1 DEF Song
<1> DEFINE sections == song.sections
<1> HIDE DEF sections
<1>3. Len(sections) \in Nat /\ \A k \in 1..Len(sections) : sections[k] \in Section(list)
  BY <1>2 DEF sections
<1>4. \A x \in Section(list) : x.position \in Nat
  BY DEF Section
<1> QED BY <1>2, <1>3, <1>4 DEF song, sections

\* The sections of some songs.
Ids(songs) == {id \in (1..Len(songs)) \X Nat : id[2] \in 1..Len(songs[id[1]].sections)}

\* Songs start where their first sections do, and no section starts before an earlier one.
Ordered(songs) ==
    /\ \A s \in 1..Len(songs) : /\ Len(songs[s].sections) >= 1
                                /\ songs[s].position = songs[s].sections[1].position
    /\ \A s, t \in 1..Len(songs) :
         \A k \in 1..Len(songs[s].sections), l \in 1..Len(songs[t].sections) :
             s < t \/ (s = t /\ k < l) =>
                songs[s].sections[k].position <= songs[t].sections[l].position

\* No section starts after p, and no song has more than n.
Bounded(songs, p, n) ==
    \A s \in 1..Len(songs) : /\ Len(songs[s].sections) <= n
                             /\ \A k \in 1..Len(songs[s].sections) : songs[s].sections[k].position <= p
\* One more cue, no earlier than the sections so far, adds at most one section, at the end.
LEMMA AddCueKeeps ==
    ASSUME NEW list \in CueList, NEW songs \in Seq(Song(list)), NEW i \in DOMAIN list, NEW n \in Nat,
           Ordered(songs), Bounded(songs, list[i].position, n)
    PROVE  LET new == AddCue(list, songs, list[i])
           IN  /\ new \in Seq(Song(list)) /\ Ordered(new) /\ Bounded(new, list[i].position, n + 1)
               /\ Opens(list[i]) => Len(new) = Len(songs) + 1
               /\ ~Opens(list[i]) => Len(new) = Len(songs)
               /\ Opens(list[i]) \/ songs # <<>> =>
                      \E id : id \notin Ids(songs) /\ Ids(new) = Ids(songs) \cup {id}
               /\ ~Opens(list[i]) /\ songs = <<>> => new = songs
<1> DEFINE new == AddCue(list, songs, list[i])
           p == list[i].position
           m == Len(songs)
<1>1. p \in Nat /\ m \in Nat
  BY Cues
<1>2. PICK section \in Section(list) :
        /\ section.position = p
        /\ Opens(list[i]) => new = Append(songs, [position |-> p, sections |-> <<section>>])
        /\ ~Opens(list[i]) /\ songs # <<>> =>
             new = [songs EXCEPT ![Len(songs)].sections = Append(@, section)]
        /\ ~Opens(list[i]) /\ songs = <<>> => new = songs
  BY AddCueAdds, Zenon
<1>3. \A s \in 1..m : /\ Len(songs[s].sections) \in Nat
                      /\ \A k \in 1..Len(songs[s].sections) : songs[s].sections[k].position \in Nat
  BY SongFields
<1> HIDE DEF new, p
<1>4. CASE Opens(list[i])
  <2>1. /\ new \in Seq(Song(list)) /\ Len(new) = m + 1
        /\ \A s \in 1..m : new[s] = songs[s]
        /\ new[m + 1].position = p
    BY <1>1, <1>2, <1>4, OneMoreSong
  <2>2. Len(new[m + 1].sections) = 1 /\ new[m + 1].sections[1] = section
    BY <1>1, <1>2, <1>4, OneMoreSong
  <2> HIDE DEF m
  <2>3. Ordered(new)
    <3>1. \A s \in 1..Len(new) : /\ Len(new[s].sections) >= 1
                                 /\ new[s].position = new[s].sections[1].position
      BY <1>1, <1>2, <2>1, <2>2 DEF Ordered, m
    <3>2. ASSUME NEW s \in 1..Len(new), NEW t \in 1..Len(new),
                 NEW k \in 1..Len(new[s].sections), NEW l \in 1..Len(new[t].sections),
                 s < t \/ (s = t /\ k < l)
          PROVE  new[s].sections[k].position <= new[t].sections[l].position
      <4>1. CASE t = m + 1
        <5>1. new[t].sections[l].position = p
          BY <1>2, <2>1, <2>2, <4>1
        <5>2. CASE s = t
          BY <1>1, <2>1, <2>2, <3>2, <4>1, <5>2
        <5>3. CASE s # t
          <6>1. s \in 1..m
            BY <1>1, <2>1, <4>1, <5>3
          <6> QED BY <2>1, <5>1, <6>1 DEF Bounded, m, p
        <5> QED BY <5>2, <5>3
      <4>2. CASE t # m + 1
        <5>1. s \in 1..m /\ t \in 1..m
          BY <1>1, <2>1, <3>2, <4>2
        <5> QED BY <2>1, <3>2, <5>1 DEF Ordered, m
      <4> QED BY <4>1, <4>2
    <3> QED BY <3>1, <3>2 DEF Ordered
  <2>4. Bounded(new, p, n + 1)
    <3> SUFFICES ASSUME NEW s \in 1..Len(new)
                 PROVE  /\ Len(new[s].sections) <= n + 1
                        /\ \A k \in 1..Len(new[s].sections) : new[s].sections[k].position <= p
      BY DEF Bounded
    <3>1. CASE s = m + 1
      <4>1. Len(new[s].sections) = 1 /\ new[s].sections[1].position = p
        BY <1>2, <2>2, <3>1, Zenon
      <4>2. ASSUME NEW k \in 1..Len(new[s].sections)
            PROVE  k = 1
        BY <4>1
      <4> QED BY <1>1, <4>1, <4>2
    <3>2. CASE s \in 1..m
      BY <1>3, <2>1, <3>2 DEF Bounded, m, p
    <3> QED BY <1>1, <2>1, <3>1, <3>2
  <2>5. <<m + 1, 1>> \notin Ids(songs) /\ Ids(new) = Ids(songs) \cup {<<m + 1, 1>>}
    <3>1. <<m + 1, 1>> \notin Ids(songs)
      BY <1>1 DEF Ids, m
    <3>2. ASSUME NEW id \in Ids(new)
          PROVE  id \in Ids(songs) \cup {<<m + 1, 1>>}
      <4>1. id = <<id[1], id[2]>> /\ id[1] \in 1..Len(new) /\ id[2] \in Nat /\ id[2] \in 1..Len(new[id[1]].sections)
        BY <3>2 DEF Ids
      <4>2. CASE id[1] = m + 1
        <5>1. Len(new[id[1]].sections) = 1
          BY <2>2, <4>2, Zenon
        <5>2. id[2] = 1
          BY <4>1, <5>1
        <5> QED BY <4>1, <4>2, <5>2
      <4>3. CASE id[1] \in 1..m
        BY <2>1, <3>2, <4>1, <4>3 DEF Ids, m
      <4> QED BY <1>1, <2>1, <4>1, <4>2, <4>3
    <3>3. ASSUME NEW id \in Ids(songs)
          PROVE  id \in Ids(new)
      BY <1>1, <2>1, <3>3 DEF Ids, m
    <3>4. <<m + 1, 1>> \in Ids(new)
      BY <1>1, <2>1, <2>2 DEF Ids
    <3> QED BY <3>1, <3>2, <3>3, <3>4
  <2> QED BY <1>4, <2>1, <2>3, <2>4, <2>5 DEF new, p, m
<1>5. CASE ~Opens(list[i]) /\ songs # <<>>
  <2> DEFINE was == songs[m].sections
  <2>1. /\ new \in Seq(Song(list)) /\ Len(new) = m /\ m \in 1..m
        /\ \A s \in 1..m : s # m => new[s] = songs[s]
        /\ new[m].position = songs[m].position
        /\ new[m].sections = Append(was, section)
    BY <1>2, <1>5, LongerSong
  <2>2. was \in Seq(Section(list))
    BY <2>1, SongFields
  <2> DEFINE c == Len(was)
  <2> HIDE DEF was
  <2>3. /\ c \in Nat /\ Len(new[m].sections) = c + 1 /\ new[m].sections[c + 1] = section
        /\ \A k \in 1..c : new[m].sections[k] = was[k]
    BY <2>1, <2>2
  <2>4. c >= 1 /\ c <= n
    BY <2>1 DEF Ordered, Bounded, was
  <2> HIDE DEF m, c
  <2>5. \A s \in 1..m : \A k \in 1..Len(new[s].sections) :
            \/ s = m /\ k = c + 1 /\ new[s].sections[k] = section
            \/ k \in 1..Len(songs[s].sections) /\ new[s].sections[k] = songs[s].sections[k]
    <3> SUFFICES ASSUME NEW s \in 1..m, NEW k \in 1..Len(new[s].sections)
                 PROVE  \/ s = m /\ k = c + 1 /\ new[s].sections[k] = section
                        \/ k \in 1..Len(songs[s].sections) /\ new[s].sections[k] = songs[s].sections[k]
      OBVIOUS
    <3>1. CASE s # m
      BY <2>1, <3>1
    <3>2. CASE s = m /\ k = c + 1
      BY <2>3, <3>2
    <3>3. CASE s = m /\ k # c + 1
      <4>1. k \in 1..c
        BY <2>3, <3>3
      <4> QED BY <2>3, <3>3, <4>1 DEF was, c
    <3> QED BY <3>1, <3>2, <3>3
  <2>6. \A s \in 1..m : \A k \in 1..Len(songs[s].sections) :
            k \in 1..Len(new[s].sections) /\ ~(s = m /\ k = c + 1)
    <3> SUFFICES ASSUME NEW s \in 1..m, NEW k \in 1..Len(songs[s].sections)
                 PROVE  k \in 1..Len(new[s].sections) /\ ~(s = m /\ k = c + 1)
      OBVIOUS
    <3>1. CASE s # m
      BY <2>1, <3>1
    <3>2. CASE s = m
      <4>1. k \in 1..c
        BY <3>2 DEF was, c
      <4>2. k \in 1..c + 1 /\ k # c + 1
        BY <2>3, <4>1
      <4> QED BY <2>3, <3>2, <4>2
    <3> QED BY <3>1, <3>2
  <2>7. Ordered(new)
    <3>1. ASSUME NEW s \in 1..m
          PROVE  Len(new[s].sections) >= 1 /\ new[s].position = new[s].sections[1].position
      <4>1. CASE s = m
        <5>1. new[m].sections[1] = was[1] /\ songs[m].position = was[1].position
          BY <2>1, <2>3, <2>4 DEF Ordered, was, m
        <5> QED BY <2>1, <2>3, <2>4, <4>1, <5>1
      <4>2. CASE s # m
        BY <2>1, <4>2 DEF Ordered, m
      <4> QED BY <4>1, <4>2
    <3>2. ASSUME NEW s \in 1..m, NEW t \in 1..m,
                 NEW k \in 1..Len(new[s].sections), NEW l \in 1..Len(new[t].sections),
                 s < t \/ (s = t /\ k < l)
          PROVE  new[s].sections[k].position <= new[t].sections[l].position
      <4>1. CASE ~(s = m /\ k = c + 1) /\ ~(t = m /\ l = c + 1)
        BY <2>5, <3>2, <4>1 DEF Ordered, m
      <4>2. CASE t = m /\ l = c + 1
        <5>1. ~(s = m /\ k = c + 1)
          BY <1>1, <2>3, <3>2, <4>2
        <5>2. songs[s].sections[k].position <= p
          BY <2>5, <5>1 DEF Bounded, m, p
        <5> QED BY <1>2, <2>3, <2>5, <4>2, <5>1, <5>2
      <4>3. CASE s = m /\ k = c + 1
        <5>1. l \in 1..(c + 1) /\ t = m
          BY <1>1, <2>3, <3>2, <4>3
        <5> QED BY <1>1, <2>3, <3>2, <4>3, <5>1
      <4> QED BY <4>1, <4>2, <4>3
    <3> QED BY <2>1, <3>1, <3>2 DEF Ordered
  <2>8. Bounded(new, p, n + 1)
    <3> SUFFICES ASSUME NEW s \in 1..m
                 PROVE  /\ Len(new[s].sections) <= n + 1
                        /\ \A k \in 1..Len(new[s].sections) : new[s].sections[k].position <= p
      BY <2>1 DEF Bounded
    <3>1. Len(new[s].sections) <= n + 1
      <4>1. CASE s = m
        BY <2>3, <2>4, <4>1
      <4>2. CASE s # m
        BY <1>3, <2>1, <4>2 DEF Bounded, m
      <4> QED BY <4>1, <4>2
    <3>2. ASSUME NEW k \in 1..Len(new[s].sections)
          PROVE  new[s].sections[k].position <= p
      <4>1. CASE s = m /\ k = c + 1
        BY <1>1, <1>2, <2>3, <4>1
      <4>2. CASE ~(s = m /\ k = c + 1)
        BY <2>5, <4>2 DEF Bounded, m, p
      <4> QED BY <4>1, <4>2
    <3> QED BY <3>1, <3>2
  <2>9. <<m, c + 1>> \notin Ids(songs) /\ Ids(new) = Ids(songs) \cup {<<m, c + 1>>}
    <3>1. <<m, c + 1>> \notin Ids(songs)
      BY <2>3 DEF Ids, m, c, was
    <3>2. ASSUME NEW id \in Ids(new)
          PROVE  id \in Ids(songs) \cup {<<m, c + 1>>}
      <4>1. id = <<id[1], id[2]>> /\ id[1] \in 1..m /\ id[2] \in Nat /\ id[2] \in 1..Len(new[id[1]].sections)
        BY <2>1, <3>2 DEF Ids
      <4>2. (id[1] = m /\ id[2] = c + 1) \/ id[2] \in 1..Len(songs[id[1]].sections)
        BY <2>5, <4>1
      <4>3. CASE id[2] \in 1..Len(songs[id[1]].sections)
        BY <2>1, <3>2, <4>1, <4>3 DEF Ids, m
      <4> QED BY <4>1, <4>2, <4>3
    <3>3. ASSUME NEW id \in Ids(songs)
          PROVE  id \in Ids(new)
      BY <2>1, <2>6, <3>3 DEF Ids, m
    <3>4. <<m, c + 1>> \in Ids(new)
      BY <2>1, <2>3 DEF Ids
    <3> QED BY <3>1, <3>2, <3>3, <3>4
  <2> QED BY <1>5, <2>1, <2>7, <2>8, <2>9 DEF new, p, m
<1>6. CASE ~Opens(list[i]) /\ songs = <<>>
  <2>1. new = songs
    BY <1>2, <1>6
  <2>2. Bounded(songs, p, n + 1)
    BY <1>6 DEF Bounded
  <2> QED BY <1>6, <2>1, <2>2 DEF new, p, m
<1> QED BY <1>4, <1>5, <1>6
\* The cue points that are dealt with after the first k rounds of the loop.
Dealt(list, k) == {SortedIndices(list)[l] : l \in 1..k}

Starts(list) == {i \in DOMAIN list : list[i].name \in SongHeader \cup SongStart}
Early(list) == {i \in DOMAIN list : \A j \in Starts(list) : SortsBefore(list, i, j)}

\* The loop's invariant: the songs are in order, none of their sections is later than what
\* is still to come, and there are as many of each as the cue points dealt with call for.
LoopInv(list, k) ==
    LET songs == SongsAfter(list)[k]
    IN  /\ songs \in Seq(Song(list)) /\ Ordered(songs)
        /\ \A l \in k + 1..Len(list) : Bounded(songs, list[SortedIndices(list)[l]].position, k)
        /\ k = Len(list) => \A s \in 1..Len(songs) : Len(songs[s].sections) <= k
        /\ Len(songs) = Cardinality(Dealt(list, k) \cap Starts(list))
        /\ IsFiniteSet(Ids(songs))
        /\ Cardinality(Ids(songs)) = Cardinality(Dealt(list, k) \ Early(list))

\* Before the first cue there are no songs.
LEMMA LoopStarts ==
    ASSUME NEW list \in CueList
    PROVE  LoopInv(list, 0)
<1>1. Len(list) \in Nat
  BY Cues
<1>2. SongsAfter(list)[0] = <<>>
  <2>1. 0 \in 0..Len(list)
    BY <1>1
  <2> QED BY <1>1, <2>1, SongsAfterStep
<1>3. Dealt(list, 0) = {}
  BY DEF Dealt
<1>4. Ids(<<>>) = {}
  BY DEF Ids
<1>5. <<>> \in Seq(Song(list)) /\ Ordered(<<>>)
  BY DEF Ordered
<1>6. \A p, n : Bounded(<<>>, p, n)
  BY DEF Bounded
<1>7. IsFiniteSet({}) /\ Cardinality({}) = 0
  BY FS_EmptySet
<1>8. Dealt(list, 0) \cap Starts(list) = {} /\ Dealt(list, 0) \ Early(list) = {}
  BY <1>3
<1>9. Len(<<>>) = 0
  OBVIOUS
<1>10. \A s \in 1..Len(<<>>) : Len(<<>>[s].sections) <= 0
  BY <1>9
<1> QED BY <1>2, <1>4, <1>5, <1>6, <1>7, <1>8, <1>9, <1>10, Zenon DEF LoopInv

\* The next cue in sorted order is new; if it opens no song, it is early just when no song
\* has been opened.
LEMMA NextCue ==
    ASSUME NEW list \in CueList, NEW k \in Nat, k < Len(list)
    PROVE  LET i == SortedIndices(list)[k + 1]
           IN  /\ i \in DOMAIN list /\ i \notin Dealt(list, k)
               /\ Dealt(list, k + 1) = Dealt(list, k) \cup {i}
               /\ Dealt(list, k) \subseteq DOMAIN list
               /\ Opens(list[i]) <=> i \in Starts(list)
               /\ Opens(list[i]) => i \notin Early(list)
               /\ ~Opens(list[i]) => (i \in Early(list) <=> Dealt(list, k) \cap Starts(list) = {})
               /\ \A l \in k + 2..Len(list) :
                      list[i].position <= list[SortedIndices(list)[l]].position
<1> DEFINE n == Len(list)
           sorted == SortedIndices(list)
           i == sorted[k + 1]
<1>1. /\ n \in Nat /\ DOMAIN list = 1..n
      /\ sorted \in [1..n -> 1..n]
      /\ \A j \in 1..n : \E l \in 1..n : sorted[l] = j
      /\ \A l, m \in 1..n : l < m => SortsBefore(list, sorted[l], sorted[m])
  BY SortedIndicesSort
<1>2. /\ \A j \in 1..n : ~SortsBefore(list, j, j)
      /\ \A j, l, m \in 1..n : SortsBefore(list, j, l) /\ SortsBefore(list, l, m) => SortsBefore(list, j, m)
  BY <1>1, SortsBeforeOrders
<1> HIDE DEF sorted, n
<1>3. i \in 1..n /\ k + 1 \in 1..n
  <2>1. k < n
    BY DEF n
  <2>2. k + 1 \in 1..n
    BY <1>1, <2>1
  <2> QED BY <1>1, <2>2
<1> HIDE DEF i
<1>4. i \notin Dealt(list, k)
  <2> SUFFICES ASSUME NEW l \in 1..k, sorted[l] = i
               PROVE  FALSE
    BY DEF Dealt, sorted
  <2>1. l \in 1..n /\ l < k + 1
    BY <1>1, <1>3
  <2> QED BY <1>1, <1>2, <1>3, <2>1 DEF i
<1>5. Dealt(list, k + 1) = Dealt(list, k) \cup {i}
  <2>1. 1..k + 1 = (1..k) \cup {k + 1}
    OBVIOUS
  <2> QED BY <2>1, Zenon DEF Dealt, sorted, i
<1>6. Dealt(list, k) \subseteq DOMAIN list
  <2> SUFFICES ASSUME NEW l \in 1..k
               PROVE  sorted[l] \in 1..n
    BY <1>1 DEF Dealt, sorted
  <2>1. l \in 1..n
    BY <1>1, <1>3
  <2> QED BY <1>1, <2>1
<1>7. Opens(list[i]) <=> i \in Starts(list)
  BY <1>1, <1>3 DEF Opens, Starts
<1>8. Opens(list[i]) => i \notin Early(list)
  BY <1>2, <1>3, <1>7 DEF Early
<1>9. ASSUME ~Opens(list[i])
      PROVE  i \in Early(list) <=> Dealt(list, k) \cap Starts(list) = {}
  <2>1. ASSUME i \in Early(list), NEW j \in Dealt(list, k), j \in Starts(list)
        PROVE  FALSE
    <3>1. PICK l \in 1..k : j = sorted[l]
      BY <2>1 DEF Dealt, sorted
    <3>2. SortsBefore(list, j, i) /\ j \in 1..n
      BY <1>1, <1>3, <3>1 DEF i
    <3>3. SortsBefore(list, i, j)
      BY <2>1 DEF Early
    <3> QED BY <1>2, <1>3, <3>2, <3>3
  <2>2. ASSUME Dealt(list, k) \cap Starts(list) = {}, NEW j \in Starts(list)
        PROVE  SortsBefore(list, i, j)
    <3>1. j \in 1..n
      BY <1>1 DEF Starts
    <3>2. PICK l \in 1..n : sorted[l] = j
      BY <1>1, <3>1
    <3>3. l \notin 1..k
      BY <2>2, <3>2 DEF Dealt, sorted
    <3>4. l # k + 1
      BY <1>7, <1>9, <2>2, <3>2 DEF i
    <3>5. k + 1 < l
      BY <1>1, <3>3, <3>4
    <3> QED BY <1>1, <1>3, <3>2, <3>5 DEF i
  <2>3. Dealt(list, k) \cap Starts(list) = {} => i \in Early(list)
    BY <1>1, <1>3, <2>2 DEF Early
  <2> QED BY <2>1, <2>3
<1>10. \A l \in k + 2..n : list[i].position <= list[sorted[l]].position
  <2> SUFFICES ASSUME NEW l \in k + 2..n
               PROVE  list[i].position <= list[sorted[l]].position
    OBVIOUS
  <2>0. l \in 1..n /\ k + 1 < l
    BY <1>1, <1>3
  <2>1. SortsBefore(list, i, sorted[l]) /\ sorted[l] \in 1..n
    BY <1>1, <1>3, <2>0 DEF i
  <2>2. list[i].position \in Nat /\ list[sorted[l]].position \in Nat
    BY <1>1, <1>3, <2>1, Cues
  <2> QED BY <2>1, <2>2 DEF SortsBefore
<1> QED BY <1>1, <1>3, <1>4, <1>5, <1>6, <1>7, <1>8, <1>9, <1>10, Zenon DEF n, sorted, i

\* One more cue keeps the invariant, whether it opens a song, adds to one or is dropped.
LEMMA LoopGoesOn ==
    ASSUME NEW list \in CueList, NEW k \in Nat, k < Len(list), LoopInv(list, k)
    PROVE  LoopInv(list, k + 1)
<1> DEFINE n == Len(list)
           i == SortedIndices(list)[k + 1]
           songs == SongsAfter(list)[k]
           new == SongsAfter(list)[k + 1]
           begun == Dealt(list, k) \cap Starts(list)
           kept == Dealt(list, k) \ Early(list)
<1>1. n \in Nat /\ DOMAIN list = 1..n
  BY Cues
<1>2. /\ i \in DOMAIN list /\ i \notin Dealt(list, k)
      /\ Dealt(list, k + 1) = Dealt(list, k) \cup {i}
      /\ Dealt(list, k) \subseteq DOMAIN list
      /\ Opens(list[i]) <=> i \in Starts(list)
      /\ Opens(list[i]) => i \notin Early(list)
      /\ ~Opens(list[i]) => (i \in Early(list) <=> begun = {})
      /\ \A l \in k + 2..n : list[i].position <= list[SortedIndices(list)[l]].position
  BY NextCue
<1>3. new = AddCue(list, songs, list[i])
  <2>1. k + 1 \in 0..n /\ k + 1 # 0 /\ (k + 1) - 1 = k
    BY <1>1
  <2>2. new = IF k + 1 = 0 THEN <<>>
              ELSE AddCue(list, SongsAfter(list)[(k + 1) - 1], list[SortedIndices(list)[k + 1]])
    BY <1>1, <2>1, SongsAfterStep
  <2> QED BY <2>1, <2>2
<1>4. /\ songs \in Seq(Song(list)) /\ Ordered(songs) /\ Bounded(songs, list[i].position, k)
      /\ Len(songs) = Cardinality(begun)
      /\ IsFiniteSet(Ids(songs)) /\ Cardinality(Ids(songs)) = Cardinality(kept)
  <2>1. k + 1 \in k + 1..n
    BY <1>1
  <2> QED BY <2>1, Zenon DEF LoopInv
<1>5. IsFiniteSet(begun) /\ IsFiniteSet(kept)
  <2>1. IsFiniteSet(DOMAIN list)
    BY <1>1, FS_Interval
  <2>2. begun \in SUBSET (DOMAIN list) /\ kept \in SUBSET (DOMAIN list)
    BY <1>2
  <2> HIDE DEF begun, kept
  <2> QED BY <2>1, <2>2, FS_Subset
<1>6. songs = <<>> <=> begun = {}
  <2>1. songs = <<>> <=> Len(songs) = 0
    BY <1>4
  <2>2. Cardinality(begun) = 0 <=> begun = {}
    <3> HIDE DEF begun
    <3> QED BY <1>5, FS_EmptySet
  <2> QED BY <1>4, <2>1, <2>2, Zenon
<1> HIDE DEF i, songs, new
<1>7. /\ new \in Seq(Song(list)) /\ Ordered(new) /\ Bounded(new, list[i].position, k + 1)
      /\ Opens(list[i]) => Len(new) = Len(songs) + 1
      /\ ~Opens(list[i]) => Len(new) = Len(songs)
      /\ Opens(list[i]) \/ songs # <<>> =>
             \E id : id \notin Ids(songs) /\ Ids(new) = Ids(songs) \cup {id}
      /\ ~Opens(list[i]) /\ songs = <<>> => new = songs
  BY <1>2, <1>3, <1>4, AddCueKeeps
<1>8. ASSUME NEW l \in k + 2..n
      PROVE  Bounded(new, list[SortedIndices(list)[l]].position, k + 1)
  <2> DEFINE p == list[i].position
             q == list[SortedIndices(list)[l]].position
  <2>1. p <= q
    BY <1>2
  <2>2. p \in Nat /\ q \in Nat
    <3>1. l \in 1..n
      BY <1>1
    <3>2. SortedIndices(list)[l] \in 1..n
      BY <3>1, SortedIndicesSort
    <3> QED BY <1>1, <1>2, <3>2, Cues
  <2> HIDE DEF p, q
  <2>3. \A s \in 1..Len(new) : \A j \in 1..Len(new[s].sections) : new[s].sections[j].position \in Nat
    BY <1>7, SongFields
  <2>4. Bounded(new, p, k + 1)
    BY <1>7 DEF p
  <2>5. Bounded(new, q, k + 1)
    BY <2>1, <2>2, <2>3, <2>4 DEF Bounded
  <2> QED BY <2>5 DEF q
<1>9. \A s \in 1..Len(new) : Len(new[s].sections) <= k + 1
  BY <1>7 DEF Bounded
<1>10. Len(new) = Cardinality(Dealt(list, k + 1) \cap Starts(list))
  <2>1. CASE Opens(list[i])
    <3>1. Dealt(list, k + 1) \cap Starts(list) = begun \cup {i} /\ i \notin begun
      BY <1>2, <2>1
    <3> HIDE DEF begun
    <3>2. Cardinality(begun \cup {i}) = Cardinality(begun) + 1
      BY <1>5, <3>1, FS_AddElement
    <3> QED BY <1>4, <1>7, <2>1, <3>1, <3>2
  <2>2. CASE ~Opens(list[i])
    <3>1. Dealt(list, k + 1) \cap Starts(list) = begun
      BY <1>2, <2>2
    <3> HIDE DEF begun
    <3> QED BY <1>4, <1>7, <2>2, <3>1
  <2> QED BY <2>1, <2>2
<1>11. /\ IsFiniteSet(Ids(new))
       /\ Cardinality(Ids(new)) = Cardinality(Dealt(list, k + 1) \ Early(list))
  <2>1. CASE Opens(list[i]) \/ songs # <<>>
    <3>1. PICK id : id \notin Ids(songs) /\ Ids(new) = Ids(songs) \cup {id}
      BY <1>7, <2>1
    <3>2. Dealt(list, k + 1) \ Early(list) = kept \cup {i} /\ i \notin kept
      BY <1>2, <1>6, <2>1
    <3> HIDE DEF kept
    <3>3. Cardinality(kept \cup {i}) = Cardinality(kept) + 1
      BY <1>5, <3>2, FS_AddElement
    <3>4. IsFiniteSet(Ids(new)) /\ Cardinality(Ids(new)) = Cardinality(Ids(songs)) + 1
      BY <1>4, <3>1, FS_AddElement
    <3> QED BY <1>4, <3>2, <3>3, <3>4, Zenon
  <2>2. CASE ~Opens(list[i]) /\ songs = <<>>
    <3>1. new = songs
      BY <1>7, <2>2
    <3>2. Dealt(list, k + 1) \ Early(list) = kept
      BY <1>2, <1>6, <2>2
    <3> QED BY <1>4, <3>1, <3>2, Zenon
  <2> QED BY <2>1, <2>2
<1>12. (k + 1) + 1 = k + 2
  OBVIOUS
<1> QED BY <1>7, <1>8, <1>9, <1>10, <1>11, <1>12, Zenon DEF LoopInv, new, n

\* What the loop has made when it ends.
LEMMA LoopEnds ==
    ASSUME NEW list \in CueList
    PROVE  LoopInv(list, Len(list))
<1> DEFINE S == {k \in 0..Len(list) : LoopInv(list, k)}
<1>1. Len(list) \in Nat
  BY Cues
<1>2. 0 \in S
  BY <1>1, LoopStarts
<1>3. ASSUME NEW k \in 0..Len(list), k < Len(list), k \in S
      PROVE  k + 1 \in S
  <2>1. k \in Nat /\ LoopInv(list, k) /\ k + 1 \in 0..Len(list)
    BY <1>1, <1>3
  <2>2. LoopInv(list, k + 1)
    BY <1>3, <2>1, LoopGoesOn
  <2> QED BY <2>1, <2>2
<1>4. Len(list) \in S
  <2>1. Len(list) \in 0..Len(list)
    BY <1>1
  <2> HIDE DEF S
  <2>2. \A k \in 0..Len(list) : k < Len(list) /\ k \in S => k + 1 \in S
    BY <1>3
  <2>3. \A k \in 0..Len(list) : k \in S
    BY <1>1, <1>2, <2>2, Rounds
  <2> QED BY <2>1, <2>3
<1> QED BY <1>4
-----------------------------------------------------------------------------
(* What the bridge reads of Live's reply *)

\* ReadUpTo is what its definition says: the recursion is well founded.
LEMMA ReadUpToStep ==
    ASSUME NEW args, Len(args) \in Nat
    PROVE  /\ ReadUpTo(args)[0] = [cues |-> <<>>, name |-> NoName]
           /\ \A k \in 1..Len(args) :
                LET r == ReadUpTo(args)[k - 1]
                    arg == args[k]
                IN  /\ r.name # NoName /\ IsNumber(arg) =>
                          ReadUpTo(args)[k] =
                            [cues |-> Append(r.cues, Cue(r.name, arg.number)), name |-> NoName]
                    /\ ~IsNumber(arg) => ReadUpTo(args)[k] = [r EXCEPT !.name = arg.word]
<1> DEFINE read(r, arg) ==
             CASE r.name # NoName /\ IsNumber(arg) ->
                     [cues |-> Append(r.cues, Cue(r.name, arg.number)), name |-> NoName]
               [] ~IsNumber(arg) -> [r EXCEPT !.name = arg.word]
               [] OTHER -> r
           none == [cues |-> <<>>, name |-> NoName]
           F(g, k) == IF k = 0 THEN none ELSE read(g[k - 1], args[k])
           n == Len(args)
           S == {m \in 0..n : \E g : g = [k \in 0..m |-> F(g, k)]}
           Is(g) == g = [k \in 0..n |-> F(g, k)]
<1>1. ReadUpTo(args) = CHOOSE g : Is(g)
  BY DEF ReadUpTo
<1> HIDE DEF n, none, read
<1>0. n \in Nat
  BY DEF n
<1>2. 0 \in S
  <2> DEFINE g0 == [k \in 0..0 |-> none]
  <2>1. g0 = [k \in 0..0 |-> F(g0, k)]
    OBVIOUS
  <2> HIDE DEF g0, F
  <2> QED BY <1>0, <2>1
<1>3. ASSUME NEW m \in 0..n, m < n, m \in S
      PROVE  m + 1 \in S
  <2>1. PICK g : g = [k \in 0..m |-> F(g, k)]
    BY <1>3
  <2> DEFINE last == read(g[m], args[m + 1])
             h == [k \in 0..m + 1 |-> IF k <= m THEN g[k] ELSE last]
  <2>2. ASSUME NEW k \in 0..m + 1
        PROVE  h[k] = F(h, k)
    <3>1. CASE k = m + 1
      <4>1. h[k] = last /\ h[k - 1] = g[m] /\ k # 0 /\ k - 1 = m
        BY <1>0, <3>1
      <4> QED BY <3>1, <4>1
    <3>2. CASE k \in 0..m /\ k # 0
      <4>1. h[k] = g[k] /\ h[k - 1] = g[k - 1]
        BY <1>0, <3>2
      <4> HIDE DEF h
      <4>2. g[k] = F(g, k)
        BY <2>1, <3>2
      <4> QED BY <3>2, <4>1, <4>2
    <3>3. CASE k = 0
      <4>1. h[k] = g[k]
        BY <1>0, <3>3
      <4> HIDE DEF h
      <4> QED BY <1>0, <2>1, <3>3, <4>1
    <3> QED BY <1>0, <3>1, <3>2, <3>3
  <2>3. h = [k \in 0..m + 1 |-> F(h, k)]
    <3> HIDE DEF F
    <3> QED BY <2>2
  <2> HIDE DEF h, F
  <2> QED BY <1>0, <1>3, <2>3
<1>4. n \in S
  <2> HIDE DEF S
  <2>1. \A m \in 0..n : m < n /\ m \in S => m + 1 \in S
    BY <1>3
  <2>2. n \in 0..n
    BY <1>0
  <2> QED BY <1>0, <1>2, <2>1, <2>2, Rounds
<1>5. \E g : Is(g)
  BY <1>4
<1>6. Is(CHOOSE g : Is(g))
  <2> HIDE DEF Is
  <2> QED BY <1>5
<1> DEFINE f == ReadUpTo(args)
<1> HIDE DEF f
<1>7. f = [k \in 0..n |-> F(f, k)]
  <2> HIDE DEF F
  <2> QED BY <1>1, <1>6 DEF f
<1>8. f[0] = none
  BY <1>0, <1>7
<1>9. ASSUME NEW k \in 1..n
      PROVE  f[k] = read(f[k - 1], args[k])
  <2>1. k \in 0..n /\ k # 0
    BY <1>0
  <2>2. f[k] = F(f, k)
    <3> HIDE DEF F
    <3> QED BY <1>7, <2>1
  <2> QED BY <2>1, <2>2
<1>10. ASSUME NEW r, NEW arg
       PROVE  /\ r.name # NoName /\ IsNumber(arg) =>
                    read(r, arg) = [cues |-> Append(r.cues, Cue(r.name, arg.number)), name |-> NoName]
              /\ ~IsNumber(arg) => read(r, arg) = [r EXCEPT !.name = arg.word]
  BY DEF read
<1> QED BY <1>8, <1>9, <1>10, Zenon DEF f, n, none

\* What Live replies has two arguments for every cue point.
LEMMA ReplyArgs ==
    ASSUME NEW list \in CueList
    PROVE  /\ Len(CuesReply(list)) = 2 * Len(list)
           /\ \A m \in 0..Len(list) - 1 :
                 /\ CuesReply(list)[2 * m + 1] = Word(list[m + 1].name)
                 /\ CuesReply(list)[2 * m + 2] = Number(list[m + 1].position)
<1> DEFINE n == Len(list)
           arg(k) == IF k % 2 = 1 THEN Word(list[(k + 1) \div 2].name) ELSE Number(list[k \div 2].position)
<1>1. n \in Nat
  BY Cues
<1>2. CuesReply(list) = [k \in 1..2 * n |-> arg(k)]
  BY DEF CuesReply
<1> HIDE DEF n
<1>3. Len(CuesReply(list)) = 2 * n
  <2> HIDE DEF arg
  <2> QED BY <1>1, <1>2
<1>4. ASSUME NEW m \in 0..n - 1
      PROVE  /\ CuesReply(list)[2 * m + 1] = Word(list[m + 1].name)
             /\ CuesReply(list)[2 * m + 2] = Number(list[m + 1].position)
  <2>1. /\ 2 * m + 1 \in 1..2 * n /\ (2 * m + 1) % 2 = 1 /\ ((2 * m + 1) + 1) \div 2 = m + 1
        /\ 2 * m + 2 \in 1..2 * n /\ (2 * m + 2) % 2 = 0 /\ (2 * m + 2) \div 2 = m + 1
    BY <1>1
  <2>2. CuesReply(list)[2 * m + 1] = arg(2 * m + 1) /\ CuesReply(list)[2 * m + 2] = arg(2 * m + 2)
    <3> HIDE DEF arg
    <3> QED BY <1>2, <2>1
  <2> QED BY <2>1, <2>2
<1> QED BY <1>3, <1>4 DEF n

\* The bridge reads the list that Live has.
LEMMA ReadsLivesList ==
    ASSUME NEW list \in CueList
    PROVE  ReadCues(CuesReply(list)) = list
<1> DEFINE C == [name : Name, position : Nat]
           args == CuesReply(list)
           n == Len(list)
           got == ReadUpTo(args)
           Read(m, q) == q \in Seq(C) /\ Len(q) = m /\ \A j \in 1..m : q[j] = list[j]
           S == {m \in 0..n : \E q : Read(m, q) /\ got[2 * m] = [cues |-> q, name |-> NoName]}
<1>1. n \in Nat /\ list \in Seq(C) /\ \A j \in 1..n : list[j] \in C
  <2>1. list \in Seq(C)
    BY DEF CueList
  <2> HIDE DEF C
  <2> QED BY <2>1
<1>2. /\ Len(args) = 2 * n
      /\ \A m \in 0..n - 1 : /\ args[2 * m + 1] = Word(list[m + 1].name)
                             /\ args[2 * m + 2] = Number(list[m + 1].position)
  BY ReplyArgs
<1>3. 2 * n \in Nat
  BY <1>1
<1>4. /\ got[0] = [cues |-> <<>>, name |-> NoName]
      /\ \A k \in 1..2 * n :
            LET r == got[k - 1]
                arg == args[k]
            IN  /\ r.name # NoName /\ IsNumber(arg) =>
                      got[k] = [cues |-> Append(r.cues, Cue(r.name, arg.number)), name |-> NoName]
                /\ ~IsNumber(arg) => got[k] = [r EXCEPT !.name = arg.word]
  BY <1>2, <1>3, ReadUpToStep
<1> HIDE DEF args, got, n
<1>5. 0 \in S
  <2>1. Read(0, <<>>) /\ 0 \in 0..n /\ 2 * 0 = 0
    BY <1>1
  <2> QED BY <1>4, <2>1
<1>6. ASSUME NEW m \in 0..n, m < n, m \in S
      PROVE  m + 1 \in S
  <2>1. PICK q : Read(m, q) /\ got[2 * m] = [cues |-> q, name |-> NoName]
    BY <1>6
  <2> DEFINE name == list[m + 1].name
             p == list[m + 1].position
  <2>2. m + 1 \in 1..n /\ list[m + 1] \in C /\ name \in Name /\ name # NoName
    <3>1. m + 1 \in 1..n
      BY <1>1, <1>6
    <3>2. list[m + 1] \in C
      BY <1>1, <3>1
    <3>3. name \in Name
      BY <3>2
    <3> QED BY <3>1, <3>2, <3>3, CueAssumption
  <2>3. list[m + 1] = Cue(name, p)
    BY <2>2 DEF Cue
  <2>4. args[2 * m + 1] = Word(name) /\ args[2 * m + 2] = Number(p)
    BY <1>1, <1>2, <1>6
  <2>5. /\ 2 * m + 1 \in 1..2 * n /\ (2 * m + 1) - 1 = 2 * m
        /\ 2 * m + 2 \in 1..2 * n /\ (2 * m + 2) - 1 = 2 * m + 1
    BY <1>1, <1>6
  <2> HIDE DEF name, p
  <2>6. ~IsNumber(Word(name)) /\ Word(name).word = name /\ IsNumber(Number(p)) /\ Number(p).number = p
    BY DEF IsNumber, Word, Number
  <2>7. got[2 * m + 1] = [cues |-> q, name |-> name]
    <3>1. got[2 * m + 1] = [got[2 * m] EXCEPT !.name = Word(name).word]
      BY <1>4, <2>4, <2>5, <2>6, Zenon
    <3> QED BY <2>1, <2>6, <3>1
  <2>8. got[2 * m + 2] = [cues |-> Append(q, Cue(name, p)), name |-> NoName]
    <3>1. got[2 * m + 1].name = name /\ got[2 * m + 1].cues = q
      BY <2>7
    <3>2. got[2 * m + 2] = [cues |-> Append(got[2 * m + 1].cues, Cue(got[2 * m + 1].name, Number(p).number)),
                            name |-> NoName]
      BY <1>4, <2>2, <2>4, <2>5, <2>6, <3>1, Zenon
    <3> QED BY <2>6, <3>1, <3>2, Zenon
  <2> DEFINE longer == Append(q, list[m + 1])
  <2>9. Read(m + 1, longer)
    BY <1>6, <2>1, <2>2
  <2>10. 2 * (m + 1) = 2 * m + 2 /\ m + 1 \in 0..n
    BY <1>1, <1>6
  <2> HIDE DEF Read
  <2> QED BY <2>3, <2>8, <2>9, <2>10
<1>7. n \in S
  <2> HIDE DEF S
  <2>1. \A m \in 0..n : m < n /\ m \in S => m + 1 \in S
    BY <1>6
  <2>2. n \in 0..n
    BY <1>1
  <2> QED BY <1>1, <1>5, <2>1, <2>2, Rounds
<1>8. PICK q : Read(n, q) /\ got[2 * n] = [cues |-> q, name |-> NoName]
  BY <1>7
<1>9. q = list
  <2> HIDE DEF C
  <2> QED BY <1>1, <1>8 DEF n
<1>10. ReadCues(args) = got[2 * n].cues
  BY <1>2 DEF ReadCues, got
<1> QED BY <1>8, <1>9, <1>10 DEF args
-----------------------------------------------------------------------------
(* The songs that the bridge shows *)

\* What the parser's results need of the state; TypeOK gives it.
CuesType == cues \in CueList /\ position \in Nat

\* The songs are those of the loop, with the lengths of their sections.
LEMMA SongsShown ==
    ASSUME CuesType
    PROVE  LET songs == SongsAfter(cues)[Len(cues)]
           IN  /\ Len(songs) \in Nat /\ DOMAIN Songs = 1..Len(songs) /\ Len(Songs) = Len(songs)
               /\ \A s \in 1..Len(songs) :
                    /\ Songs[s].position = songs[s].position
                    /\ DOMAIN Songs[s].sections = 1..Len(songs[s].sections)
                    /\ Len(Songs[s].sections) = Len(songs[s].sections)
                    /\ \A k \in 1..Len(songs[s].sections) :
                         /\ Songs[s].sections[k].position = songs[s].sections[k].position
                         /\ Songs[s].sections[k].cue_index = songs[s].sections[k].cue_index
                         /\ Songs[s].sections[k].length = LengthOf(songs, s, k)
               /\ SectionIds = Ids(songs)
<1> DEFINE songs == SongsAfter(cues)[Len(cues)]
           shown(s, k) == LET this == songs[s].sections[k] IN
               [name      |-> this.name,
                position  |-> this.position,
                cue_index |-> this.cue_index,
                is_loop   |-> this.is_loop,
                length    |-> LengthOf(songs, s, k)]
           song(s) == [position |-> songs[s].position,
                       sections |-> [k \in DOMAIN songs[s].sections |-> shown(s, k)]]
<1>1. Songs = [s \in DOMAIN songs |-> song(s)]
  <2>1. ReadCues(CuesReply(cues)) = cues
    BY ReadsLivesList DEF CuesType
  <2> QED BY <2>1, Zenon DEF Songs, ParseMarkers, AnnotateSectionLengths
<1>2. /\ songs \in Seq(Song(cues)) /\ Len(cues) \in Nat /\ DOMAIN cues = 1..Len(cues)
      /\ \A s \in 1..Len(songs) : Len(songs[s].sections) <= Len(cues)
  <2>1. LoopInv(cues, Len(cues)) /\ Len(cues) \in Nat /\ DOMAIN cues = 1..Len(cues)
    BY LoopEnds, Cues DEF CuesType
  <2> QED BY <2>1, Zenon DEF LoopInv
<1> HIDE DEF songs
<1>3. Len(songs) \in Nat /\ DOMAIN songs = 1..Len(songs)
  BY <1>2
<1>4. \A s \in 1..Len(songs) : /\ Len(songs[s].sections) \in Nat
                               /\ DOMAIN songs[s].sections = 1..Len(songs[s].sections)
  <2> TAKE s \in 1..Len(songs)
  <2> DEFINE q == songs[s].sections
  <2>1. q \in Seq(Section(cues))
    BY <1>2, SongFields
  <2> HIDE DEF q
  <2>2. Len(q) \in Nat /\ DOMAIN q = 1..Len(q)
    BY <2>1
  <2> QED BY <2>2 DEF q
<1>5. DOMAIN Songs = 1..Len(songs) /\ Len(Songs) = Len(songs)
  <2> HIDE DEF song
  <2> QED BY <1>1, <1>3
<1>6. ASSUME NEW s \in 1..Len(songs)
      PROVE  /\ Songs[s].position = songs[s].position
             /\ Songs[s].sections = [k \in 1..Len(songs[s].sections) |-> shown(s, k)]
  <2>1. Songs[s] = song(s)
    <3> HIDE DEF song
    <3> QED BY <1>1, <1>3
  <2> HIDE DEF shown
  <2> QED BY <1>4, <2>1
<1>7. ASSUME NEW s \in 1..Len(songs)
      PROVE  /\ DOMAIN Songs[s].sections = 1..Len(songs[s].sections)
             /\ Len(Songs[s].sections) = Len(songs[s].sections)
             /\ \A k \in 1..Len(songs[s].sections) : Songs[s].sections[k] = shown(s, k)
  <2> DEFINE q == Songs[s].sections
             m == Len(songs[s].sections)
  <2>1. m \in Nat /\ q = [k \in 1..m |-> shown(s, k)]
    BY <1>4, <1>6
  <2> HIDE DEF shown, q, m
  <2>2. DOMAIN q = 1..m /\ Len(q) = m /\ \A k \in 1..m : q[k] = shown(s, k)
    BY <2>1
  <2> QED BY <2>2 DEF q, m
<1>8. ASSUME NEW s \in 1..Len(songs), NEW k \in 1..Len(songs[s].sections)
      PROVE  /\ Songs[s].sections[k].position = songs[s].sections[k].position
             /\ Songs[s].sections[k].cue_index = songs[s].sections[k].cue_index
             /\ Songs[s].sections[k].length = LengthOf(songs, s, k)
  <2>1. /\ shown(s, k).position = songs[s].sections[k].position
        /\ shown(s, k).cue_index = songs[s].sections[k].cue_index
        /\ shown(s, k).length = LengthOf(songs, s, k)
    OBVIOUS
  <2> HIDE DEF shown
  <2> QED BY <1>7, <2>1, Zenon
<1>9. SectionIds = Ids(songs)
  <2>1. ASSUME NEW id \in SectionIds
        PROVE  id \in Ids(songs)
    BY <1>2, <1>5, <1>7, <2>1 DEF SectionIds, Ids
  <2>2. ASSUME NEW id \in Ids(songs)
        PROVE  id \in SectionIds
    <3>1. id \in (1..Len(songs)) \X Nat /\ id[2] \in 1..Len(songs[id[1]].sections)
      BY <2>2 DEF Ids
    <3>2. id[1] \in 1..Len(songs) /\ id[2] \in Nat /\ id = <<id[1], id[2]>>
      BY <3>1
    <3>3. Len(songs[id[1]].sections) \in Nat /\ Len(songs[id[1]].sections) <= Len(cues)
      BY <1>2, <1>4, <3>2
    <3>4. id[2] \in 1..Len(cues)
      BY <1>2, <3>1, <3>2, <3>3
    <3>5. id \in (DOMAIN Songs) \X (DOMAIN cues)
      BY <1>2, <1>5, <3>2, <3>4
    <3> QED BY <1>7, <3>1, <3>2, <3>5 DEF SectionIds
  <2> QED BY <2>1, <2>2
<1> QED BY <1>3, <1>5, <1>6, <1>7, <1>8, <1>9, Zenon DEF songs

\* What the loop's invariant says of the songs that are shown.
LEMMA ShownInOrder ==
    ASSUME CuesType
    PROVE  LET songs == SongsAfter(cues)[Len(cues)]
           IN  /\ songs \in Seq(Song(cues)) /\ Ordered(songs)
               /\ Len(songs) = Cardinality(Starts(cues))
               /\ Cardinality(Ids(songs)) = Cardinality(DOMAIN cues \ Early(cues))
<1> DEFINE n == Len(cues)
           songs == SongsAfter(cues)[n]
<1>1. LoopInv(cues, n)
  BY LoopEnds DEF CuesType
<1>2. Dealt(cues, n) = DOMAIN cues
  <2>1. DOMAIN cues = 1..n /\ SortedIndices(cues) \in [1..n -> 1..n]
        /\ \A i \in 1..n : \E k \in 1..n : SortedIndices(cues)[k] = i
    BY SortedIndicesSort DEF CuesType
  <2> HIDE DEF n
  <2> QED BY <2>1 DEF Dealt
<1>3. Dealt(cues, n) \cap Starts(cues) = Starts(cues)
  BY <1>2 DEF Starts
<1> QED BY <1>1, <1>2, <1>3, Zenon DEF LoopInv

\* Every section's index is that of a cue point where the section starts.
LEMMA IndicesLand ==
    ASSUME CuesType
    PROVE  CueIndexLands
<1> DEFINE songs == SongsAfter(cues)[Len(cues)]
<1> HIDE DEF songs
<1> SUFFICES ASSUME NEW id \in SectionIds
             PROVE  /\ SectionAt(id).cue_index \in 0..Len(cues) - 1
                    /\ cues[SectionAt(id).cue_index + 1].position = SectionAt(id).position
  BY DEF CueIndexLands
<1>1. id \in Ids(songs) /\ songs \in Seq(Song(cues))
  BY SongsShown, ShownInOrder DEF songs
<1>2. id[1] \in 1..Len(songs) /\ id[2] \in 1..Len(songs[id[1]].sections)
  BY <1>1 DEF Ids
<1> DEFINE section == songs[id[1]].sections[id[2]]
<1>3. section \in Section(cues)
  BY <1>1, <1>2, SongFields
<1>4. SectionAt(id).cue_index = section.cue_index /\ SectionAt(id).position = section.position
  BY <1>2, SongsShown DEF SectionAt, songs
<1> HIDE DEF section
<1>5. section.cue_index \in 0..Len(cues) - 1 /\ cues[section.cue_index + 1].position = section.position
  BY <1>3 DEF Section
<1> QED BY <1>4, <1>5

\* What is known of the sections that are shown, in terms of Songs alone.
LEMMA SectionsShown ==
    ASSUME CuesType
    PROVE  /\ \A id \in SectionIds : /\ id[1] \in 1..Len(Songs) /\ id[2] \in 1..Len(Songs[id[1]].sections)
                                     /\ id = <<id[1], id[2]>> /\ SectionAt(id).position \in Nat
           /\ \A s \in 1..Len(Songs) : \A k \in 1..Len(Songs[s].sections) : <<s, k>> \in SectionIds
           /\ \A s \in 1..Len(Songs) : /\ Len(Songs[s].sections) \in Nat /\ Len(Songs[s].sections) >= 1
                                       /\ Songs[s].position = SectionAt(<<s, 1>>).position
           /\ Len(Songs) \in Nat /\ DOMAIN Songs = 1..Len(Songs)
           /\ \A a, b \in SectionIds :
                  Before(a, b) => SectionAt(a).position <= SectionAt(b).position
<1> DEFINE songs == SongsAfter(cues)[Len(cues)]
<1> HIDE DEF songs
<1>1. /\ Len(songs) \in Nat /\ DOMAIN Songs = 1..Len(songs) /\ Len(Songs) = Len(songs)
      /\ \A s \in 1..Len(songs) :
           /\ Songs[s].position = songs[s].position
           /\ Len(Songs[s].sections) = Len(songs[s].sections)
           /\ \A k \in 1..Len(songs[s].sections) :
                Songs[s].sections[k].position = songs[s].sections[k].position
      /\ SectionIds = Ids(songs)
  BY SongsShown DEF songs
<1>2. songs \in Seq(Song(cues)) /\ Ordered(songs)
  BY ShownInOrder DEF songs
<1>3. \A s \in 1..Len(songs) :
        /\ Len(songs[s].sections) \in Nat
        /\ \A k \in 1..Len(songs[s].sections) : songs[s].sections[k].position \in Nat
  BY <1>2, SongFields
<1>4. ASSUME NEW id \in SectionIds
      PROVE  /\ id[1] \in 1..Len(songs) /\ id[2] \in 1..Len(songs[id[1]].sections)
             /\ id = <<id[1], id[2]>> /\ SectionAt(id).position = songs[id[1]].sections[id[2]].position
  <2>1. id[1] \in 1..Len(songs) /\ id[2] \in 1..Len(songs[id[1]].sections) /\ id = <<id[1], id[2]>>
    BY <1>1, <1>4 DEF Ids
  <2> QED BY <1>1, <2>1 DEF SectionAt
<1>5. ASSUME NEW s \in 1..Len(songs), NEW k \in 1..Len(songs[s].sections)
      PROVE  <<s, k>> \in SectionIds
  <2>1. k \in Nat
    BY <1>3
  <2> QED BY <1>1, <2>1 DEF Ids
<1>6. ASSUME NEW s \in 1..Len(songs)
      PROVE  /\ Len(songs[s].sections) >= 1
             /\ Songs[s].position = SectionAt(<<s, 1>>).position
  <2>1. Len(songs[s].sections) >= 1 /\ songs[s].position = songs[s].sections[1].position
    BY <1>2 DEF Ordered
  <2>2. 1 \in 1..Len(songs[s].sections)
    BY <1>3, <2>1
  <2> QED BY <1>1, <2>1, <2>2 DEF SectionAt
<1>7. ASSUME NEW a \in SectionIds, NEW b \in SectionIds, Before(a, b)
      PROVE  SectionAt(a).position <= SectionAt(b).position
  <2>1. /\ a[1] \in 1..Len(songs) /\ a[2] \in 1..Len(songs[a[1]].sections)
        /\ b[1] \in 1..Len(songs) /\ b[2] \in 1..Len(songs[b[1]].sections)
        /\ SectionAt(a).position = songs[a[1]].sections[a[2]].position
        /\ SectionAt(b).position = songs[b[1]].sections[b[2]].position
    BY <1>4
  <2> QED BY <1>2, <1>7, <2>1 DEF Ordered, Before
<1>8. ASSUME NEW id \in SectionIds
      PROVE  SectionAt(id).position \in Nat
  BY <1>3, <1>4
<1> QED BY <1>1, <1>3, <1>4, <1>5, <1>6, <1>7, <1>8
\* A section's length is where the next one starts, less where it starts itself.
LEMMA LengthToNext ==
    ASSUME NEW songs, NEW s, NEW k, songs[s].sections[k].position \in Nat
    PROVE  /\ k < Len(songs[s].sections) /\ songs[s].sections[k + 1].position \in Nat =>
                LengthOf(songs, s, k) = songs[s].sections[k + 1].position - songs[s].sections[k].position
           /\ k = Len(songs[s].sections) /\ ~(k < Len(songs[s].sections)) /\ s < Len(songs)
              /\ songs[s + 1].sections[1].position \in Nat =>
                LengthOf(songs, s, k) = songs[s + 1].sections[1].position - songs[s].sections[k].position
           /\ k = Len(songs[s].sections) /\ ~(k < Len(songs[s].sections)) /\ ~(s < Len(songs)) =>
                LengthOf(songs, s, k) = None
<1>1. k < Len(songs[s].sections) => NextPosition(songs, s, k) = songs[s].sections[k + 1].position
  BY DEF NextPosition
<1>2. k = Len(songs[s].sections) /\ ~(k < Len(songs[s].sections)) /\ s < Len(songs) =>
        NextPosition(songs, s, k) = songs[s + 1].sections[1].position
  BY DEF NextPosition
<1>3. k = Len(songs[s].sections) /\ ~(k < Len(songs[s].sections)) /\ ~(s < Len(songs)) =>
        NextPosition(songs, s, k) = None
  BY DEF NextPosition
<1>4. \A x \in Nat : x # None
  BY DEF None
<1> QED BY <1>1, <1>2, <1>3, <1>4 DEF LengthOf

\* A section is followed by the next of its song, or by the first of the next song, or it
\* is the last of all; its length says which.
LEMMA WhatFollows ==
    ASSUME CuesType, NEW a \in SectionIds
    PROVE  \/ \E next \in SectionIds :
                /\ Before(a, next)
                /\ SectionAt(a).length = SectionAt(next).position - SectionAt(a).position
                /\ \A b \in SectionIds : Before(a, b) => b = next \/ Before(next, b)
           \/ SectionAt(a).length = None /\ \A b \in SectionIds : ~Before(a, b)
<1> DEFINE songs == SongsAfter(cues)[Len(cues)]
           s == a[1]
           k == a[2]
<1> HIDE DEF songs
<1>1. /\ Len(Songs) = Len(songs)
      /\ \A t \in 1..Len(songs) :
           /\ Len(Songs[t].sections) = Len(songs[t].sections)
           /\ \A l \in 1..Len(songs[t].sections) :
                /\ Songs[t].sections[l].position = songs[t].sections[l].position
                /\ Songs[t].sections[l].length = LengthOf(songs, t, l)
  BY SongsShown DEF songs
<1>2. /\ \A b \in SectionIds : /\ b[1] \in 1..Len(songs) /\ b[2] \in 1..Len(songs[b[1]].sections)
                               /\ b = <<b[1], b[2]>> /\ SectionAt(b).position \in Nat
      /\ \A t \in 1..Len(songs) : \A l \in 1..Len(songs[t].sections) : <<t, l>> \in SectionIds
      /\ \A t \in 1..Len(songs) : Len(songs[t].sections) \in Nat /\ Len(songs[t].sections) >= 1
      /\ Len(songs) \in Nat
  <2>1. /\ \A b \in SectionIds : /\ b[1] \in 1..Len(Songs) /\ b[2] \in 1..Len(Songs[b[1]].sections)
                                 /\ b = <<b[1], b[2]>> /\ SectionAt(b).position \in Nat
        /\ \A t \in 1..Len(Songs) : \A l \in 1..Len(Songs[t].sections) : <<t, l>> \in SectionIds
        /\ \A t \in 1..Len(Songs) : Len(Songs[t].sections) \in Nat /\ Len(Songs[t].sections) >= 1
        /\ Len(Songs) \in Nat
    BY SectionsShown
  <2> QED BY <1>1, <2>1
<1>3. \A b \in SectionIds : /\ SectionAt(b).position = songs[b[1]].sections[b[2]].position
                            /\ SectionAt(b).length = LengthOf(songs, b[1], b[2])
  BY <1>1, <1>2 DEF SectionAt
<1>4. /\ s \in 1..Len(songs) /\ k \in 1..Len(songs[s].sections)
      /\ songs[s].sections[k].position \in Nat
      /\ SectionAt(a).position = songs[s].sections[k].position
      /\ SectionAt(a).length = LengthOf(songs, s, k)
  <2>1. /\ s \in 1..Len(songs) /\ k \in 1..Len(songs[s].sections) /\ SectionAt(a).position \in Nat
    BY <1>2
  <2>2. /\ SectionAt(a).position = songs[s].sections[k].position
        /\ SectionAt(a).length = LengthOf(songs, s, k)
    BY <1>3
  <2> QED BY <2>1, <2>2
<1>5. CASE k < Len(songs[s].sections)
  <2> DEFINE next == <<s, k + 1>>
  <2>1. next \in SectionIds /\ next[1] = s /\ next[2] = k + 1
    <3>1. k + 1 \in 1..Len(songs[s].sections)
      BY <1>2, <1>4, <1>5
    <3>2. <<s, k + 1>> \in SectionIds
      BY <1>2, <1>4, <3>1
    <3> QED BY <3>2
  <2> HIDE DEF next
  <2>2. SectionAt(next).position = songs[s].sections[k + 1].position /\ SectionAt(next).position \in Nat
    <3>1. SectionAt(next).position = songs[next[1]].sections[next[2]].position
      BY <1>3, <2>1, Zenon
    <3>2. SectionAt(next).position \in Nat
      BY <1>2, <2>1, Zenon
    <3> QED BY <2>1, <3>1, <3>2, Zenon
  <2>3. SectionAt(a).length = SectionAt(next).position - SectionAt(a).position
    <3>1. songs[s].sections[k].position \in Nat /\ songs[s].sections[k + 1].position \in Nat
      BY <1>4, <2>2, Zenon
    <3>2. LengthOf(songs, s, k) = songs[s].sections[k + 1].position - songs[s].sections[k].position
      <4> HIDE DEF s, k
      <4> QED BY <1>5, <3>1, LengthToNext
    <3> QED BY <1>4, <2>2, <3>2, Zenon
  <2>4. Before(a, next)
    BY <1>4, <2>1 DEF Before
  <2>5. ASSUME NEW b \in SectionIds, Before(a, b)
        PROVE  b = next \/ Before(next, b)
    <3>1. b[1] \in 1..Len(songs) /\ b[2] \in 1..Len(songs[b[1]].sections) /\ b = <<b[1], b[2]>>
      BY <1>2
    <3>2. s < b[1] \/ (s = b[1] /\ k < b[2])
      BY <2>5, Zenon DEF Before
    <3>3. CASE s < b[1]
      BY <2>1, <3>3 DEF Before
    <3>4. CASE s = b[1] /\ k < b[2]
      <4>1. b[2] = k + 1 \/ k + 1 < b[2]
        BY <1>4, <3>1, <3>4
      <4> QED BY <2>1, <3>1, <3>4, <4>1 DEF Before, next
    <3> QED BY <3>2, <3>3, <3>4
  <2> QED BY <2>1, <2>3, <2>4, <2>5
<1>6. CASE ~(k < Len(songs[s].sections)) /\ s < Len(songs)
  <2> DEFINE next == <<s + 1, 1>>
  <2>1. next \in SectionIds /\ next[1] = s + 1 /\ next[2] = 1
    <3>1. s + 1 \in 1..Len(songs)
      BY <1>2, <1>4, <1>6
    <3>2. 1 \in 1..Len(songs[s + 1].sections)
      BY <1>2, <3>1
    <3>3. <<s + 1, 1>> \in SectionIds
      BY <1>2, <3>1, <3>2
    <3> QED BY <3>3
  <2> HIDE DEF next
  <2>2. SectionAt(next).position = songs[s + 1].sections[1].position /\ SectionAt(next).position \in Nat
    <3>1. SectionAt(next).position = songs[next[1]].sections[next[2]].position
      BY <1>3, <2>1, Zenon
    <3>2. SectionAt(next).position \in Nat
      BY <1>2, <2>1, Zenon
    <3> QED BY <2>1, <3>1, <3>2, Zenon
  <2>3. k = Len(songs[s].sections)
    BY <1>2, <1>4, <1>6
  <2>4. SectionAt(a).length = SectionAt(next).position - SectionAt(a).position
    <3>1. songs[s].sections[k].position \in Nat /\ songs[s + 1].sections[1].position \in Nat
      BY <1>4, <2>2, Zenon
    <3>2. LengthOf(songs, s, k) = songs[s + 1].sections[1].position - songs[s].sections[k].position
      <4> HIDE DEF s, k
      <4> QED BY <1>6, <2>3, <3>1, LengthToNext
    <3> QED BY <1>4, <2>2, <3>2, Zenon
  <2>5. Before(a, next)
    BY <1>4, <2>1 DEF Before
  <2>6. ASSUME NEW b \in SectionIds, Before(a, b)
        PROVE  b = next \/ Before(next, b)
    <3>1. b[1] \in 1..Len(songs) /\ b[2] \in 1..Len(songs[b[1]].sections) /\ b = <<b[1], b[2]>>
      BY <1>2
    <3>2. s < b[1] \/ (s = b[1] /\ k < b[2])
      BY <2>6, Zenon DEF Before
    <3>3. b[2] \in Nat /\ b[2] >= 1
      BY <1>2, <3>1
    <3>4. s < b[1]
      <4> SUFFICES ASSUME s = b[1], k < b[2]
                   PROVE  FALSE
        BY <3>2
      <4>1. b[2] <= Len(songs[s].sections)
        BY <1>2, <3>1
      <4> QED BY <1>2, <1>4, <1>6, <3>3, <4>1
    <3>5. CASE b[1] = s + 1
      <4>1. b[2] = 1 \/ 1 < b[2]
        BY <3>3
      <4> QED BY <2>1, <3>1, <3>5, <4>1 DEF Before, next
    <3>6. CASE b[1] # s + 1
      BY <1>4, <2>1, <3>1, <3>4, <3>6 DEF Before
    <3> QED BY <3>5, <3>6
  <2> QED BY <2>1, <2>4, <2>5, <2>6
<1>7. CASE ~(k < Len(songs[s].sections)) /\ ~(s < Len(songs))
  <2>1. k = Len(songs[s].sections) /\ s = Len(songs)
    BY <1>2, <1>4, <1>7
  <2>2. SectionAt(a).length = None
    BY <1>4, <1>7, <2>1, LengthToNext
  <2>3. ASSUME NEW b \in SectionIds, Before(a, b)
        PROVE  FALSE
    <3>1. b[1] \in 1..Len(songs) /\ b[2] \in 1..Len(songs[b[1]].sections)
      BY <1>2
    <3>2. s < b[1] \/ (s = b[1] /\ k < b[2])
      BY <2>3, Zenon DEF Before
    <3>3. CASE s < b[1]
      BY <1>2, <2>1, <3>1, <3>3
    <3>4. CASE s = b[1] /\ k < b[2]
      <4>1. b[2] <= Len(songs[s].sections) /\ b[2] \in Nat
        BY <1>2, <3>1, <3>4
      <4> QED BY <1>2, <1>4, <2>1, <3>4, <4>1
    <3> QED BY <3>2, <3>3, <3>4
  <2> QED BY <2>2, <2>3
<1> QED BY <1>5, <1>6, <1>7

\* A section's length is what is left to the next one, in its song or the next song's first.
LEMMA LengthsTile ==
    ASSUME CuesType
    PROVE  SectionsTile
<1> SUFFICES ASSUME NEW a \in SectionIds
             PROVE  LET later == {b \in SectionIds : Before(a, b)}
                        ends == SectionAt(a).position + SectionAt(a).length
                    IN  IF later = {} THEN SectionAt(a).length = None
                        ELSE /\ \E b \in later : SectionAt(b).position = ends
                             /\ \A b \in later : SectionAt(b).position >= ends
  BY Zenon DEF SectionsTile
<1> DEFINE later == {b \in SectionIds : Before(a, b)}
           ends == SectionAt(a).position + SectionAt(a).length
<1>1. \A b \in SectionIds : SectionAt(b).position \in Nat
  BY SectionsShown
<1>2. CASE \E next \in SectionIds :
             /\ Before(a, next)
             /\ SectionAt(a).length = SectionAt(next).position - SectionAt(a).position
             /\ \A b \in SectionIds : Before(a, b) => b = next \/ Before(next, b)
  <2>1. PICK next \in SectionIds :
             /\ Before(a, next)
             /\ SectionAt(a).length = SectionAt(next).position - SectionAt(a).position
             /\ \A b \in SectionIds : Before(a, b) => b = next \/ Before(next, b)
    BY <1>2
  <2>2. SectionAt(next).position = ends
    BY <1>1, <2>1
  <2>3. next \in later
    BY <2>1
  <2>4. ASSUME NEW b \in later
        PROVE  SectionAt(b).position >= ends
    <3>1. SectionAt(next).position <= SectionAt(b).position
      BY <1>1, <2>1, <2>4, SectionsShown
    <3> HIDE DEF ends
    <3> QED BY <1>1, <2>2, <2>4, <3>1
  <2>5. later # {}
    BY <2>3
  <2> HIDE DEF later, ends
  <2>6. (\E b \in later : SectionAt(b).position = ends) /\ \A b \in later : SectionAt(b).position >= ends
    BY <2>2, <2>3, <2>4
  <2> QED BY <2>5, <2>6, Zenon DEF later, ends
<1>3. CASE SectionAt(a).length = None /\ \A b \in SectionIds : ~Before(a, b)
  BY <1>3
<1> QED BY <1>2, <1>3, WhatFollows

\* The sections are as many as the cue points that are not early, and in order.
LEMMA AllKept ==
    ASSUME CuesType
    PROVE  NothingLost
<1> DEFINE songs == SongsAfter(cues)[Len(cues)]
<1>1. /\ Len(songs) = Cardinality(Starts(cues))
      /\ Cardinality(Ids(songs)) = Cardinality(DOMAIN cues \ Early(cues))
      /\ Len(Songs) = Len(songs) /\ SectionIds = Ids(songs)
  BY ShownInOrder, SongsShown
<1>2. \A a, b \in SectionIds : Before(a, b) => SectionAt(a).position <= SectionAt(b).position
  BY SectionsShown
<1> QED BY <1>1, <1>2, Zenon DEF NothingLost, Starts, Early

\* The two searches, for the last song begun and in it for the last section before one that
\* has not, find the last of all the sections that have begun.
LEMMA LatestIsCurrent ==
    ASSUME CuesType
    PROVE  CurrentIsLatest
<1> DEFINE opened == {s \in DOMAIN Songs : position >= Songs[s].position}
           S == Max(opened)
           passed(k) == \A j \in 1..k : position >= Songs[S].sections[j].position
           K == {k \in 0..Len(Songs[S].sections) : passed(k)}
           begun == {id \in SectionIds : SectionAt(id).position <= position}
           last == CHOOSE id \in begun : \A b \in begun \ {id} : Before(b, id)
<1>1. /\ \A id \in SectionIds : /\ id[1] \in 1..Len(Songs) /\ id[2] \in 1..Len(Songs[id[1]].sections)
                                /\ id = <<id[1], id[2]>> /\ SectionAt(id).position \in Nat
      /\ \A s \in 1..Len(Songs) : \A k \in 1..Len(Songs[s].sections) : <<s, k>> \in SectionIds
      /\ \A s \in 1..Len(Songs) : /\ Len(Songs[s].sections) \in Nat /\ Len(Songs[s].sections) >= 1
                                  /\ Songs[s].position = SectionAt(<<s, 1>>).position
      /\ Len(Songs) \in Nat /\ DOMAIN Songs = 1..Len(Songs)
      /\ \A a, b \in SectionIds :
             Before(a, b) => SectionAt(a).position <= SectionAt(b).position
      /\ position \in Nat
  BY SectionsShown DEF CuesType
<1>2. \A s \in 1..Len(Songs) : <<s, 1>> \in SectionIds /\ <<s, 1>>[1] = s /\ <<s, 1>>[2] = 1
  <2> SUFFICES ASSUME NEW s \in 1..Len(Songs)
               PROVE  <<s, 1>> \in SectionIds
    OBVIOUS
  <2>1. Len(Songs[s].sections) \in Nat /\ Len(Songs[s].sections) >= 1
    BY <1>1
  <2>2. 1 \in 1..Len(Songs[s].sections)
    BY <2>1
  <2> QED BY <1>1, <2>2
\* The song of a section that has begun has begun.
<1>3. ASSUME NEW id \in begun
      PROVE  id[1] \in opened
  <2>1. id \in SectionIds /\ SectionAt(id).position <= position /\ id[1] \in 1..Len(Songs)
    BY <1>1
  <2> DEFINE first == <<id[1], 1>>
  <2>2. first \in SectionIds /\ first[1] = id[1] /\ first[2] = 1
    BY <1>2, <2>1
  <2>3. Songs[id[1]].position = SectionAt(first).position
    BY <1>1, <2>1
  <2> HIDE DEF first
  <2>4. first = id \/ Before(first, id)
    <3>1. id[2] \in Nat /\ id[2] >= 1 /\ id = <<id[1], id[2]>>
      BY <1>1, <2>1
    <3> QED BY <2>2, <3>1 DEF Before, first
  <2>5. SectionAt(first).position <= SectionAt(id).position
    BY <1>1, <2>1, <2>2, <2>4
  <2>6. SectionAt(first).position \in Nat /\ SectionAt(id).position \in Nat
    BY <1>1, <2>1, <2>2
  <2> QED BY <1>1, <2>1, <2>3, <2>5, <2>6
<1>4. CASE opened = {}
  <2>1. begun = {}
    BY <1>3, <1>4
  <2> QED BY <1>4, <2>1, Zenon DEF CurrentIsLatest, FindCurrentIndices
<1>5. CASE opened # {}
  <2>1. S \in opened /\ \A s \in opened : s <= S
    <3>1. opened \in SUBSET (0..Len(Songs))
      BY <1>1
    <3> HIDE DEF opened
    <3> QED BY <1>1, <1>5, <3>1, MaxUpTo
  <2> DEFINE n == Len(Songs[S].sections)
  <2>2. S \in 1..Len(Songs) /\ n \in Nat /\ n >= 1 /\ position >= Songs[S].position
    BY <1>1, <2>1
  <2> HIDE DEF opened, S
  <2>3. \A k \in 1..n : SectionAt(<<S, k>>) = Songs[S].sections[k] /\ <<S, k>> \in SectionIds
    BY <1>1, <2>2 DEF SectionAt
  <2>4. 1 \in K
    <3>1. position >= Songs[S].sections[1].position
      <4>1. 1 \in 1..n
        BY <2>2
      <4>2. Songs[S].position = SectionAt(<<S, 1>>).position
        BY <1>1, <2>2
      <4> QED BY <2>2, <2>3, <4>1, <4>2
    <3>2. passed(1)
      <4>1. \A j \in 1..1 : j = 1
        OBVIOUS
      <4> QED BY <3>1, <4>1
    <3> QED BY <2>2, <3>2
  <2> DEFINE m == Max(K)
  <2>5. m \in K /\ \A k \in K : k <= m
    <3>1. K \in SUBSET (0..n)
      OBVIOUS
    <3> HIDE DEF K
    <3> QED BY <2>2, <2>4, <3>1, MaxUpTo
  <2>6. m \in 1..n /\ passed(m)
    <3>1. m \in 0..n /\ passed(m) /\ 1 <= m
      <4> HIDE DEF m
      <4> QED BY <2>4, <2>5
    <3> HIDE DEF m, K
    <3> QED BY <2>2, <3>1
  <2> HIDE DEF m
  <2> DEFINE current == <<S, m>>
  <2>7. current \in begun /\ current[1] = S /\ current[2] = m
    <3>1. current \in SectionIds /\ SectionAt(current) = Songs[S].sections[m]
      BY <2>3, <2>6
    <3>2. position >= Songs[S].sections[m].position
      BY <2>2, <2>6
    <3>3. SectionAt(current).position <= position
      <4>1. SectionAt(current).position \in Nat
        BY <1>1, <3>1
      <4> QED BY <1>1, <3>1, <3>2, <4>1
    <3> QED BY <3>1, <3>3
  <2> HIDE DEF current
  <2>8. ASSUME NEW b \in begun, b # current
        PROVE  Before(b, current)
    <3>1. /\ b \in SectionIds /\ SectionAt(b).position <= position
          /\ b[1] \in 1..Len(Songs) /\ b[2] \in 1..Len(Songs[b[1]].sections)
          /\ b = <<b[1], b[2]>> /\ SectionAt(b).position \in Nat
      BY <1>1
    <3>2. b[1] <= S
      BY <1>3, <2>1
    <3>3. ASSUME b[1] = S
          PROVE  b[2] < m
      <4>1. b[2] \in 1..n /\ SectionAt(b) = Songs[S].sections[b[2]] /\ b[2] # m
        BY <2>8, <3>1, <3>3 DEF SectionAt, current
      <4>2. ASSUME NEW j \in 1..b[2]
            PROVE  position >= Songs[S].sections[j].position
        <5>1. j \in 1..n /\ (j = b[2] \/ j < b[2])
          BY <2>2, <4>1
        <5>2. <<S, j>> \in SectionIds /\ SectionAt(<<S, j>>) = Songs[S].sections[j]
          BY <2>3, <5>1
        <5>3. j = b[2] \/ Before(<<S, j>>, b)
          BY <3>3, <5>1 DEF Before
        <5>4. Songs[S].sections[j].position <= SectionAt(b).position
          <6>1. CASE j = b[2]
            BY <3>1, <4>1, <6>1
          <6>2. CASE Before(<<S, j>>, b)
            <7>1. SectionAt(<<S, j>>).position <= SectionAt(b).position
              BY <1>1, <3>1, <5>2, <6>2
            <7> QED BY <5>2, <7>1
          <6> QED BY <5>3, <6>1, <6>2
        <5>5. Songs[S].sections[j].position \in Nat
          <6>1. SectionAt(<<S, j>>).position \in Nat
            BY <1>1, <5>2
          <6> QED BY <5>2, <6>1
        <5> QED BY <1>1, <3>1, <5>4, <5>5
      <4>3. b[2] \in K
        BY <2>2, <4>1, <4>2
      <4> HIDE DEF K
      <4> QED BY <2>2, <2>5, <2>6, <4>1, <4>3
    <3> QED BY <2>2, <2>7, <3>1, <3>2, <3>3 DEF Before
  <2>9. last = current
    <3>1. \A b \in begun \ {current} : Before(b, current)
      BY <2>8
    <3>2. ASSUME NEW id \in begun, id # current, Before(current, id)
          PROVE  FALSE
      <4>1. id[1] \in Int /\ id[2] \in Int /\ S \in Int /\ m \in Int
        <5>1. id[1] \in 1..Len(Songs) /\ id[2] \in 1..Len(Songs[id[1]].sections)
          BY <1>1
        <5> QED BY <2>2, <2>6, <5>1
      <4>2. Before(id, current)
        BY <3>1, <3>2
      <4> QED BY <2>7, <3>2, <4>1, <4>2 DEF Before
    <3> HIDE DEF begun
    <3>3. \A id \in begun : (\A b \in begun \ {id} : Before(b, id)) => id = current
      BY <2>7, <3>2
    <3>4. \E id \in begun : \A b \in begun \ {id} : Before(b, id)
      BY <2>7, <3>1
    <3>5. last \in begun /\ \A b \in begun \ {last} : Before(b, last)
      BY <3>4
    <3> HIDE DEF last
    <3> QED BY <3>3, <3>5
  <2>10. FindCurrentIndices(Songs, position) = <<S - 1, m - 1>>
    BY <1>5, Zenon DEF FindCurrentIndices, opened, S, m
  <2>11. <<last[1] - 1, last[2] - 1>> = <<S - 1, m - 1>>
    BY <2>7, <2>9, Zenon
  <2>12. begun # {}
    BY <2>7
  <2> HIDE DEF begun
  <2> QED BY <2>10, <2>11, <2>12, Zenon DEF CurrentIsLatest, begun
<1> QED BY <1>4, <1>5

-----------------------------------------------------------------------------
(* Loops *)

\* A round of the loop makes something of kind D of something of kind D.
Rounded(step, n, D) == \A d \in D, k \in 1..n : step[<<d, k>>] \in D

\* What there is after each of the n rounds.
Runs(g, step, n, D, base) ==
    /\ g = [k \in 0..n |-> g[k]] /\ g[0] = base
    /\ \A k \in 0..n : g[k] \in D
    /\ \A k \in 1..n : g[k] = step[<<g[k - 1], k>>]

\* Such a loop runs to its end.
LEMMA LoopRuns ==
    ASSUME NEW n \in Nat, NEW D, NEW base \in D, NEW step, Rounded(step, n, D)
    PROVE  \E g : Runs(g, step, n, D, base)
<1> DEFINE S == {m \in 0..n : \E g : Runs(g, step, m, D, base)}
<1>1. 0 \in S
  <2> DEFINE g0 == [k \in 0..0 |-> base]
  <2>1. Runs(g0, step, 0, D, base)
    BY DEF Runs
  <2> HIDE DEF g0
  <2> QED BY <2>1
<1>2. ASSUME NEW m \in 0..n, m < n, m \in S
      PROVE  m + 1 \in S
  <2>1. PICK g : Runs(g, step, m, D, base)
    BY <1>2
  <2> DEFINE h == [k \in 0..m + 1 |-> IF k <= m THEN g[k] ELSE step[<<g[m], m + 1>>]]
  <2>2. step[<<g[m], m + 1>>] \in D
    BY <1>2, <2>1 DEF Runs, Rounded
  <2>3. h = [k \in 0..m + 1 |-> h[k]] /\ h[0] = base /\ \A k \in 0..m + 1 : h[k] \in D
    BY <2>1, <2>2 DEF Runs
  <2>4. ASSUME NEW k \in 1..m + 1
        PROVE  h[k] = step[<<h[k - 1], k>>]
    <3>1. CASE k = m + 1
      <4>1. h[k] = step[<<g[m], m + 1>>] /\ h[k - 1] = g[m]
        BY <3>1
      <4> HIDE DEF h
      <4> QED BY <3>1, <4>1, Zenon
    <3>2. CASE k \in 1..m
      <4>1. h[k] = g[k] /\ h[k - 1] = g[k - 1]
        BY <3>2
      <4>2. g[k] = step[<<g[k - 1], k>>]
        BY <2>1, <3>2 DEF Runs
      <4> HIDE DEF h
      <4> QED BY <4>1, <4>2, Zenon
    <3> QED BY <3>1, <3>2
  <2>5. Runs(h, step, m + 1, D, base)
    <3> HIDE DEF h
    <3> QED BY <2>3, <2>4 DEF Runs
  <2>6. m + 1 \in 0..n
    BY <1>2
  <2> QED BY <2>5, <2>6
<1>3. \A m \in 0..n : m \in S
  <2> HIDE DEF S
  <2>1. \A m \in 0..n : m < n /\ m \in S => m + 1 \in S
    BY <1>2
  <2> QED BY <1>1, <2>1, Rounds
<1>4. n \in 0..n
  OBVIOUS
<1> QED BY <1>3, <1>4

\* A set of numbers up to n has a least element, which Min finds.
LEMMA MinUpTo ==
    ASSUME NEW n \in Nat, NEW S \in SUBSET (1..n), S # {}
    PROVE  Min(S) \in S /\ \A m \in S : Min(S) <= m
<1>1. S \in SUBSET Nat
  OBVIOUS
<1>2. PICK t \in S : \A u \in S : t <= u
  BY <1>1, LeastNatural
<1> QED BY <1>2 DEF Min

-----------------------------------------------------------------------------
(* The switch *)

\* Taking one out of a list: those before it keep their places, those behind move up.
LEMMA Removed ==
    ASSUME NEW T, NEW s \in Seq(T), NEW i \in 1..Len(s)
    PROVE  /\ RemoveAt(s, i) \in Seq(T) /\ Len(RemoveAt(s, i)) = Len(s) - 1
           /\ \A k \in 1..Len(s) - 1 : RemoveAt(s, i)[k] = IF k < i THEN s[k] ELSE s[k + 1]
<1> DEFINE a == SubSeq(s, 1, i - 1)
           b == SubSeq(s, i + 1, Len(s))
<1>1. Len(s) \in Nat
  OBVIOUS
<1>2. a \in Seq(T) /\ Len(a) = i - 1 /\ \A k \in 1..i - 1 : a[k] = s[k]
  OBVIOUS
<1>3. b \in Seq(T) /\ Len(b) = Len(s) - i /\ \A k \in 1..Len(s) - i : b[k] = s[k + i]
  OBVIOUS
<1>4. RemoveAt(s, i) = a \o b
  BY DEF RemoveAt
<1> HIDE DEF a, b
<1>5. a \o b \in Seq(T) /\ Len(a \o b) = Len(s) - 1
  <2>1. a \in Seq(T) /\ b \in Seq(T)
    BY <1>2, <1>3
  <2>2. a \o b \in Seq(T) /\ Len(a \o b) = Len(a) + Len(b)
    BY <2>1
  <2>3. Len(a) + Len(b) = Len(s) - 1
    BY <1>1, <1>2, <1>3
  <2> QED BY <2>2, <2>3, Zenon
<1>6. ASSUME NEW k \in 1..Len(s) - 1
      PROVE  (a \o b)[k] = IF k < i THEN s[k] ELSE s[k + 1]
  <2>1. CASE k < i
    BY <1>1, <1>2, <1>3, <2>1
  <2>2. CASE ~(k < i)
    <3>1. (a \o b)[k] = b[k - (i - 1)]
      BY <1>1, <1>2, <1>3, <2>2
    <3>2. k - (i - 1) \in 1..Len(s) - i /\ (k - (i - 1)) + i = k + 1
      BY <1>1, <2>2
    <3> QED BY <1>3, <2>2, <3>1, <3>2
  <2> QED BY <2>1, <2>2
<1> QED BY <1>4, <1>5, <1>6

\* The switch makes a cue point, behind all others, where there is none, ...
LEMMA SwitchMakes ==
    ASSUME NEW list \in CueList, NEW p \in Nat, At(list, p) = {}
    PROVE  /\ SetOrDeleteCue(list, p) \in CueList
           /\ Len(SetOrDeleteCue(list, p)) = Len(list) + 1
           /\ SetOrDeleteCue(list, p)[Len(list) + 1] = Cue(NewName, p)
           /\ \A i \in DOMAIN list : SetOrDeleteCue(list, p)[i] = list[i]
<1> DEFINE C == [name : Name, position : Nat]
           c == Cue(NewName, p)
<1>1. c \in C
  BY CueAssumption DEF Cue
<1>2. list \in Seq(C)
  BY DEF CueList
<1>3. SetOrDeleteCue(list, p) = Append(list, c)
  BY DEF SetOrDeleteCue
<1> HIDE DEF C, c
<1>4. /\ Append(list, c) \in Seq(C) /\ Len(Append(list, c)) = Len(list) + 1
      /\ Append(list, c)[Len(list) + 1] = c
      /\ \A i \in DOMAIN list : Append(list, c)[i] = list[i]
  BY <1>1, <1>2
<1> QED BY <1>3, <1>4 DEF CueList, C, c

\* ... and leaves a list of cue points in any case.
LEMMA SwitchType ==
    ASSUME NEW list \in CueList, NEW p \in Nat
    PROVE  SetOrDeleteCue(list, p) \in CueList
<1>1. CASE At(list, p) = {}
  BY <1>1, SwitchMakes
<1>2. CASE At(list, p) # {}
  <2>1. At(list, p) \in SUBSET (1..Len(list)) /\ Len(list) \in Nat
    BY Cues DEF At
  <2>2. Min(At(list, p)) \in 1..Len(list)
    <3> DEFINE S == At(list, p)
    <3> HIDE DEF S
    <3>1. Min(S) \in S
      BY <1>2, <2>1, MinUpTo DEF S
    <3> QED BY <2>1, <3>1 DEF S
  <2>3. SetOrDeleteCue(list, p) = RemoveAt(list, Min(At(list, p)))
    BY <1>2 DEF SetOrDeleteCue
  <2> QED BY <2>2, <2>3, Removed DEF CueList
<1> QED BY <1>1, <1>2

\* A cue point that is renamed keeps its position, and the others are as they were.
LEMMA RenameType ==
    ASSUME NEW list \in CueList, NEW i \in DOMAIN list, NEW name \in Name
    PROVE  /\ Rename(list, i, name) \in CueList
           /\ Len(Rename(list, i, name)) = Len(list)
           /\ Rename(list, i, name)[i] = Cue(name, list[i].position)
           /\ \A k \in DOMAIN list : k # i => Rename(list, i, name)[k] = list[k]
<1> DEFINE C == [name : Name, position : Nat]
           c == [list[i] EXCEPT !.name = name]
<1>1. list \in Seq(C) /\ list[i] \in C
  <2>1. list \in Seq(C)
    BY DEF CueList
  <2> HIDE DEF C
  <2> QED BY <2>1
<1>2. c \in C /\ c = Cue(name, list[i].position)
  <2> DEFINE d == list[i]
  <2>1. d \in C
    BY <1>1
  <2> HIDE DEF d
  <2>2. [d EXCEPT !.name = name] \in C /\ [d EXCEPT !.name = name] = Cue(name, d.position)
    BY <2>1 DEF Cue
  <2> QED BY <2>2 DEF d
<1>3. Rename(list, i, name) = [list EXCEPT ![i] = c]
  BY DEF Rename
<1> HIDE DEF c, C
<1>4. /\ [list EXCEPT ![i] = c] \in Seq(C) /\ Len([list EXCEPT ![i] = c]) = Len(list)
      /\ [list EXCEPT ![i] = c][i] = c
      /\ \A k \in DOMAIN list : k # i => [list EXCEPT ![i] = c][k] = list[k]
  BY <1>1, <1>2
<1> QED BY <1>2, <1>3, <1>4 DEF CueList, C

-----------------------------------------------------------------------------
(* Cue points from the clips of a track *)

\* A clip's cue point is made or named, and the others are left where and what they are.
LEMMA GenerateCueMakes ==
    ASSUME NEW list \in CueList, NEW clip, clip.name \in Name, clip.position \in Nat
    PROVE  /\ GenerateCue(list, clip) \in CueList
           /\ Len(list) <= Len(GenerateCue(list, clip))
           /\ \A i \in DOMAIN list :
                 /\ GenerateCue(list, clip)[i].position = list[i].position
                 /\ list[i].position # clip.position => GenerateCue(list, clip)[i] = list[i]
           /\ \E i \in DOMAIN GenerateCue(list, clip) :
                 GenerateCue(list, clip)[i] = Cue(clip.name, clip.position)
<1> DEFINE p == clip.position
           made == IF At(list, p) = {} THEN SetOrDeleteCue(list, p) ELSE list
           m == Max(At(made, p))
           new == Rename(made, m, clip.name)
<1>1. GenerateCue(list, clip) = new
  BY DEF GenerateCue
<1>2. /\ made \in CueList /\ Len(list) <= Len(made) /\ \A i \in DOMAIN list : made[i] = list[i]
      /\ At(made, p) # {}
  <2>1. CASE At(list, p) = {}
    <3> DEFINE s == SetOrDeleteCue(list, p)
    <3>1. made = s
      BY <2>1
    <3> HIDE DEF made, s
    <3>2. /\ s \in CueList /\ Len(s) = Len(list) + 1 /\ s[Len(list) + 1] = Cue(NewName, p)
          /\ \A i \in DOMAIN list : s[i] = list[i]
      BY <2>1, SwitchMakes DEF s
    <3>3. Len(list) \in Nat /\ DOMAIN s = 1..Len(s)
      BY <3>2, Cues
    <3>4. Len(list) + 1 \in DOMAIN s
      BY <3>2, <3>3
    <3>5. s[Len(list) + 1].position = p
      BY <3>2 DEF Cue
    <3>6. Len(list) + 1 \in At(s, p)
      BY <3>4, <3>5 DEF At
    <3> HIDE DEF p
    <3> QED BY <3>1, <3>2, <3>3, <3>6
  <2>2. CASE At(list, p) # {}
    <3>1. made = list
      BY <2>2
    <3> HIDE DEF made
    <3> QED BY <2>2, <3>1, Cues
  <2> QED BY <2>1, <2>2
<1> HIDE DEF made
<1>3. m \in DOMAIN made /\ made[m].position = p
  <2> DEFINE S == At(made, p)
  <2>1. S \in SUBSET (0..Len(made)) /\ Len(made) \in Nat
    BY <1>2, Cues DEF At
  <2>2. Max(S) \in S
    <3> HIDE DEF S
    <3> QED BY <1>2, <2>1, MaxUpTo DEF S
  <2> QED BY <2>2 DEF At
<1> HIDE DEF m
<1>4. /\ new \in CueList /\ Len(new) = Len(made) /\ new[m] = Cue(clip.name, made[m].position)
      /\ \A k \in DOMAIN made : k # m => new[k] = made[k]
  BY <1>2, <1>3, RenameType
<1> HIDE DEF new
<1>5. /\ DOMAIN list = 1..Len(list) /\ DOMAIN made = 1..Len(made) /\ DOMAIN new = 1..Len(new)
      /\ Len(list) \in Nat /\ Len(made) \in Nat
  BY <1>2, <1>4, Cues
<1>6. new[m] = Cue(clip.name, p) /\ new[m].position = p
  BY <1>3, <1>4 DEF Cue
<1>7. ASSUME NEW i \in DOMAIN list
      PROVE  /\ new[i].position = list[i].position
             /\ list[i].position # p => new[i] = list[i]
  <2>1. i \in DOMAIN made /\ made[i] = list[i]
    BY <1>2, <1>5
  <2>2. CASE i = m
    BY <1>3, <1>6, <2>1, <2>2
  <2>3. CASE i # m
    BY <1>4, <2>1, <2>3
  <2> QED BY <2>2, <2>3
<1>8. m \in DOMAIN new /\ Len(list) <= Len(new)
  BY <1>2, <1>3, <1>4, <1>5
<1> QED BY <1>1, <1>4, <1>6, <1>7, <1>8

\* The list after each of the clips.
LEMMA GeneratedSteps ==
    ASSUME NEW list \in CueList, NEW clips \in CueList
    PROVE  /\ \A k \in 0..Len(clips) : GeneratedUpTo(list, clips)[k] \in CueList
           /\ GeneratedUpTo(list, clips)[0] = list
           /\ \A k \in 1..Len(clips) :
                 GeneratedUpTo(list, clips)[k] = GenerateCue(GeneratedUpTo(list, clips)[k - 1], clips[k])
<1> DEFINE n == Len(clips)
           base == list
           F(g, k) == IF k = 0 THEN base ELSE GenerateCue(g[k - 1], clips[k])
           Is(g) == g = [k \in 0..n |-> F(g, k)]
           step == [x \in CueList \X (1..n) |-> GenerateCue(x[1], clips[x[2]])]
           f == GeneratedUpTo(list, clips)
<1>1. n \in Nat /\ base \in CueList
  BY Cues
<1>2. f = CHOOSE g : Is(g)
  BY DEF GeneratedUpTo
<1>3. \A l \in CueList, k \in 1..n : GenerateCue(l, clips[k]) \in CueList
  <2>1. \A k \in 1..n : clips[k].name \in Name /\ clips[k].position \in Nat
    BY Cues
  <2> QED BY <2>1, GenerateCueMakes
<1> HIDE DEF f, n, base
<1>4. Rounded(step, n, CueList)
  <2> SUFFICES ASSUME NEW l \in CueList, NEW k \in 1..n
               PROVE  step[<<l, k>>] \in CueList
    BY DEF Rounded
  <2>1. <<l, k>> \in CueList \X (1..n)
    OBVIOUS
  <2>2. step[<<l, k>>] = GenerateCue(l, clips[k])
    BY <2>1
  <2> QED BY <1>3, <2>2
<1>5. PICK g : Runs(g, step, n, CueList, base)
  <2> HIDE DEF step
  <2> QED BY <1>1, <1>4, LoopRuns
<1>6. \A k \in 1..n : g[k] = GenerateCue(g[k - 1], clips[k])
  <2> SUFFICES ASSUME NEW k \in 1..n
               PROVE  g[k] = GenerateCue(g[k - 1], clips[k])
    OBVIOUS
  <2>1. k - 1 \in 0..n
    BY <1>1
  <2>2. g[k - 1] \in CueList /\ <<g[k - 1], k>> \in CueList \X (1..n)
    BY <1>5, <2>1 DEF Runs
  <2>3. step[<<g[k - 1], k>>] = GenerateCue(g[k - 1], clips[k])
    BY <2>2
  <2>4. g[k] = step[<<g[k - 1], k>>]
    <3> HIDE DEF step
    <3> QED BY <1>5 DEF Runs
  <2> HIDE DEF step
  <2> QED BY <2>3, <2>4, Zenon
<1>7. Is(g)
  <2>1. g = [k \in 0..n |-> g[k]] /\ g[0] = base
    <3> HIDE DEF step
    <3> QED BY <1>5 DEF Runs
  <2>2. ASSUME NEW k \in 0..n
        PROVE  g[k] = F(g, k)
    <3>1. CASE k = 0
      BY <2>1, <3>1
    <3>2. CASE k # 0
      <4>1. k \in 1..n
        BY <1>1, <3>2
      <4> QED BY <1>6, <3>2, <4>1
    <3> QED BY <3>1, <3>2
  <2> HIDE DEF F
  <2> QED BY <2>1, <2>2, Zenon
<1>8. Is(f)
  <2> HIDE DEF Is
  <2> QED BY <1>2, <1>7
<1>9. f[0] = base /\ \A k \in 1..n : f[k] = GenerateCue(f[k - 1], clips[k])
  <2>1. \A k \in 0..n : f[k] = F(f, k)
    <3> HIDE DEF F
    <3> QED BY <1>8
  <2>2. 0 \in 0..n /\ \A k \in 1..n : k \in 0..n /\ k # 0
    BY <1>1
  <2> QED BY <2>1, <2>2
<1>10. \A k \in 0..n : f[k] \in CueList
  <2> DEFINE S == {k \in 0..n : f[k] \in CueList}
  <2>1. 0 \in S
    BY <1>1, <1>9
  <2>2. \A k \in 0..n : k < n /\ k \in S => k + 1 \in S
    <3> SUFFICES ASSUME NEW k \in 0..n, k < n, f[k] \in CueList
                 PROVE  k + 1 \in 0..n /\ f[k + 1] \in CueList
      OBVIOUS
    <3>1. k + 1 \in 1..n /\ (k + 1) - 1 = k
      BY <1>1
    <3> QED BY <1>3, <1>9, <3>1
  <2>3. \A k \in 0..n : k \in S
    <3> HIDE DEF S
    <3> QED BY <1>1, <2>1, <2>2, Rounds
  <2> QED BY <2>3
<1> QED BY <1>9, <1>10, Zenon DEF f, n, base

\* No two clips are at one position.
ApartClips(clips) == \A i, j \in DOMAIN clips : i # j => clips[i].position # clips[j].position

\* After k clips each of them has its cue point, and the others are where and what they were.
LEMMA GeneratedNames ==
    ASSUME NEW list \in CueList, NEW clips \in CueList, ApartClips(clips)
    PROVE  /\ GenerateCues(list, clips) \in CueList
           /\ Len(list) <= Len(GenerateCues(list, clips))
           /\ \A i \in DOMAIN list :
                 /\ GenerateCues(list, clips)[i].position = list[i].position
                 /\ (\A c \in DOMAIN clips : clips[c].position # list[i].position)
                       => GenerateCues(list, clips)[i] = list[i]
           /\ \A c \in DOMAIN clips :
                 \E i \in DOMAIN GenerateCues(list, clips) :
                    GenerateCues(list, clips)[i] = Cue(clips[c].name, clips[c].position)
<1> DEFINE f == GeneratedUpTo(list, clips)
           n == Len(clips)
           Kept(k) == /\ Len(list) <= Len(f[k])
                      /\ \A i \in DOMAIN list :
                            /\ f[k][i].position = list[i].position
                            /\ (\A c \in DOMAIN clips : clips[c].position # list[i].position)
                                  => f[k][i] = list[i]
           Named(k) == \A c \in 1..k : \E i \in DOMAIN f[k] :
                          f[k][i] = Cue(clips[c].name, clips[c].position)
           S == {k \in 0..n : Kept(k) /\ Named(k)}
<1>1. /\ n \in Nat /\ DOMAIN clips = 1..n
      /\ \A k \in 1..n : clips[k].name \in Name /\ clips[k].position \in Nat
  BY Cues
<1>2. /\ \A k \in 0..n : f[k] \in CueList
      /\ f[0] = list
      /\ \A k \in 1..n : f[k] = GenerateCue(f[k - 1], clips[k])
  BY GeneratedSteps
<1>3. GenerateCues(list, clips) = f[n]
  BY DEF GenerateCues
<1> HIDE DEF f, n
<1>4. Len(list) \in Nat /\ DOMAIN list = 1..Len(list)
      /\ \A k \in 0..n : Len(f[k]) \in Nat /\ DOMAIN f[k] = 1..Len(f[k])
  BY <1>2, Cues
<1>5. 0 \in S
  BY <1>1, <1>2, <1>4
<1>6. ASSUME NEW k \in 0..n, k < n, Kept(k), Named(k)
      PROVE  k + 1 \in 0..n /\ Kept(k + 1) /\ Named(k + 1)
  <2> DEFINE old == f[k]
             clip == clips[k + 1]
             new == f[k + 1]
  <2>1. k + 1 \in 1..n /\ (k + 1) - 1 = k
    BY <1>1, <1>6
  <2>2. /\ Len(old) <= Len(new)
        /\ \A i \in DOMAIN old :
              /\ new[i].position = old[i].position
              /\ old[i].position # clip.position => new[i] = old[i]
        /\ \E i \in DOMAIN new : new[i] = Cue(clip.name, clip.position)
    <3>1. new = GenerateCue(old, clip) /\ old \in CueList
      BY <1>2, <2>1
    <3>2. clip.name \in Name /\ clip.position \in Nat
      BY <1>1, <2>1
    <3> HIDE DEF old, new, clip
    <3> QED BY <3>1, <3>2, GenerateCueMakes
  <2>3. /\ Len(old) \in Nat /\ DOMAIN old = 1..Len(old) /\ Len(new) \in Nat /\ DOMAIN new = 1..Len(new)
    BY <1>4, <2>1
  <2> HIDE DEF old, new, clip
  <2>4. Len(list) <= Len(old)
    BY <1>6 DEF old
  <2>5. Len(list) <= Len(new)
    BY <1>4, <2>2, <2>3, <2>4
  <2>6. ASSUME NEW i \in DOMAIN list
        PROVE  /\ new[i].position = list[i].position
               /\ (\A c \in DOMAIN clips : clips[c].position # list[i].position) => new[i] = list[i]
    <3>1. i \in DOMAIN old
      BY <1>4, <2>3, <2>4
    <3>2. /\ old[i].position = list[i].position
          /\ (\A c \in DOMAIN clips : clips[c].position # list[i].position) => old[i] = list[i]
      BY <1>6 DEF old
    <3>3. (\A c \in DOMAIN clips : clips[c].position # list[i].position) => clip.position # list[i].position
      BY <1>1, <2>1 DEF clip
    <3> QED BY <2>2, <3>1, <3>2, <3>3
  <2>7. ASSUME NEW c \in 1..k + 1
        PROVE  \E i \in DOMAIN new : new[i] = Cue(clips[c].name, clips[c].position)
    <3>1. CASE c = k + 1
      BY <2>2, <3>1 DEF clip
    <3>2. CASE c \in 1..k
      <4>1. PICK i \in DOMAIN old : old[i] = Cue(clips[c].name, clips[c].position)
        BY <1>6, <3>2 DEF old
      <4>2. clips[c].position # clip.position
        <5>1. c \in DOMAIN clips /\ k + 1 \in DOMAIN clips /\ c # k + 1
          BY <1>1, <2>1, <3>2
        <5> QED BY <5>1 DEF ApartClips, clip
      <4>3. old[i].position = clips[c].position
        BY <4>1 DEF Cue
      <4>4. new[i] = old[i]
        BY <2>2, <4>2, <4>3
      <4>5. i \in DOMAIN new
        BY <2>2, <2>3
      <4> QED BY <4>1, <4>4, <4>5
    <3>3. c = k + 1 \/ c \in 1..k
      BY <1>1
    <3> QED BY <3>1, <3>2, <3>3
  <2> QED BY <2>1, <2>5, <2>6, <2>7 DEF new
<1>7. n \in S
  <2>1. \A k \in 0..n : k < n /\ k \in S => k + 1 \in S
    <3> HIDE DEF Kept, Named
    <3> QED BY <1>6
  <2> HIDE DEF S
  <2>2. n \in 0..n
    BY <1>1
  <2> QED BY <1>1, <1>5, <2>1, <2>2, Rounds
<1>8. Kept(n) /\ Named(n) /\ f[n] \in CueList
  <2>1. n \in 0..n
    BY <1>1
  <2> HIDE DEF Kept, Named
  <2> QED BY <1>2, <1>7, <2>1
<1> QED BY <1>1, <1>3, <1>8

-----------------------------------------------------------------------------
(* Cue points from an analysis: what is heard *)

SectionList == Seq([name : Name, time : Nat])
Speech == Seq([name : Name \cup {NoName}, time : Nat])

\* What a guide's speech, and what is heard of it, are made of.
LEMMA SpeechType ==
    ASSUME NEW speech \in Speech
    PROVE  /\ Len(speech) \in Nat
           /\ \A k \in 1..Len(speech) : speech[k] \in [name : Name \cup {NoName}, time : Nat]
<1> DEFINE U == [name : Name \cup {NoName}, time : Nat]
<1>1. speech \in Seq(U)
  BY DEF Speech
<1> HIDE DEF U
<1>2. Len(speech) \in Nat /\ \A k \in 1..Len(speech) : speech[k] \in U
  BY <1>1
<1> QED BY <1>2 DEF U

\* The same of the sections, which all have names.
LEMMA SectionsType ==
    ASSUME NEW sections \in SectionList
    PROVE  /\ Len(sections) \in Nat
           /\ \A k \in 1..Len(sections) : sections[k].name \in Name /\ sections[k].time \in Nat
<1> DEFINE U == [name : Name, time : Nat]
<1>1. sections \in Seq(U)
  BY DEF SectionList
<1> HIDE DEF U
<1>2. Len(sections) \in Nat /\ \A k \in 1..Len(sections) : sections[k] \in U
  BY <1>1
<1> QED BY <1>2 DEF U

\* What names no section is not written down.
LEMMA HearType ==
    ASSUME NEW sections \in SectionList, NEW said \in [name : Name \cup {NoName}, time : Nat]
    PROVE  Hear(sections, said) \in SectionList
<1>1. CASE said.name = NoName
  BY <1>1 DEF Hear
<1>2. CASE said.name # NoName
  <2> DEFINE A == [name : Name, time : Nat]
  <2>1. said \in A
    BY <1>2
  <2> HIDE DEF A
  <2>2. sections \in Seq(A) => Append(sections, said) \in Seq(A)
    BY <2>1
  <2>3. Append(sections, said) \in SectionList
    BY <2>2 DEF SectionList, A
  <2> QED BY <2>3 DEF Hear
<1> QED BY <1>1, <1>2

\* What has been heard after each of the words.
LEMMA HeardSteps ==
    ASSUME NEW speech \in Speech
    PROVE  /\ \A k \in 0..Len(speech) : HeardUpTo(speech)[k] \in SectionList
           /\ HeardUpTo(speech)[0] = <<>>
           /\ \A k \in 1..Len(speech) :
                 HeardUpTo(speech)[k] = Hear(HeardUpTo(speech)[k - 1], speech[k])
<1> DEFINE n == Len(speech)
           base == <<>>
           F(g, k) == IF k = 0 THEN base ELSE Hear(g[k - 1], speech[k])
           Is(g) == g = [k \in 0..n |-> F(g, k)]
           step == [x \in SectionList \X (1..n) |-> Hear(x[1], speech[x[2]])]
           f == HeardUpTo(speech)
<1>1. n \in Nat /\ base \in SectionList
  BY DEF Speech, SectionList
<1>2. f = CHOOSE g : Is(g)
  BY DEF HeardUpTo
<1>3. \A l \in SectionList, k \in 1..n : Hear(l, speech[k]) \in SectionList
  <2>1. \A k \in 1..n : speech[k] \in [name : Name \cup {NoName}, time : Nat]
    BY SpeechType
  <2> QED BY <2>1, HearType
<1> HIDE DEF f, n, base
<1>4. Rounded(step, n, SectionList)
  <2> SUFFICES ASSUME NEW l \in SectionList, NEW k \in 1..n
               PROVE  step[<<l, k>>] \in SectionList
    BY DEF Rounded
  <2>1. <<l, k>> \in SectionList \X (1..n)
    OBVIOUS
  <2>2. step[<<l, k>>] = Hear(l, speech[k])
    BY <2>1
  <2> QED BY <1>3, <2>2
<1>5. PICK g : Runs(g, step, n, SectionList, base)
  <2> HIDE DEF step
  <2> QED BY <1>1, <1>4, LoopRuns
<1>6. \A k \in 1..n : g[k] = Hear(g[k - 1], speech[k])
  <2> SUFFICES ASSUME NEW k \in 1..n
               PROVE  g[k] = Hear(g[k - 1], speech[k])
    OBVIOUS
  <2>1. k - 1 \in 0..n
    BY <1>1
  <2>2. g[k - 1] \in SectionList /\ <<g[k - 1], k>> \in SectionList \X (1..n)
    BY <1>5, <2>1 DEF Runs
  <2>3. step[<<g[k - 1], k>>] = Hear(g[k - 1], speech[k])
    BY <2>2
  <2>4. g[k] = step[<<g[k - 1], k>>]
    <3> HIDE DEF step
    <3> QED BY <1>5 DEF Runs
  <2> HIDE DEF step
  <2> QED BY <2>3, <2>4, Zenon
<1>7. Is(g)
  <2>1. g = [k \in 0..n |-> g[k]] /\ g[0] = base
    <3> HIDE DEF step
    <3> QED BY <1>5 DEF Runs
  <2>2. ASSUME NEW k \in 0..n
        PROVE  g[k] = F(g, k)
    <3>1. CASE k = 0
      BY <2>1, <3>1
    <3>2. CASE k # 0
      <4>1. k \in 1..n
        BY <1>1, <3>2
      <4> QED BY <1>6, <3>2, <4>1
    <3> QED BY <3>1, <3>2
  <2> HIDE DEF F
  <2> QED BY <2>1, <2>2, Zenon
<1>8. Is(f)
  <2> HIDE DEF Is
  <2> QED BY <1>2, <1>7
<1>9. f[0] = base /\ \A k \in 1..n : f[k] = Hear(f[k - 1], speech[k])
  <2>1. \A k \in 0..n : f[k] = F(f, k)
    <3> HIDE DEF F
    <3> QED BY <1>8
  <2>2. 0 \in 0..n /\ \A k \in 1..n : k \in 0..n /\ k # 0
    BY <1>1
  <2> QED BY <2>1, <2>2
<1>10. \A k \in 0..n : f[k] \in SectionList
  <2> DEFINE S == {k \in 0..n : f[k] \in SectionList}
  <2>1. 0 \in S
    BY <1>1, <1>9
  <2>2. \A k \in 0..n : k < n /\ k \in S => k + 1 \in S
    <3> SUFFICES ASSUME NEW k \in 0..n, k < n, f[k] \in SectionList
                 PROVE  k + 1 \in 0..n /\ f[k + 1] \in SectionList
      OBVIOUS
    <3>1. k + 1 \in 1..n /\ (k + 1) - 1 = k
      BY <1>1
    <3> QED BY <1>3, <1>9, <3>1
  <2>3. \A k \in 0..n : k \in S
    <3> HIDE DEF S
    <3> QED BY <1>1, <2>1, <2>2, Rounds
  <2> QED BY <2>3
<1> QED BY <1>9, <1>10, Zenon DEF f, n, base

\* What a transcript is made of.
LEMMA TranscribeType ==
    ASSUME NEW speech \in Speech
    PROVE  Transcribe(speech) \in SectionList
<1>1. Len(speech) \in Nat
  BY DEF Speech
<1>2. Len(speech) \in 0..Len(speech)
  BY <1>1
<1> QED BY <1>2, HeardSteps DEF Transcribe

-----------------------------------------------------------------------------
(* Cue points from an analysis: what was there is deleted *)

\* The list after each press of the switch.
LEMMA LeftSteps ==
    ASSUME NEW list \in CueList
    PROVE  /\ \A k \in 0..Len(list) : LeftAfter(list)[k] \in CueList
           /\ LeftAfter(list)[0] = list
           /\ \A k \in 1..Len(list) :
                 LeftAfter(list)[k] = SetOrDeleteCue(LeftAfter(list)[k - 1], list[k].position)
<1> DEFINE n == Len(list)
           base == list
           F(g, k) == IF k = 0 THEN base ELSE SetOrDeleteCue(g[k - 1], list[k].position)
           Is(g) == g = [k \in 0..n |-> F(g, k)]
           step == [x \in CueList \X (1..n) |-> SetOrDeleteCue(x[1], list[x[2]].position)]
           f == LeftAfter(list)
<1>1. n \in Nat /\ base \in CueList
  BY Cues
<1>2. f = CHOOSE g : Is(g)
  BY DEF LeftAfter
<1>3. \A l \in CueList, k \in 1..n : SetOrDeleteCue(l, list[k].position) \in CueList
  <2>1. \A k \in 1..n : list[k].position \in Nat
    BY Cues
  <2> QED BY <2>1, SwitchType
<1> HIDE DEF f, n, base
<1>4. Rounded(step, n, CueList)
  <2> SUFFICES ASSUME NEW l \in CueList, NEW k \in 1..n
               PROVE  step[<<l, k>>] \in CueList
    BY DEF Rounded
  <2>1. <<l, k>> \in CueList \X (1..n)
    OBVIOUS
  <2>2. step[<<l, k>>] = SetOrDeleteCue(l, list[k].position)
    BY <2>1
  <2> QED BY <1>3, <2>2
<1>5. PICK g : Runs(g, step, n, CueList, base)
  <2> HIDE DEF step
  <2> QED BY <1>1, <1>4, LoopRuns
<1>6. \A k \in 1..n : g[k] = SetOrDeleteCue(g[k - 1], list[k].position)
  <2> SUFFICES ASSUME NEW k \in 1..n
               PROVE  g[k] = SetOrDeleteCue(g[k - 1], list[k].position)
    OBVIOUS
  <2>1. k - 1 \in 0..n
    BY <1>1
  <2>2. g[k - 1] \in CueList /\ <<g[k - 1], k>> \in CueList \X (1..n)
    BY <1>5, <2>1 DEF Runs
  <2>3. step[<<g[k - 1], k>>] = SetOrDeleteCue(g[k - 1], list[k].position)
    BY <2>2
  <2>4. g[k] = step[<<g[k - 1], k>>]
    <3> HIDE DEF step
    <3> QED BY <1>5 DEF Runs
  <2> HIDE DEF step
  <2> QED BY <2>3, <2>4, Zenon
<1>7. Is(g)
  <2>1. g = [k \in 0..n |-> g[k]] /\ g[0] = base
    <3> HIDE DEF step
    <3> QED BY <1>5 DEF Runs
  <2>2. ASSUME NEW k \in 0..n
        PROVE  g[k] = F(g, k)
    <3>1. CASE k = 0
      BY <2>1, <3>1
    <3>2. CASE k # 0
      <4>1. k \in 1..n
        BY <1>1, <3>2
      <4> QED BY <1>6, <3>2, <4>1
    <3> QED BY <3>1, <3>2
  <2> HIDE DEF F
  <2> QED BY <2>1, <2>2, Zenon
<1>8. Is(f)
  <2> HIDE DEF Is
  <2> QED BY <1>2, <1>7
<1>9. f[0] = base /\ \A k \in 1..n : f[k] = SetOrDeleteCue(f[k - 1], list[k].position)
  <2>1. \A k \in 0..n : f[k] = F(f, k)
    <3> HIDE DEF F
    <3> QED BY <1>8
  <2>2. 0 \in 0..n /\ \A k \in 1..n : k \in 0..n /\ k # 0
    BY <1>1
  <2> QED BY <2>1, <2>2
<1>10. \A k \in 0..n : f[k] \in CueList
  <2> DEFINE S == {k \in 0..n : f[k] \in CueList}
  <2>1. 0 \in S
    BY <1>1, <1>9
  <2>2. \A k \in 0..n : k < n /\ k \in S => k + 1 \in S
    <3> SUFFICES ASSUME NEW k \in 0..n, k < n, f[k] \in CueList
                 PROVE  k + 1 \in 0..n /\ f[k + 1] \in CueList
      OBVIOUS
    <3>1. k + 1 \in 1..n /\ (k + 1) - 1 = k
      BY <1>1
    <3> QED BY <1>3, <1>9, <3>1
  <2>3. \A k \in 0..n : k \in S
    <3> HIDE DEF S
    <3> QED BY <1>1, <2>1, <2>2, Rounds
  <2> QED BY <2>3
<1> QED BY <1>9, <1>10, Zenon DEF f, n, base

\* The switch, pressed where the first cue point is, deletes that one.
LEMMA SwitchDeletesFirst ==
    ASSUME NEW list \in CueList, Len(list) > 0
    PROVE  /\ Len(SetOrDeleteCue(list, list[1].position)) = Len(list) - 1
           /\ \A k \in 1..Len(list) - 1 : SetOrDeleteCue(list, list[1].position)[k] = list[k + 1]
<1> DEFINE p == list[1].position
           S == At(list, p)
<1>1. Len(list) \in Nat /\ DOMAIN list = 1..Len(list)
  BY Cues
<1>2. S \in SUBSET (1..Len(list)) /\ 1 \in S
  BY <1>1 DEF At
<1>3. Min(S) = 1
  <2> HIDE DEF S
  <2>1. Min(S) \in S /\ \A m \in S : Min(S) <= m
    BY <1>1, <1>2, MinUpTo
  <2>2. Min(S) <= 1 /\ Min(S) \in 1..Len(list)
    BY <1>2, <2>1
  <2> QED BY <1>1, <2>2
<1> DEFINE m == Min(S)
           new == SetOrDeleteCue(list, p)
<1>4. new = RemoveAt(list, m)
  <2>1. At(list, p) # {} => SetOrDeleteCue(list, p) = RemoveAt(list, Min(At(list, p)))
    BY DEF SetOrDeleteCue
  <2> QED BY <1>2, <2>1
<1> HIDE DEF p, S, m, new
<1>5. m \in 1..Len(list) /\ m = 1
  BY <1>1, <1>2, <1>3 DEF m
<1>6. /\ Len(RemoveAt(list, m)) = Len(list) - 1
      /\ \A k \in 1..Len(list) - 1 : RemoveAt(list, m)[k] = IF k < m THEN list[k] ELSE list[k + 1]
  <2> DEFINE C == [name : Name, position : Nat]
  <2>1. list \in Seq(C)
    BY DEF CueList
  <2> HIDE DEF C
  <2> QED BY <1>5, <2>1, Removed
<1>7. Len(new) = Len(list) - 1
  BY <1>4, <1>6, Zenon
<1>8. ASSUME NEW k \in 1..Len(list) - 1
      PROVE  new[k] = list[k + 1]
  <2>1. ~(k < m)
    BY <1>1, <1>5
  <2>2. RemoveAt(list, m)[k] = list[k + 1]
    BY <1>6, <2>1
  <2> QED BY <1>4, <2>2, Zenon
<1> QED BY <1>7, <1>8 DEF p, new

\* Going down a copy of the list, the switch is pressed where the first cue point left is,
\* so that every one of them is deleted, two at one position too.
LEMMA DeletesAll ==
    ASSUME NEW list \in CueList
    PROVE  DeleteAll(list) = <<>>
<1> DEFINE n == Len(list)
           f == LeftAfter(list)
           Behind(k) == Len(f[k]) = n - k /\ \A i \in 1..n - k : f[k][i] = list[k + i]
           S == {k \in 0..n : Behind(k)}
<1>1. n \in Nat
  BY Cues
<1>2. /\ \A k \in 0..n : f[k] \in CueList
      /\ f[0] = list
      /\ \A k \in 1..n : f[k] = SetOrDeleteCue(f[k - 1], list[k].position)
  BY LeftSteps
<1>3. DeleteAll(list) = f[n]
  BY DEF DeleteAll
<1>4. 0 \in S
  <2>1. Len(f[0]) = n
    BY <1>2
  <2> HIDE DEF f, n
  <2> QED BY <1>1, <1>2, <2>1
<1> HIDE DEF f, n
<1>5. ASSUME NEW k \in 0..n, k < n, Behind(k)
      PROVE  k + 1 \in 0..n /\ Behind(k + 1)
  <2> DEFINE old == f[k]
             new == f[k + 1]
  <2>1. k + 1 \in 1..n /\ (k + 1) - 1 = k /\ k + 1 \in 0..n /\ 1 \in 1..n - k
    BY <1>1, <1>5
  <2>2. old \in CueList /\ Len(old) = n - k /\ old[1] = list[k + 1]
    BY <1>2, <1>5, <2>1
  <2>3. new = SetOrDeleteCue(old, old[1].position)
    BY <1>2, <2>1, <2>2
  <2>4. Len(old) > 0
    BY <1>1, <1>5, <2>2
  <2>5. \A i \in 1..n - k : old[i] = list[k + i]
    BY <1>5
  <2> HIDE DEF old, new
  <2>6. Len(new) = Len(old) - 1 /\ \A i \in 1..Len(old) - 1 : new[i] = old[i + 1]
    BY <2>2, <2>3, <2>4, SwitchDeletesFirst
  <2>7. Len(new) = n - (k + 1)
    BY <1>1, <2>2, <2>6
  <2>8. ASSUME NEW i \in 1..n - (k + 1)
        PROVE  new[i] = list[(k + 1) + i]
    <3>1. i \in 1..Len(old) - 1 /\ i + 1 \in 1..n - k /\ k + (i + 1) = (k + 1) + i
      BY <1>1, <2>2
    <3>2. new[i] = old[i + 1]
      BY <2>6, <3>1
    <3>3. old[i + 1] = list[k + (i + 1)]
      BY <2>5, <3>1
    <3> QED BY <3>1, <3>2, <3>3
  <2> QED BY <2>1, <2>7, <2>8 DEF new
<1>6. n \in S
  <2>1. \A k \in 0..n : k < n /\ k \in S => k + 1 \in S
    <3> HIDE DEF Behind
    <3> QED BY <1>5
  <2> HIDE DEF S
  <2>2. n \in 0..n
    BY <1>1
  <2> QED BY <1>1, <1>4, <2>1, <2>2, Rounds
<1>7. Len(f[n]) = 0 /\ f[n] \in CueList
  BY <1>1, <1>2, <1>6
<1>8. f[n] = <<>>
  BY <1>7 DEF CueList
<1> QED BY <1>3, <1>8

-----------------------------------------------------------------------------
(* Cue points from an analysis: the markers of its sections *)

\* The first cue point at a position is a cue point.
LEMMA FirstAt ==
    ASSUME NEW list \in CueList, NEW p \in Nat, Within(list, p, 0) # {}
    PROVE  Min(Within(list, p, 0)) \in DOMAIN list /\ list[Min(Within(list, p, 0))].position = p
<1> DEFINE S == Within(list, p, 0)
<1>1. Len(list) \in Nat /\ DOMAIN list = 1..Len(list) /\ \A i \in DOMAIN list : list[i].position \in Nat
  BY Cues
<1>2. S \in SUBSET (1..Len(list)) /\ \A i \in S : list[i].position = p
  BY <1>1 DEF Within
<1>3. Min(S) \in S
  <2> HIDE DEF S
  <2>1. S # {}
    BY DEF S
  <2> QED BY <1>1, <1>2, <2>1, MinUpTo
<1> HIDE DEF S
<1>4. Min(S) \in 1..Len(list) /\ list[Min(S)].position = p
  BY <1>2, <1>3
<1> QED BY <1>1, <1>4 DEF S

\* Placing a cue point leaves a list of cue points.
LEMMA PlaceCueType ==
    ASSUME NEW list \in CueList, NEW name \in Name, NEW beat \in Nat
    PROVE  PlaceCue(list, name, beat) \in CueList
<1> DEFINE toggled == SetOrDeleteCue(list, beat)
           S == Within(toggled, beat, 0)
<1>1. toggled \in CueList
  BY SwitchType
<1>2. PlaceCue(list, name, beat) = IF S = {} THEN toggled ELSE Rename(toggled, Min(S), name)
  BY DEF PlaceCue
<1> HIDE DEF toggled
<1>3. ASSUME S # {}
      PROVE  Rename(toggled, Min(S), name) \in CueList
  <2>1. Min(S) \in DOMAIN toggled
    BY <1>1, <1>3, FirstAt
  <2> QED BY <1>1, <2>1, RenameType
<1> QED BY <1>1, <1>2, <1>3

\* Where there is none, it is made behind all others, and named.
LEMMA PlaceCueMakes ==
    ASSUME NEW list \in CueList, NEW name \in Name, NEW beat \in Nat, At(list, beat) = {}
    PROVE  /\ Len(PlaceCue(list, name, beat)) = Len(list) + 1
           /\ PlaceCue(list, name, beat)[Len(list) + 1] = Cue(name, beat)
           /\ \A i \in DOMAIN list : PlaceCue(list, name, beat)[i] = list[i]
<1> DEFINE toggled == SetOrDeleteCue(list, beat)
           last == Len(list) + 1
           S == Within(toggled, beat, 0)
           m == Min(S)
           new == PlaceCue(list, name, beat)
<1>1. /\ toggled \in CueList /\ Len(toggled) = last /\ toggled[last] = Cue(NewName, beat)
      /\ \A i \in DOMAIN list : toggled[i] = list[i]
  BY SwitchMakes
<1>2. new = IF S = {} THEN toggled ELSE Rename(toggled, m, name)
  BY DEF PlaceCue
<1>3. /\ Len(list) \in Nat /\ DOMAIN list = 1..Len(list)
      /\ \A i \in DOMAIN list : list[i].position # beat
  BY Cues DEF At
<1> HIDE DEF toggled, new
<1>4. DOMAIN toggled = 1..last
  BY <1>1, Cues
<1>5. toggled[last].position = beat /\ last \in DOMAIN toggled
  BY <1>1, <1>3, <1>4 DEF Cue
<1>6. last \in S
  BY <1>5 DEF Within
<1>7. m \in DOMAIN toggled /\ toggled[m].position = beat
  BY <1>1, <1>6, FirstAt
<1> HIDE DEF S, m
<1>8. m = last
  <2>1. CASE m \in DOMAIN list
    BY <1>1, <1>3, <1>7, <2>1
  <2>2. CASE m \notin DOMAIN list
    BY <1>3, <1>4, <1>7, <2>2
  <2> QED BY <2>1, <2>2
<1>9. new = Rename(toggled, m, name)
  BY <1>2, <1>6
<1>10. /\ Len(new) = Len(toggled) /\ new[m] = Cue(name, toggled[m].position)
       /\ \A k \in DOMAIN toggled : k # m => new[k] = toggled[k]
  BY <1>1, <1>7, <1>9, RenameType
<1>11. \A i \in DOMAIN list : new[i] = list[i]
  <2> SUFFICES ASSUME NEW i \in DOMAIN list
               PROVE  new[i] = list[i]
    OBVIOUS
  <2>1. i \in DOMAIN toggled /\ i # m
    BY <1>3, <1>4, <1>8
  <2> QED BY <1>1, <1>10, <2>1
<1>12. Len(new) = last /\ new[last] = Cue(name, beat)
  BY <1>1, <1>5, <1>8, <1>10, Zenon
<1> QED BY <1>11, <1>12 DEF new

\* The list after each of the pairs.
LEMMA PlacedSteps ==
    ASSUME NEW list \in CueList, NEW params, Len(Pairs(params)) \in Nat,
           \A k \in 1..Len(Pairs(params)) :
              Pairs(params)[k].name \in Name /\ BeatOf(params, Pairs(params)[k]) \in Nat
    PROVE  /\ \A k \in 0..Len(Pairs(params)) : PlacedUpTo(list, params)[k] \in CueList
           /\ PlacedUpTo(list, params)[0] = DeleteAll(list)
           /\ \A k \in 1..Len(Pairs(params)) :
                 PlacedUpTo(list, params)[k] = PlaceCue(PlacedUpTo(list, params)[k - 1], Pairs(params)[k].name, BeatOf(params, Pairs(params)[k]))
<1> DEFINE n == Len(Pairs(params))
           base == DeleteAll(list)
           F(g, k) == IF k = 0 THEN base ELSE PlaceCue(g[k - 1], Pairs(params)[k].name, BeatOf(params, Pairs(params)[k]))
           Is(g) == g = [k \in 0..n |-> F(g, k)]
           step == [x \in CueList \X (1..n) |-> PlaceCue(x[1], Pairs(params)[x[2]].name, BeatOf(params, Pairs(params)[x[2]]))]
           f == PlacedUpTo(list, params)
<1>1. n \in Nat /\ base \in CueList
  <2>1. <<>> \in CueList
    BY DEF CueList
  <2> QED BY <2>1, DeletesAll
<1>2. f = CHOOSE g : Is(g)
  BY DEF PlacedUpTo
<1>3. \A l \in CueList, k \in 1..n : PlaceCue(l, Pairs(params)[k].name, BeatOf(params, Pairs(params)[k])) \in CueList
  BY PlaceCueType
<1> HIDE DEF f, n, base
<1>4. Rounded(step, n, CueList)
  <2> SUFFICES ASSUME NEW l \in CueList, NEW k \in 1..n
               PROVE  step[<<l, k>>] \in CueList
    BY DEF Rounded
  <2>1. <<l, k>> \in CueList \X (1..n)
    OBVIOUS
  <2>2. step[<<l, k>>] = PlaceCue(l, Pairs(params)[k].name, BeatOf(params, Pairs(params)[k]))
    BY <2>1
  <2> QED BY <1>3, <2>2
<1>5. PICK g : Runs(g, step, n, CueList, base)
  <2> HIDE DEF step
  <2> QED BY <1>1, <1>4, LoopRuns
<1>6. \A k \in 1..n : g[k] = PlaceCue(g[k - 1], Pairs(params)[k].name, BeatOf(params, Pairs(params)[k]))
  <2> SUFFICES ASSUME NEW k \in 1..n
               PROVE  g[k] = PlaceCue(g[k - 1], Pairs(params)[k].name, BeatOf(params, Pairs(params)[k]))
    OBVIOUS
  <2>1. k - 1 \in 0..n
    BY <1>1
  <2>2. g[k - 1] \in CueList /\ <<g[k - 1], k>> \in CueList \X (1..n)
    BY <1>5, <2>1 DEF Runs
  <2>3. step[<<g[k - 1], k>>] = PlaceCue(g[k - 1], Pairs(params)[k].name, BeatOf(params, Pairs(params)[k]))
    BY <2>2
  <2>4. g[k] = step[<<g[k - 1], k>>]
    <3> HIDE DEF step
    <3> QED BY <1>5 DEF Runs
  <2> HIDE DEF step
  <2> QED BY <2>3, <2>4, Zenon
<1>7. Is(g)
  <2>1. g = [k \in 0..n |-> g[k]] /\ g[0] = base
    <3> HIDE DEF step
    <3> QED BY <1>5 DEF Runs
  <2>2. ASSUME NEW k \in 0..n
        PROVE  g[k] = F(g, k)
    <3>1. CASE k = 0
      BY <2>1, <3>1
    <3>2. CASE k # 0
      <4>1. k \in 1..n
        BY <1>1, <3>2
      <4> QED BY <1>6, <3>2, <4>1
    <3> QED BY <3>1, <3>2
  <2> HIDE DEF F
  <2> QED BY <2>1, <2>2, Zenon
<1>8. Is(f)
  <2> HIDE DEF Is
  <2> QED BY <1>2, <1>7
<1>9. f[0] = base /\ \A k \in 1..n : f[k] = PlaceCue(f[k - 1], Pairs(params)[k].name, BeatOf(params, Pairs(params)[k]))
  <2>1. \A k \in 0..n : f[k] = F(f, k)
    <3> HIDE DEF F
    <3> QED BY <1>8
  <2>2. 0 \in 0..n /\ \A k \in 1..n : k \in 0..n /\ k # 0
    BY <1>1
  <2> QED BY <2>1, <2>2
<1>10. \A k \in 0..n : f[k] \in CueList
  <2> DEFINE S == {k \in 0..n : f[k] \in CueList}
  <2>1. 0 \in S
    BY <1>1, <1>9
  <2>2. \A k \in 0..n : k < n /\ k \in S => k + 1 \in S
    <3> SUFFICES ASSUME NEW k \in 0..n, k < n, f[k] \in CueList
                 PROVE  k + 1 \in 0..n /\ f[k + 1] \in CueList
      OBVIOUS
    <3>1. k + 1 \in 1..n /\ (k + 1) - 1 = k
      BY <1>1
    <3> QED BY <1>3, <1>9, <3>1
  <2>3. \A k \in 0..n : k \in S
    <3> HIDE DEF S
    <3> QED BY <1>1, <2>1, <2>2, Rounds
  <2> QED BY <2>3
<1> QED BY <1>9, <1>10, Zenon DEF f, n, base

\* The list after all of them, when no two are at one beat: theirs and no others.
LEMMA PlacesAll ==
    ASSUME NEW list \in CueList, NEW params, Len(Pairs(params)) \in Nat,
           \A k \in 1..Len(Pairs(params)) :
              Pairs(params)[k].name \in Name /\ BeatOf(params, Pairs(params)[k]) \in Nat,
           \A i, j \in 1..Len(Pairs(params)) :
              i # j => BeatOf(params, Pairs(params)[i]) # BeatOf(params, Pairs(params)[j])
    PROVE  /\ Len(PlacedUpTo(list, params)[Len(Pairs(params))]) = Len(Pairs(params))
           /\ \A i \in 1..Len(Pairs(params)) :
                 PlacedUpTo(list, params)[Len(Pairs(params))][i]
                   = Cue(Pairs(params)[i].name, BeatOf(params, Pairs(params)[i]))
<1> DEFINE f == PlacedUpTo(list, params)
           n == Len(Pairs(params))
           nameOf(k) == Pairs(params)[k].name
           beatOf(k) == BeatOf(params, Pairs(params)[k])
           Done(k) == Len(f[k]) = k /\ \A i \in 1..k : f[k][i] = Cue(nameOf(i), beatOf(i))
           S == {k \in 0..n : Done(k)}
<1>1. /\ n \in Nat /\ \A k \in 1..n : nameOf(k) \in Name /\ beatOf(k) \in Nat
      /\ \A i, j \in 1..n : i # j => beatOf(i) # beatOf(j)
  OBVIOUS
<1>2. /\ \A k \in 0..n : f[k] \in CueList
      /\ f[0] = DeleteAll(list)
      /\ \A k \in 1..n : f[k] = PlaceCue(f[k - 1], nameOf(k), beatOf(k))
  BY PlacedSteps
<1> HIDE DEF f, n, nameOf, beatOf
<1>3. 0 \in S
  <2>1. f[0] = <<>>
    BY <1>2, DeletesAll
  <2>2. Len(f[0]) = 0
    BY <2>1
  <2> QED BY <1>1, <2>2
<1>4. ASSUME NEW k \in 0..n, k < n, Done(k)
      PROVE  k + 1 \in 0..n /\ Done(k + 1)
  <2> DEFINE old == f[k]
             new == f[k + 1]
             b == beatOf(k + 1)
             w == nameOf(k + 1)
  <2>1. k + 1 \in 1..n /\ (k + 1) - 1 = k /\ k + 1 \in 0..n
    BY <1>1, <1>4
  <2>2. old \in CueList /\ new = PlaceCue(old, w, b) /\ w \in Name /\ b \in Nat
    BY <1>1, <1>2, <2>1
  <2>3. Len(old) = k /\ \A i \in 1..k : old[i] = Cue(nameOf(i), beatOf(i))
    BY <1>4
  <2>4. \A i \in 1..k : beatOf(i) # b
    BY <1>1, <2>1
  <2> HIDE DEF old, new, b, w
  <2>5. DOMAIN old = 1..k
    BY <2>2, <2>3, Cues
  <2>6. At(old, b) = {}
    BY <2>3, <2>4, <2>5 DEF At, Cue
  <2>7. Len(new) = Len(old) + 1 /\ new[Len(old) + 1] = Cue(w, b) /\ \A i \in DOMAIN old : new[i] = old[i]
    BY <2>2, <2>6, PlaceCueMakes
  <2>8. Len(new) = k + 1 /\ new[k + 1] = Cue(nameOf(k + 1), beatOf(k + 1))
    BY <2>3, <2>7, Zenon DEF w, b
  <2>9. \A i \in 1..k : new[i] = Cue(nameOf(i), beatOf(i))
    BY <2>3, <2>5, <2>7
  <2>10. \A i \in 1..k + 1 : i = k + 1 \/ i \in 1..k
    BY <1>1
  <2>11. \A i \in 1..k + 1 : new[i] = Cue(nameOf(i), beatOf(i))
    BY <2>8, <2>9, <2>10, Zenon
  <2> QED BY <2>1, <2>8, <2>11 DEF new
<1>5. n \in S
  <2>1. \A k \in 0..n : k < n /\ k \in S => k + 1 \in S
    <3> HIDE DEF Done
    <3> QED BY <1>4
  <2> HIDE DEF S
  <2>2. n \in 0..n
    BY <1>1
  <2> QED BY <1>1, <1>3, <2>1, <2>2, Rounds
<1>6. Done(n)
  BY <1>5
<1> QED BY <1>6 DEF f, n, nameOf, beatOf

-----------------------------------------------------------------------------
(* Cue points from an analysis: what is sent *)

\* Numbers and words.
Arg == {Number(t) : t \in Nat} \cup {Word(w) : w \in Name}

\* The sections, a word and a number each.
LEMMA FlatArgs ==
    ASSUME NEW sections \in SectionList
    PROVE  /\ Flat(sections) \in Seq(Arg) /\ Len(Flat(sections)) = 2 * Len(sections)
           /\ \A m \in 1..Len(sections) :
                 /\ Flat(sections)[2 * m - 1] = Word(sections[m].name)
                 /\ Flat(sections)[2 * m] = Number(sections[m].time)
<1> DEFINE n == Len(sections)
           arg(k) == IF k % 2 = 1 THEN Word(sections[(k + 1) \div 2].name) ELSE Number(sections[k \div 2].time)
<1>1. n \in Nat /\ \A k \in 1..n : sections[k].name \in Name /\ sections[k].time \in Nat
  BY SectionsType
<1>2. Flat(sections) = [k \in 1..2 * n |-> arg(k)]
  BY DEF Flat
<1> HIDE DEF n
<1>3. ASSUME NEW m \in 1..n
      PROVE  arg(2 * m - 1) = Word(sections[m].name) /\ arg(2 * m) = Number(sections[m].time)
  <2>1. (2 * m - 1) % 2 = 1 /\ ((2 * m - 1) + 1) \div 2 = m /\ (2 * m) % 2 = 0 /\ (2 * m) \div 2 = m
    BY <1>1
  <2> QED BY <2>1
<1>4. ASSUME NEW k \in 1..2 * n
      PROVE  arg(k) \in Arg
  <2>1. CASE k % 2 = 1
    <3>1. (k + 1) \div 2 \in 1..n
      BY <1>1, <2>1
    <3>2. sections[(k + 1) \div 2].name \in Name
      BY <1>1, <3>1
    <3>3. arg(k) = Word(sections[(k + 1) \div 2].name)
      BY <2>1
    <3> HIDE DEF arg
    <3> QED BY <3>2, <3>3 DEF Arg
  <2>2. CASE k % 2 # 1
    <3>1. k \div 2 \in 1..n
      BY <1>1, <2>2
    <3>2. sections[k \div 2].time \in Nat
      BY <1>1, <3>1
    <3>3. arg(k) = Number(sections[k \div 2].time)
      BY <2>2
    <3> HIDE DEF arg
    <3> QED BY <3>2, <3>3 DEF Arg
  <2> QED BY <2>1, <2>2
<1> HIDE DEF arg
<1>5. Flat(sections) \in Seq(Arg) /\ Len(Flat(sections)) = 2 * n
  <2>1. Flat(sections) \in [1..2 * n -> Arg] /\ 2 * n \in Nat
    BY <1>1, <1>2, <1>4
  <2> QED BY <2>1
<1>6. ASSUME NEW m \in 1..n
      PROVE  Flat(sections)[2 * m - 1] = Word(sections[m].name) /\ Flat(sections)[2 * m] = Number(sections[m].time)
  <2>1. 2 * m - 1 \in 1..2 * n /\ 2 * m \in 1..2 * n
    BY <1>1
  <2>2. Flat(sections)[2 * m - 1] = arg(2 * m - 1) /\ Flat(sections)[2 * m] = arg(2 * m)
    BY <1>2, <2>1
  <2> QED BY <1>3, <2>2
<1> QED BY <1>5, <1>6 DEF n

\* Two arguments in front of others.
LEMMA InFront ==
    ASSUME NEW T, NEW a \in T, NEW b \in T, NEW rest \in Seq(T)
    PROVE  /\ Len(<<a, b>> \o rest) = Len(rest) + 2
           /\ (<<a, b>> \o rest)[1] = a /\ (<<a, b>> \o rest)[2] = b
           /\ \A k \in 1..Len(rest) : (<<a, b>> \o rest)[k + 2] = rest[k]
<1> DEFINE h == <<a, b>>
<1>1. h \in Seq(T) /\ Len(h) = 2 /\ h[1] = a /\ h[2] = b
  OBVIOUS
<1>2. Len(rest) \in Nat
  OBVIOUS
<1> HIDE DEF h
<1>3. Len(h \o rest) = Len(rest) + 2
  <2>1. Len(h \o rest) = Len(h) + Len(rest)
    <3>1. h \in Seq(T) /\ rest \in Seq(T)
      BY <1>1
    <3> QED BY <3>1
  <2> QED BY <1>1, <1>2, <2>1
<1>4. (h \o rest)[1] = a /\ (h \o rest)[2] = b
  BY <1>1, <1>2
<1>5. ASSUME NEW k \in 1..Len(rest)
      PROVE  (h \o rest)[k + 2] = rest[k]
  <2> DEFINE m == k + 2
  <2>1. m \in 1..Len(h) + Len(rest) /\ ~(m <= Len(h)) /\ m - Len(h) = k
    BY <1>1, <1>2
  <2> HIDE DEF m
  <2>2. (h \o rest)[m] = rest[m - Len(h)]
    <3>1. h \in Seq(T) /\ rest \in Seq(T) /\ Len(h) \in Nat
      BY <1>1
    <3> QED BY <1>2, <2>1, <3>1
  <2> QED BY <2>1, <2>2 DEF m
<1> QED BY <1>3, <1>4, <1>5 DEF h

\* What analyze_guide.command sends: the tempo, the offset, and the sections.
LEMMA AnalysisArgs ==
    ASSUME NEW sections \in SectionList, NEW bpm \in Nat, NEW from \in Nat
    PROVE  /\ Len(Analysis(bpm, from, sections)) = 2 * Len(sections) + 2
           /\ Analysis(bpm, from, sections)[1] = Number(bpm)
           /\ Analysis(bpm, from, sections)[2] = Number(from)
           /\ \A k \in 1..Len(sections) :
                 /\ Analysis(bpm, from, sections)[2 * k + 1] = Word(sections[k].name)
                 /\ Analysis(bpm, from, sections)[2 * k + 2] = Number(sections[k].time)
<1> DEFINE rest == Flat(sections)
           n == Len(sections)
           a == Number(bpm)
           b == Number(from)
           all == Analysis(bpm, from, sections)
<1>1. n \in Nat
  BY SectionsType
<1>2. rest \in Seq(Arg) /\ Len(rest) = 2 * n
  BY FlatArgs
<1>3. \A k \in 1..n : rest[2 * k - 1] = Word(sections[k].name) /\ rest[2 * k] = Number(sections[k].time)
  BY FlatArgs
<1>4. a \in Arg /\ b \in Arg
  BY DEF Arg
<1>5. all = <<a, b>> \o rest
  BY DEF Analysis
<1> HIDE DEF rest, n, a, b, all
<1>6. /\ Len(all) = Len(rest) + 2 /\ all[1] = a /\ all[2] = b
      /\ \A k \in 1..Len(rest) : all[k + 2] = rest[k]
  <2>1. /\ Len(<<a, b>> \o rest) = Len(rest) + 2
        /\ (<<a, b>> \o rest)[1] = a /\ (<<a, b>> \o rest)[2] = b
        /\ \A k \in 1..Len(rest) : (<<a, b>> \o rest)[k + 2] = rest[k]
    BY <1>2, <1>4, InFront
  <2> QED BY <1>5, <2>1, Zenon
<1>7. Len(all) = 2 * n + 2
  BY <1>2, <1>6
<1>8. ASSUME NEW k \in 1..n
      PROVE  all[2 * k + 1] = Word(sections[k].name) /\ all[2 * k + 2] = Number(sections[k].time)
  <2>1. /\ 2 * k - 1 \in 1..Len(rest) /\ (2 * k - 1) + 2 = 2 * k + 1
        /\ 2 * k \in 1..Len(rest)
    BY <1>1, <1>2
  <2>2. all[(2 * k - 1) + 2] = rest[2 * k - 1] /\ all[2 * k + 2] = rest[2 * k]
    BY <1>6, <2>1
  <2>3. all[2 * k + 1] = rest[2 * k - 1] /\ all[2 * k + 2] = rest[2 * k]
    BY <2>1, <2>2
  <2> QED BY <1>3, <2>3
<1> QED BY <1>6, <1>7, <1>8 DEF n, a, b, all

\* The k-th number from 1 to n is the one that has k - 1 before it.
LEMMA KthOf ==
    ASSUME NEW n \in Nat, NEW k \in 1..n
    PROVE  (CHOOSE i \in 1..n : Cardinality({j \in 1..n : j < i}) = k - 1) = k
<1>1. ASSUME NEW i \in 1..n
      PROVE  Cardinality({j \in 1..n : j < i}) = i - 1
  <2>1. {j \in 1..n : j < i} = 1..i - 1
    OBVIOUS
  <2>2. Cardinality(1..i - 1) = IF 1 > i - 1 THEN 0 ELSE (i - 1) - 1 + 1
    <3>1. 1 \in Int /\ i - 1 \in Int
      OBVIOUS
    <3> QED BY <3>1, FS_Interval
  <2>3. Cardinality(1..i - 1) = i - 1
    BY <2>2
  <2> QED BY <2>1, <2>3
<1> DEFINE before(i) == Cardinality({j \in 1..n : j < i})
<1>2. \A i \in 1..n : before(i) = i - 1
  BY <1>1
<1> HIDE DEF before
<1>3. \A i \in 1..n : before(i) = k - 1 => i = k
  BY <1>2
<1>4. before(k) = k - 1
  BY <1>2
<1>5. (CHOOSE i \in 1..n : before(i) = k - 1) = k
  BY <1>3, <1>4
<1> QED BY <1>5 DEF before

\* The pairs of an analysis are its sections.
LEMMA PairsOfAnalysis ==
    ASSUME NEW sections \in SectionList, NEW bpm \in Nat, NEW from \in Nat,
           NEW params, params = Analysis(bpm, from, sections)
    PROVE  /\ Len(Pairs(params)) = Len(sections)
           /\ \A k \in 1..Len(sections) :
                 Pairs(params)[k].name = sections[k].name /\ Pairs(params)[k].time = sections[k].time
<1> DEFINE n == Len(sections)
           pair(k) == [name |-> params[2 * k + 1].word, time |-> params[2 * k + 2].number]
           good == {k \in 1..(Len(params) \div 2) - 1 : IsNumber(params[2 * k + 2])}
           nth(m) == CHOOSE k \in good : Cardinality({j \in good : j < k}) = m - 1
<1>1. n \in Nat
  BY SectionsType
<1>2. /\ Len(params) = 2 * n + 2
      /\ \A k \in 1..n : params[2 * k + 1] = Word(sections[k].name) /\ params[2 * k + 2] = Number(sections[k].time)
  BY AnalysisArgs
<1>3. Pairs(params) = [m \in 1..Cardinality(good) |-> pair(nth(m))]
  BY DEF Pairs
<1> HIDE DEF n
<1>4. good = 1..n
  <2>1. (Len(params) \div 2) - 1 = n
    BY <1>1, <1>2
  <2>2. \A t : IsNumber(Number(t))
    BY DEF IsNumber, Number
  <2>3. \A k \in 1..n : IsNumber(params[2 * k + 2])
    BY <1>2, <2>2, Zenon
  <2> QED BY <2>1, <2>3
<1>5. Cardinality(good) = n
  <2>1. 1 \in Int /\ n \in Int
    BY <1>1
  <2>2. Cardinality(1..n) = IF 1 > n THEN 0 ELSE n - 1 + 1
    BY <2>1, FS_Interval
  <2>3. Cardinality(1..n) = n
    BY <1>1, <2>2
  <2> QED BY <1>4, <2>3
<1> HIDE DEF good
<1>6. \A m \in 1..n : nth(m) = m
  BY <1>1, <1>4, KthOf
<1> HIDE DEF nth
<1>7. \A m \in 1..n : pair(m).name = sections[m].name /\ pair(m).time = sections[m].time
  <2> SUFFICES ASSUME NEW m \in 1..n
               PROVE  pair(m).name = sections[m].name /\ pair(m).time = sections[m].time
    OBVIOUS
  <2>1. \A t : Number(t).number = t /\ Word(t).word = t
    BY DEF Number, Word
  <2>2. params[2 * m + 1] = Word(sections[m].name) /\ params[2 * m + 2] = Number(sections[m].time)
    BY <1>2
  <2>3. pair(m).name = params[2 * m + 1].word /\ pair(m).time = params[2 * m + 2].number
    OBVIOUS
  <2> HIDE DEF pair
  <2> QED BY <2>1, <2>2, <2>3, Zenon
<1> HIDE DEF pair
<1>8. Pairs(params) = [m \in 1..n |-> pair(nth(m))]
  BY <1>3, <1>5
<1>9. Len(Pairs(params)) = n
  BY <1>1, <1>8
<1>10. \A m \in 1..n : Pairs(params)[m] = pair(m)
  BY <1>6, <1>8
<1> QED BY <1>7, <1>9, <1>10 DEF n

\* The nearest beat is within half a beat.
LEMMA NearestBeatNear ==
    ASSUME NEW t \in Nat
    PROVE  NearestBeat(t) \in Nat /\ NearestBeat(t) - t \in -1..1
<1> DEFINE q == t \div 2
<1>1. q \in Nat /\ (t = 2 * q \/ t = 2 * q + 1) /\ (t % 2 = 0 => t = 2 * q)
  OBVIOUS
<1>2. NearestBeat(t) = IF t % 2 = 0 \/ q % 2 = 0 THEN 2 * q ELSE 2 * q + 2
  BY DEF NearestBeat
<1>3. t % 2 # 0 => t = 2 * q + 1
  OBVIOUS
<1> HIDE DEF q
<1>4. NearestBeat(t) = 2 * q \/ (NearestBeat(t) = 2 * q + 2 /\ t = 2 * q + 1)
  BY <1>2, <1>3
<1> QED BY <1>1, <1>4

\* Times more than a beat apart have beats of their own.
LEMMA BeatsApart ==
    ASSUME NEW p \in Nat, NEW q \in Nat, NEW x \in Nat, NEW y \in Nat,
           p - x \in -1..1, q - y \in -1..1, x - y \notin -2..2
    PROVE  p # q
<1>1. -1 <= p - x /\ p - x <= 1 /\ -1 <= q - y /\ q - y <= 1
  OBVIOUS
<1>2. x - y < -2 \/ x - y > 2
  OBVIOUS
<1> QED BY <1>1, <1>2

\* The markers after an analysis: one for each section, named for it, within half a beat of
\* where it is spoken, when the sections are apart.
LEMMA AnalysisPlaces ==
    ASSUME NEW list \in CueList, NEW sections \in SectionList, Len(sections) > 0,
           NEW bpm \in Nat, NEW from \in Nat, NEW params, params = Analysis(bpm, from, sections)
    PROVE  /\ Understood(params) /\ params[1].number = bpm
           /\ ReplaceAllCues(list, params) \in CueList
           /\ (\A i, j \in 1..Len(sections) :
                  i # j => (sections[i].time * bpm + from) - (sections[j].time * bpm + from) \notin -2..2)
              => /\ Len(ReplaceAllCues(list, params)) = Len(sections)
                 /\ \A i \in 1..Len(sections) :
                       /\ ReplaceAllCues(list, params)[i].name = sections[i].name
                       /\ ReplaceAllCues(list, params)[i].position - (sections[i].time * bpm + from) \in -1..1
<1> DEFINE n == Len(sections)
           pairs == Pairs(params)
           t(i) == sections[i].time * bpm
           beat(i) == NearestBeat(t(i)) + from
           new == ReplaceAllCues(list, params)
<1>1. n \in Nat /\ \A i \in 1..n : sections[i].name \in Name /\ sections[i].time \in Nat
  BY SectionsType
<1>2. Len(params) = 2 * n + 2 /\ params[1] = Number(bpm) /\ params[2] = Number(from)
  BY AnalysisArgs
<1>3. Len(pairs) = n /\ \A i \in 1..n : pairs[i].name = sections[i].name /\ pairs[i].time = sections[i].time
  BY PairsOfAnalysis
<1>4. params[1].number = bpm /\ params[2].number = from
  BY <1>2 DEF Number
<1>5. Understood(params)
  <2>1. IsNumber(params[1]) /\ IsNumber(params[2])
    BY <1>2 DEF IsNumber, Number
  <2>2. Len(params) >= 2
    BY <1>1, <1>2
  <2>3. pairs # <<>>
    <3>1. Len(pairs) # 0
      BY <1>1, <1>3
    <3> HIDE DEF pairs
    <3> QED BY <3>1
  <2> QED BY <2>1, <2>2, <2>3 DEF Understood
<1>6. ASSUME NEW i \in 1..n
      PROVE  t(i) \in Nat
  <2> DEFINE s == sections[i].time
  <2>1. s \in Nat
    BY <1>1
  <2> HIDE DEF s
  <2>2. s * bpm \in Nat
    BY <2>1
  <2> QED BY <2>2 DEF s
<1>7. \A i \in 1..n : BeatOf(params, pairs[i]) = beat(i)
  BY <1>3, <1>4 DEF BeatOf
<1>8. new = PlacedUpTo(list, params)[Len(pairs)]
  BY <1>5 DEF ReplaceAllCues
<1> HIDE DEF n, pairs, t, new
<1>9. \A i \in 1..n : beat(i) \in Nat /\ beat(i) - (t(i) + from) \in -1..1
  <2> SUFFICES ASSUME NEW i \in 1..n
               PROVE  beat(i) \in Nat /\ beat(i) - (t(i) + from) \in -1..1
    OBVIOUS
  <2> DEFINE u == t(i)
  <2>1. u \in Nat
    BY <1>6
  <2> HIDE DEF u
  <2>2. NearestBeat(u) \in Nat /\ NearestBeat(u) - u \in -1..1
    BY <2>1, NearestBeatNear
  <2>3. NearestBeat(u) + from \in Nat /\ (NearestBeat(u) + from) - (u + from) \in -1..1
    BY <2>1, <2>2
  <2> QED BY <2>3 DEF u
<1> HIDE DEF beat
<1>10. Len(pairs) \in Nat /\ \A i \in 1..Len(pairs) : pairs[i].name \in Name /\ BeatOf(params, pairs[i]) \in Nat
  BY <1>1, <1>3, <1>7, <1>9
<1>11. new \in CueList
  <2>1. Len(pairs) \in 0..Len(pairs)
    BY <1>10
  <2>2. \A k \in 0..Len(pairs) : PlacedUpTo(list, params)[k] \in CueList
    BY <1>10, PlacedSteps DEF pairs
  <2> QED BY <1>8, <2>1, <2>2
<1>12. ASSUME \A i, j \in 1..n : i # j => (t(i) + from) - (t(j) + from) \notin -2..2
       PROVE  /\ Len(new) = n
              /\ \A i \in 1..n : new[i].name = sections[i].name /\ new[i].position - (t(i) + from) \in -1..1
  <2>1. \A i, j \in 1..Len(pairs) : i # j => BeatOf(params, pairs[i]) # BeatOf(params, pairs[j])
    <3> SUFFICES ASSUME NEW i \in 1..n, NEW j \in 1..n, i # j
                 PROVE  beat(i) # beat(j)
      BY <1>3, <1>7
    <3>1. t(i) \in Nat /\ t(j) \in Nat /\ beat(i) \in Nat /\ beat(j) \in Nat
      BY <1>6, <1>9
    <3>2. beat(i) - (t(i) + from) \in -1..1 /\ beat(j) - (t(j) + from) \in -1..1
      BY <1>9
    <3>3. (t(i) + from) - (t(j) + from) \notin -2..2
      BY <1>12
    <3>4. t(i) + from \in Nat /\ t(j) + from \in Nat
      BY <3>1
    <3> QED BY <3>1, <3>2, <3>3, <3>4, BeatsApart
  <2>2. /\ Len(new) = Len(pairs)
        /\ \A i \in 1..Len(pairs) : new[i] = Cue(pairs[i].name, BeatOf(params, pairs[i]))
    <3>1. /\ Len(PlacedUpTo(list, params)[Len(pairs)]) = Len(pairs)
          /\ \A i \in 1..Len(pairs) :
                PlacedUpTo(list, params)[Len(pairs)][i] = Cue(pairs[i].name, BeatOf(params, pairs[i]))
      BY <1>10, <2>1, PlacesAll DEF pairs
    <3> QED BY <1>8, <3>1, Zenon
  <2>3. ASSUME NEW i \in 1..n
        PROVE  new[i].name = sections[i].name /\ new[i].position - (t(i) + from) \in -1..1
    <3>1. new[i] = Cue(pairs[i].name, BeatOf(params, pairs[i]))
      BY <1>3, <2>2
    <3>2. new[i].name = pairs[i].name /\ new[i].position = BeatOf(params, pairs[i])
      BY <3>1 DEF Cue
    <3> QED BY <1>3, <1>7, <1>9, <3>2
  <2> QED BY <1>3, <2>2, <2>3
<1> QED BY <1>4, <1>5, <1>11, <1>12 DEF n, t, new

\* With a header in front there is a section, whatever was heard.
LEMMA Headed ==
    ASSUME NEW name \in Name, NEW sections \in SectionList
    PROVE  WithHeader(name, sections) \in SectionList /\ Len(WithHeader(name, sections)) > 0
<1> DEFINE T == [name : Name, time : Nat]
           r == [name |-> name, time |-> 0]
           h == <<r>>
<1>1. r \in T /\ sections \in Seq(T)
  BY DEF SectionList
<1> HIDE DEF T, r
<1>2. h \in Seq(T) /\ Len(h) = 1
  BY <1>1
<1> HIDE DEF h
<1>3. h \o sections \in Seq(T) /\ Len(h \o sections) = Len(h) + Len(sections)
  <2>1. h \in Seq(T) /\ sections \in Seq(T)
    BY <1>1, <1>2
  <2> QED BY <2>1
<1>4. Len(sections) \in Nat
  BY <1>1
<1>5. WithHeader(name, sections) = h \o sections
  BY DEF WithHeader, h, r
<1>6. Len(h \o sections) > 0
  BY <1>2, <1>3, <1>4
<1> QED BY <1>3, <1>5, <1>6 DEF SectionList, T

\* The message of analyze_guide_track is not understood: its first argument is a word.
LEMMA GuideCuesNotUnderstood ==
    ASSUME NEW bpm \in Nat, NEW sections \in SectionList
    PROVE  ~Understood(GuideCues(bpm, sections))
<1> DEFINE inBeats == [i \in DOMAIN sections |->
                          [name |-> sections[i].name, time |-> sections[i].time * bpm]]
           rest == Flat(inBeats)
           T == Arg \cup {TempoWord}
           b == Number(bpm)
<1>1. Len(sections) \in Nat /\ DOMAIN sections = 1..Len(sections)
  BY DEF SectionList
<1>2. inBeats \in SectionList
  <2> DEFINE A == [name : Name, time : Nat]
             n == Len(sections)
  <2>1. ASSUME NEW i \in 1..n
        PROVE  [name |-> sections[i].name, time |-> sections[i].time * bpm] \in A
    <3> DEFINE s == sections[i].time
    <3>1. s \in Nat /\ sections[i].name \in Name
      BY SectionsType
    <3> HIDE DEF s
    <3>2. s * bpm \in Nat
      BY <3>1
    <3> QED BY <3>1, <3>2 DEF s
  <2>2. inBeats = [i \in 1..n |-> [name |-> sections[i].name, time |-> sections[i].time * bpm]]
    BY <1>1
  <2> HIDE DEF A, n, inBeats
  <2>3. inBeats \in [1..n -> A]
    BY <2>1, <2>2
  <2>4. inBeats \in Seq(A)
    BY <1>1, <2>3 DEF n
  <2> QED BY <2>4 DEF SectionList, A
<1> HIDE DEF inBeats
<1>3. rest \in Seq(T)
  <2>1. rest \in Seq(Arg)
    BY <1>2, FlatArgs
  <2> HIDE DEF rest
  <2>2. \A B : Arg \subseteq B => rest \in Seq(B)
    BY <2>1
  <2> QED BY <2>2
<1>4. b \in T /\ TempoWord \in T
  BY DEF Arg
<1>5. GuideCues(bpm, sections) = <<TempoWord, b>> \o rest
  BY DEF GuideCues, inBeats
<1> HIDE DEF rest, b, T
<1>6. (<<TempoWord, b>> \o rest)[1] = TempoWord
  <2> DEFINE a == TempoWord
  <2>1. a \in T
    BY <1>4
  <2> HIDE DEF a
  <2>2. (<<a, b>> \o rest)[1] = a
    BY <1>3, <1>4, <2>1, InFront
  <2> QED BY <2>2 DEF a
<1>7. ~IsNumber(TempoWord)
  BY DEF IsNumber, TempoWord, Word
<1> QED BY <1>5, <1>6, <1>7 DEF Understood

-----------------------------------------------------------------------------
(* The steps *)

\* The clips and the speeches of the instance are clips and speeches.
LEMMA InputsType ==
    /\ \A clips \in SomeClips : clips \in CueList /\ ApartClips(clips)
    /\ SomeSpeech \subseteq Speech
    /\ header \in Name
    /\ \A c \in SomeCue : c \in [name : Name, position : Nat]
<1>1. /\ header \in Name /\ start \in Name /\ loop \in Name /\ verse \in Name /\ chorus \in Name
      /\ MaxPosition \in Nat
  BY MarkersAssumption
<1>2. ASSUME NEW clips \in SomeClips
      PROVE  clips \in CueList /\ ApartClips(clips)
  <2> DEFINE C == [name : Name, position : Nat]
  <2>1. Cue(verse, 2) \in C /\ Cue(header, 0) \in C /\ Cue(chorus, 4) \in C
    BY <1>1 DEF Cue
  <2> DEFINE a == Cue(verse, 2)
             b == Cue(header, 0)
             c == Cue(chorus, 4)
  <2>2. b.position # c.position
    BY DEF Cue
  <2>3. clips = <<a>> \/ clips = <<b, c>>
    BY DEF SomeClips
  <2> HIDE DEF C, a, b, c
  <2>4. a \in C /\ b \in C /\ c \in C
    BY <2>1 DEF a, b, c
  <2>5. CASE clips = <<a>>
    <3>1. clips \in Seq(C) /\ DOMAIN clips = 1..1
      BY <2>4, <2>5
    <3> QED BY <3>1 DEF CueList, ApartClips, C
  <2>6. CASE clips = <<b, c>>
    <3>1. clips \in Seq(C) /\ DOMAIN clips = 1..2 /\ clips[1] = b /\ clips[2] = c
      BY <2>4, <2>6
    <3>2. \A i \in 1..2 : i = 1 \/ i = 2
      OBVIOUS
    <3> QED BY <2>2, <3>1, <3>2 DEF CueList, ApartClips, C
  <2> QED BY <2>3, <2>5, <2>6
<1>3. ASSUME NEW speech \in SomeSpeech
      PROVE  speech \in Speech
  <2> DEFINE U == [name : Name \cup {NoName}, time : Nat]
  <2>1. /\ Said(verse, 3) \in U /\ Said(chorus, 6) \in U /\ Said(verse, 2) \in U /\ Said(NoName, 3) \in U
        /\ Said(verse, 5) \in U /\ Said(verse, 1) \in U
    BY <1>1 DEF Said
  <2> HIDE DEF U
  <2>2. \/ speech = <<Said(verse, 3), Said(chorus, 6)>>
        \/ speech = <<Said(verse, 2), Said(NoName, 3), Said(verse, 3), Said(verse, 5)>>
        \/ speech = <<Said(verse, 1), Said(chorus, 6)>>
    BY DEF SomeSpeech
  <2>3. \A a, b \in U : <<a, b>> \in Seq(U)
    OBVIOUS
  <2>4. \A a, b, c, d \in U : <<a, b, c, d>> \in Seq(U)
    OBVIOUS
  <2>5. /\ <<Said(verse, 3), Said(chorus, 6)>> \in Seq(U)
        /\ <<Said(verse, 2), Said(NoName, 3), Said(verse, 3), Said(verse, 5)>> \in Seq(U)
        /\ <<Said(verse, 1), Said(chorus, 6)>> \in Seq(U)
    BY <2>1, <2>3, <2>4, Zenon
  <2>6. speech \in Seq(U)
    BY <2>2, <2>5, Zenon
  <2> QED BY <2>6 DEF Speech, U
<1>4. \A c \in SomeCue : c \in [name : Name, position : Nat]
  BY <1>1 DEF SomeCue, Even
<1> QED BY <1>1, <1>2, <1>3, <1>4

\* Applying an analysis keeps the list a list of cue points and marks its sections.
LEMMA ApplyAnalysisMarks ==
    ASSUME TypeOK, NEW speech \in SomeSpeech, NEW bpm \in Tempo, NEW from \in {0, 3},
           ApplyAnalysis(header, bpm, from, speech)
    PROVE  TypeOK' /\ SectionsMarked'
<1> DEFINE sections == WithHeader(header, Transcribe(speech))
           params == Analysis(bpm, from, sections)
           r == [sections |-> sections, bpm |-> bpm, start |-> from]
           new == ReplaceAllCues(cues, params)
<1>1. cues \in CueList /\ position \in Nat /\ tempo \in Nat
  BY DEF TypeOK, CueList
<1>2. bpm \in Nat /\ from \in Nat
  BY CueAssumption
<1>3. sections \in SectionList /\ Len(sections) > 0
  BY InputsType, TranscribeType, Headed
<1>4. /\ cues' = new /\ asked' = r /\ position' = position
      /\ tempo' = IF Understood(params) THEN params[1].number ELSE tempo
  BY DEF ApplyAnalysis, Replace
<1>5. r.sections = sections /\ r.bpm = bpm /\ r.start = from
  OBVIOUS
<1> HIDE DEF sections
<1>6. /\ Understood(params) /\ params[1].number = bpm /\ new \in CueList
      /\ (\A i, j \in 1..Len(sections) :
             i # j => (sections[i].time * bpm + from) - (sections[j].time * bpm + from) \notin -2..2)
         => /\ Len(new) = Len(sections)
            /\ \A i \in 1..Len(sections) :
                  /\ new[i].name = sections[i].name
                  /\ new[i].position - (sections[i].time * bpm + from) \in -1..1
  BY <1>1, <1>2, <1>3, AnalysisPlaces
<1> HIDE DEF r, params, new
<1>7. tempo' = bpm
  BY <1>4, <1>6
<1>8. sections # <<>> /\ DOMAIN sections = 1..Len(sections)
  BY <1>3 DEF SectionList
<1>9. TypeOK'
  BY <1>1, <1>2, <1>4, <1>5, <1>6, <1>7, <1>8 DEF TypeOK, CueList
<1>10. \A i \in 1..Len(sections) : Spoken(r, i) = sections[i].time * bpm + from
  BY <1>5 DEF Spoken
<1>11. ASSUME Apart(r)
       PROVE  /\ Len(new) = Len(sections)
              /\ \A i \in 1..Len(sections) :
                    /\ new[i].name = sections[i].name
                    /\ new[i].position - Spoken(r, i) \in -1..1
  <2>1. \A i, j \in 1..Len(sections) : i # j => Spoken(r, i) - Spoken(r, j) \notin -2..2
    BY <1>5, <1>8, <1>11 DEF Apart
  <2>2. \A i, j \in 1..Len(sections) :
           i # j => (sections[i].time * bpm + from) - (sections[j].time * bpm + from) \notin -2..2
    BY <1>10, <2>1, Zenon
  <2>3. /\ Len(new) = Len(sections)
        /\ \A i \in 1..Len(sections) :
              /\ new[i].name = sections[i].name
              /\ new[i].position - (sections[i].time * bpm + from) \in -1..1
    BY <1>6, <2>2
  <2> QED BY <1>10, <2>3, Zenon
<1>12. DOMAIN new = 1..Len(new)
  BY <1>6, Cues
<1>13. Apart(asked') => Marked(asked)'
  <2> SUFFICES ASSUME Apart(r)
               PROVE  /\ tempo' = asked'.bpm /\ Len(cues') = Len(asked'.sections)
                      /\ \A i \in DOMAIN asked'.sections :
                            \E k \in DOMAIN cues' : /\ cues'[k].name = asked'.sections[i].name
                                                    /\ cues'[k].position - Spoken(asked', i) \in -1..1
    BY <1>4 DEF Marked
  <2>1. asked'.sections = sections /\ asked'.bpm = bpm
    BY <1>4, <1>5
  <2>2. Len(new) = Len(sections)
    BY <1>11
  <2>3. ASSUME NEW i \in DOMAIN sections
        PROVE  \E k \in DOMAIN new : /\ new[k].name = sections[i].name
                                     /\ new[k].position - Spoken(r, i) \in -1..1
    <3>1. i \in 1..Len(sections) /\ i \in DOMAIN new
      BY <1>8, <1>12, <2>2
    <3> QED BY <1>11, <3>1
  <2>4. \A i \in DOMAIN sections :
           \E k \in DOMAIN cues' : /\ cues'[k].name = sections[i].name
                                   /\ cues'[k].position - Spoken(asked', i) \in -1..1
    BY <1>4, <2>3, Zenon
  <2> QED BY <1>4, <1>7, <2>1, <2>2, <2>4, Zenon
<1> QED BY <1>9, <1>13 DEF SectionsMarked

\* Every step keeps the list a list of cue points, and marks the sections it was asked to mark.
LEMMA MarkersStep ==
    ASSUME TypeOK, SectionsMarked, [Next]_vars
    PROVE  TypeOK' /\ SectionsMarked'
<1>1. cues \in CueList /\ position \in Nat /\ tempo \in Nat
  BY DEF TypeOK, CueList
<1>2. ASSUME cues' \in CueList, position' = position, tempo' = tempo, asked' = Nothing
      PROVE  TypeOK' /\ SectionsMarked'
  BY <1>1, <1>2 DEF TypeOK, CueList, SectionsMarked
<1>3. ASSUME NEW c \in SomeCue, AddMarker(c)
      PROVE  TypeOK' /\ SectionsMarked'
  <2> DEFINE C == [name : Name, position : Nat]
  <2>1. c \in C /\ cues \in Seq(C)
    BY <1>1, InputsType DEF CueList
  <2> HIDE DEF C
  <2>2. Append(cues, c) \in Seq(C)
    BY <2>1
  <2>3. Append(cues, c) \in CueList
    BY <2>2 DEF CueList, C
  <2>4. cues' = Append(cues, c) /\ position' = position /\ tempo' = tempo /\ asked' = Nothing
    BY <1>3 DEF AddMarker
  <2> QED BY <1>2, <2>3, <2>4
<1>4. ASSUME NEW clips \in SomeClips, GenerateCuesFromTrack(clips)
      PROVE  TypeOK' /\ SectionsMarked'
  <2>1. GenerateCues(cues, clips) \in CueList
    BY <1>1, InputsType, GeneratedNames
  <2>2. cues' = GenerateCues(cues, clips) /\ position' = position /\ tempo' = tempo /\ asked' = Nothing
    BY <1>4 DEF GenerateCuesFromTrack
  <2> QED BY <1>2, <2>1, <2>2
<1>5. ASSUME NEW speech \in SomeSpeech, NEW bpm \in Tempo, NEW from \in {0, 3},
             ApplyAnalysis(header, bpm, from, speech)
      PROVE  TypeOK' /\ SectionsMarked'
  BY <1>5, ApplyAnalysisMarks
<1>6. ASSUME NEW speech \in SomeSpeech, NEW bpm \in Tempo, AnalyzeGuideTrack(bpm, speech)
      PROVE  TypeOK' /\ SectionsMarked'
  <2> DEFINE params == GuideCues(bpm, Transcribe(speech))
  <2>1. ~Understood(params)
    <3>1. bpm \in Nat /\ Transcribe(speech) \in SectionList
      BY CueAssumption, InputsType, TranscribeType
    <3> QED BY <3>1, GuideCuesNotUnderstood
  <2>2. Replace(params, Nothing)
    BY <1>6 DEF AnalyzeGuideTrack
  <2> HIDE DEF params
  <2>3. cues' = cues /\ position' = position /\ tempo' = tempo /\ asked' = Nothing
    BY <2>1, <2>2 DEF Replace, ReplaceAllCues
  <2> QED BY <1>1, <1>2, <2>3
<1>7. CASE UNCHANGED vars
  BY <1>7 DEF vars, TypeOK, SectionsMarked, Marked, Apart, Spoken
<1> QED BY <1>3, <1>4, <1>5, <1>6, <1>7, Zenon DEF Next

\* There is nothing on the timeline at first.
LEMMA MarkersStart ==
    ASSUME Init
    PROVE  TypeOK /\ SectionsMarked
<1>1. /\ cues = <<>> /\ position \in Nat /\ tempo \in Nat /\ asked = Nothing
  BY MarkersAssumption, CueAssumption DEF Init
<1> QED BY <1>1 DEF TypeOK, SectionsMarked

\* Whatever makes them, Live's cue points have names and places on the timeline, so that the
\* parser always has a list to sort: TypeOK.
THEOREM CuePointsHavePlaces == Spec => []TypeOK
<1>1. Init => TypeOK /\ SectionsMarked
  BY MarkersStart
<1>2. TypeOK /\ SectionsMarked /\ [Next]_vars => TypeOK' /\ SectionsMarked'
  BY MarkersStep
<1> QED BY <1>1, <1>2, PTL DEF Spec

\* Applying an analysis leaves exactly the markers of its sections, whatever Live had before,
\* when they are more than a beat apart (song_replace_all_cues): SectionsMarked.
THEOREM AnalysisMarksSections == Spec => []SectionsMarked
<1>1. Init => TypeOK /\ SectionsMarked
  BY MarkersStart
<1>2. TypeOK /\ SectionsMarked /\ [Next]_vars => TypeOK' /\ SectionsMarked'
  BY MarkersStep
<1> QED BY <1>1, <1>2, PTL DEF Spec

\* Generating cue points from a track names one after every clip, and the cue points at other
\* positions keep their names and every index its position: OthersUntouched.
THEOREM GeneratingSparesOthers == Spec => OthersUntouched
<1> DEFINE Spared ==
             \A clips \in SomeClips : GenerateCuesFromTrack(clips) =>
                /\ \A n \in DOMAIN clips :
                      Cue(clips[n].name, clips[n].position) \in {cues'[i] : i \in DOMAIN cues'}
                /\ \A i \in DOMAIN cues :
                      /\ i \in DOMAIN cues' /\ cues'[i].position = cues[i].position
                      /\ (\A n \in DOMAIN clips : clips[n].position # cues[i].position)
                            => cues'[i] = cues[i]
<1>1. ASSUME TypeOK
      PROVE  Spared
  <2> SUFFICES ASSUME NEW clips \in SomeClips, GenerateCuesFromTrack(clips)
               PROVE  /\ \A n \in DOMAIN clips :
                            Cue(clips[n].name, clips[n].position) \in {cues'[i] : i \in DOMAIN cues'}
                      /\ \A i \in DOMAIN cues :
                            /\ i \in DOMAIN cues' /\ cues'[i].position = cues[i].position
                            /\ (\A n \in DOMAIN clips : clips[n].position # cues[i].position)
                                  => cues'[i] = cues[i]
    OBVIOUS
  <2> DEFINE new == GenerateCues(cues, clips)
  <2>1. cues \in CueList
    BY <1>1 DEF TypeOK, CueList
  <2>2. clips \in CueList /\ ApartClips(clips)
    BY InputsType
  <2>3. cues' = new
    BY DEF GenerateCuesFromTrack
  <2>4. /\ new \in CueList /\ Len(cues) <= Len(new)
        /\ \A i \in DOMAIN cues :
              /\ new[i].position = cues[i].position
              /\ (\A n \in DOMAIN clips : clips[n].position # cues[i].position) => new[i] = cues[i]
        /\ \A n \in DOMAIN clips : \E i \in DOMAIN new : new[i] = Cue(clips[n].name, clips[n].position)
    BY <2>1, <2>2, GeneratedNames
  <2> HIDE DEF new
  <2>5. DOMAIN cues \subseteq DOMAIN new
    <3>1. /\ DOMAIN cues = 1..Len(cues) /\ Len(cues) \in Nat
          /\ DOMAIN new = 1..Len(new) /\ Len(new) \in Nat
      BY <2>1, <2>4, Cues
    <3> QED BY <2>4, <3>1
  <2>6. \A n \in DOMAIN clips : Cue(clips[n].name, clips[n].position) \in {new[i] : i \in DOMAIN new}
    BY <2>4
  <2>7. \A i \in DOMAIN cues : i \in DOMAIN new
    BY <2>5
  <2> QED BY <2>3, <2>4, <2>6, <2>7, Zenon
<1>2. TypeOK /\ [Next]_vars => [Spared]_vars
  <2> HIDE DEF Spared
  <2> QED BY <1>1
<1>3. Spec => []TypeOK
  BY CuePointsHavePlaces
<1> QED BY <1>2, <1>3, PTL DEF Spec, OthersUntouched

-----------------------------------------------------------------------------
(* The parser, whatever is on the timeline *)

\* The parser's results need no more than the types.
LEMMA TypeGivesCues ==
    ASSUME TypeOK
    PROVE  CuesType
BY DEF TypeOK, CuesType, CueList

\* Every jump lands where the tapped section starts, in whatever order Ableton reports its cue
\* points and however many are at one position (parse_markers): CueIndexLands.
THEOREM JumpsLand == Spec => []CueIndexLands
<1>1. TypeOK => CueIndexLands
  BY TypeGivesCues, IndicesLand
<1> QED BY <1>1, CuePointsHavePlaces, PTL

\* No cue point behind the first song's start is lost, and the sections are in the order of the
\* timeline (parse_markers): NothingLost.
THEOREM NoCueIsLost == Spec => []NothingLost
<1>1. TypeOK => NothingLost
  BY TypeGivesCues, AllKept
<1> QED BY <1>1, CuePointsHavePlaces, PTL

\* A section's length reaches to the next section and no further, across songs too
\* (_annotate_section_lengths): SectionsTile.
THEOREM LengthsReachTheNext == Spec => []SectionsTile
<1>1. TypeOK => SectionsTile
  BY TypeGivesCues, LengthsTile
<1> QED BY <1>1, CuePointsHavePlaces, PTL

\* The section shown as the current one is the last of the whole set that has begun
\* (find_current_indices): CurrentIsLatest.
THEOREM TheLatestIsShown == Spec => []CurrentIsLatest
<1>1. TypeOK => CurrentIsLatest
  BY TypeGivesCues, LatestIsCurrent
<1> QED BY <1>1, CuePointsHavePlaces, PTL
=============================================================================
