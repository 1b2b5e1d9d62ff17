------------------------------ MODULE SkipList ------------------------------
(***************************************************************************)
(* container/skiplist/skiplist.go: a set of keys sorted by score, kept as  *)
(* a skip list with spans and a map from keys to scores, under a RWMutex.  *)
(* Del, insert and every read is one lock section.  Set is two of them,    *)
(* Del then insert, and so are the descending rank functions: between the  *)
(* two any other goroutine may change the set.                             *)
(***************************************************************************)
EXTENDS Integers, Sequences, FiniteSets, FiniteSetsExt, SequencesExt

CONSTANTS
  Procs,      \* goroutines that share the set
  Keys,       \* the keys in their order; 0 stands for the empty string
  Scores,     \* the scores (numbers: NaN, which has no order, is left out)
  MaxLevel,   \* DefaultMaxLevel
  Elems,      \* bound: the nodes of the list, besides its header
  MaxRaced,   \* bound: keys of which two Sets overlap
  Header, Nil,
  NoScore     \* no entry in the dict

ASSUME SkipListConstants ==
  /\ Keys \subseteq Nat /\ 0 \in Keys
  /\ Scores \subseteq Int /\ MaxLevel \in Nat \ {0}
  /\ IsFiniteSet(Elems) /\ Header \notin Elems /\ Nil \notin Elems \cup {Header}
  /\ NoScore \notin Scores /\ MaxRaced \in Nat

Nodes    == Elems \cup {Header}
Levels   == 1..MaxLevel
MaxNodes == Cardinality(Elems)

SkipLists ==
  [level : Levels, length : Int, tail : Nodes \cup {Nil},
   key : [Nodes -> Keys], score : [Nodes -> Scores \cup {0}],
   backward : [Nodes -> Nodes \cup {Nil}],
   forward : [Levels -> [Nodes -> Nodes \cup {Nil}]], span : [Levels -> [Nodes -> Int]]]

VARIABLES
  sl,      \* the skip list
  dict,    \* dict[k]: the score the map has for k
  call,    \* call[p]: the call of p between its two lock sections
  raced    \* history: keys of which two Sets have overlapped

vars == <<sl, dict, call, raced>>

Idle == [op |-> "none"]

\* got: what the first section of a descending read returned; quiet: nothing has
\* changed the set since.  An argument only the second section reads (the score of a
\* Set, the rank of GetElementByRankDESC) is not kept: it is any then.
Calls ==
  {Idle} \cup [op : {"Set"}, key : Keys]
  \cup [op : {"GetRankDESC"}, key : Keys, got : Int, quiet : BOOLEAN]
  \cup [op : {"GetElementByRankDESC"}, got : Int, quiet : BOOLEAN]

TypeOK ==
  /\ sl \in SkipLists
  /\ dict \in [Keys -> Scores \cup {NoScore}]
  /\ call \in [Procs -> Calls]
  /\ raced \subseteq Keys

newSkipList ==
  [level |-> 1, length |-> 0, tail |-> Nil,
   key |-> [n \in Nodes |-> 0], score |-> [n \in Nodes |-> 0],
   backward |-> [n \in Nodes |-> Nil],
   forward |-> [i \in Levels |-> [n \in Nodes |-> Nil]],
   span |-> [i \in Levels |-> [n \in Nodes |-> 0]]]

Init ==
  /\ sl = newSkipList
  /\ dict = [k \in Keys |-> NoScore]
  /\ call = [p \in Procs |-> Idle]
  /\ raced = {}

-----------------------------------------------------------------------------
\* The searches

\* Along the forward links of level i while ahead[n][r] holds of the next node n and its
\* rank r: where a node of a given rank leads, with at most all nodes passed.
walk(s, i, ahead) ==
  LET go[left \in 0..MaxNodes] ==
        [n \in Nodes |-> [r \in Int |->
           LET next == s.forward[i][n]
               rank == r + s.span[i][n]
           IN  IF left # 0 /\ next # Nil /\ ahead[next][rank] THEN go[left - 1][next][rank]
               ELSE [node |-> n, rank |-> r]]]
  IN  go[MaxNodes]

\* Down the levels from the header: where each level stops and at what rank.
descend(s, ahead) ==
  LET at[down \in 0..s.level] ==
        IF down = 0 THEN [node |-> Header, rank |-> 0]
        ELSE walk(s, s.level - down + 1, ahead)[at[down - 1].node][at[down - 1].rank]
  IN  [i \in 1..s.level |-> at[s.level - i + 1]]

\* Faulty variant: goes past an equal entry.
before_Past(s, n, k, sc) == s.score[n] < sc \/ (s.score[n] = sc /\ s.key[n] <= k)

before(s, n, k, sc) == s.score[n] < sc \/ (s.score[n] = sc /\ s.key[n] < k)

entry(s, n) == [key |-> s.key[n], score |-> s.score[n]]

\* The nodes met from n on along next, at most all of them.
chain(next, n) ==
  LET from[left \in 0..MaxNodes] ==
        [m \in Nodes \cup {Nil} |->
           IF left = 0 \/ m = Nil THEN <<>> ELSE <<m>> \o from[left - 1][next[m]]]
  IN  from[MaxNodes][n]

ascending(s)  == chain(s.forward[1], s.forward[1][Header])
descending(s) == chain(s.backward, s.tail)

-----------------------------------------------------------------------------
\* The reads: one lock section each

GetLenth == sl.length
GetLevel == sl.level
HasKey(k) == dict[k] # NoScore
GetScore(k) == dict[k]     \* NoScore: an error

firstN(q, n) == [j \in 1..Min({n, Len(q)}) |-> entry(sl, q[j])]

GetTopN(n)     == firstN(ascending(sl), n)
GetTopNDESC(n) == firstN(descending(sl), n)

\* The zero Node when no level stops at this rank.
GetElementByRankASC(rank) ==
  LET at  == descend(sl, [n \in Elems |-> [r \in Int |-> r <= rank]])
      hit == {i \in 1..sl.level : at[i].rank = rank}
  IN  IF hit = {} THEN [key |-> 0, score |-> 0] ELSE entry(sl, at[Max(hit)].node)

\* Faulty variant: stops before the key itself.
GetRank_Short(k) ==
  LET sc  == dict[k]
      at  == descend(sl, [n \in Elems |-> [r \in Int |-> before(sl, n, k, sc)]])
      hit == {i \in 1..sl.level : sl.key[at[i].node] = k}
  IN  IF HasKey(k) /\ hit # {} THEN at[Max(hit)].rank ELSE 0

\* 0 is also the answer, with an error, for a key that is not in the set.
GetRank(k) ==
  LET sc  == dict[k]
      at  == descend(sl, [n \in Elems |-> [r \in Int |->
                          sl.score[n] < sc \/ (sl.score[n] = sc /\ sl.key[n] <= k)]])
      hit == {i \in 1..sl.level : sl.key[at[i].node] = k}
  IN  IF HasKey(k) /\ hit # {} THEN at[Max(hit)].rank ELSE 0

-----------------------------------------------------------------------------
\* The writes

\* Faulty variant: may leave no level at all.
topLevel_None(s, forward) == Max({0} \cup {i \in 1..s.level : forward[i][Header] # Nil})

\* The highest level still in use.
topLevel(s, forward) == Max({1} \cup {i \in 1..s.level : forward[i][Header] # Nil})

\* Faulty variant: the spans that pass over x stay as they are.
spanWithout_On(s, i, x, u) ==
  IF s.forward[i][u] = x THEN [s.span[i] EXCEPT ![u] = @ + s.span[i][x] - 1, ![x] = 0] ELSE s.span[i]

\* The spans of level i without x, which u is or was before.
spanWithout(s, i, x, u) ==
  [s.span[i] EXCEPT ![u] = @ - 1 + (IF s.forward[i][u] = x THEN s.span[i][x] ELSE 0), ![x] = 0]

\* Faulty variant: the tail is left alone.
tailWithout_Kept(s, x) == s.tail

tailWithout(s, x) == IF s.forward[1][x] = Nil THEN s.backward[x] ELSE s.tail

\* The node x taken out; upd[i] is the node before it on level i.  A node out of the
\* list is collected: its fields are those of a fresh one.
unlinked(s, x, upd) ==
  LET forward == [i \in Levels |-> IF i <= s.level /\ s.forward[i][upd[i]] = x
                    THEN [s.forward[i] EXCEPT ![upd[i]] = s.forward[i][x], ![x] = Nil]
                    ELSE s.forward[i]]
  IN  [level    |-> topLevel(s, forward),
       length   |-> s.length - 1,
       tail     |-> tailWithout(s, x),
       key      |-> [s.key EXCEPT ![x] = 0],
       score    |-> [s.score EXCEPT ![x] = 0],
       backward |-> [n \in Nodes |-> IF n = x THEN Nil
                                     ELSE IF n = s.forward[1][x] THEN s.backward[x]
                                     ELSE s.backward[n]],
       forward  |-> forward,
       span     |-> [i \in Levels |-> IF i <= s.level THEN spanWithout(s, i, x, upd[i]) ELSE s.span[i]]]

deleted(s, k, sc) ==
  LET at  == descend(s, [n \in Elems |-> [r \in Int |-> before(s, n, k, sc)]])
      upd == [i \in 1..s.level |-> at[i].node]
      x   == s.forward[1][upd[1]]
  IN  IF x # Nil /\ entry(s, x) = [key |-> k, score |-> sc] THEN unlinked(s, x, upd) ELSE s

\* x, a fresh node of randomLevel levels, put in front of the first entry not before it.
inserted(s, x, k, sc, randomLevel) ==
  LET at      == descend(s, [n \in Elems |-> [r \in Int |-> before(s, n, k, sc)]])
      level   == Max({s.level, randomLevel})
      upd(i)  == IF i <= s.level THEN at[i].node ELSE Header
      rank(i) == IF i <= s.level THEN at[i].rank ELSE 0
      old(i)  == IF i <= s.level THEN s.span[i][upd(i)] ELSE s.length
      gap(i)  == rank(1) - rank(i)
      next    == s.forward[1][upd(1)]
  IN  [level    |-> level,
       length   |-> s.length + 1,
       tail     |-> IF next = Nil THEN x ELSE s.tail,
       key      |-> [s.key EXCEPT ![x] = k],
       score    |-> [s.score EXCEPT ![x] = sc],
       backward |-> [n \in Nodes |-> IF n = x THEN IF upd(1) = Header THEN Nil ELSE upd(1)
                                     ELSE IF n = next THEN x ELSE s.backward[n]],
       forward  |-> [i \in Levels |-> IF i <= randomLevel
                       THEN [s.forward[i] EXCEPT ![x] = s.forward[i][upd(i)], ![upd(i)] = x]
                       ELSE s.forward[i]],
       span     |-> [i \in Levels |->
                       IF i <= randomLevel
                       THEN [s.span[i] EXCEPT ![x] = old(i) - gap(i), ![upd(i)] = gap(i) + 1]
                       ELSE IF i <= level THEN [s.span[i] EXCEPT ![upd(i)] = @ + 1] ELSE s.span[i]]]

\* Whoever is between two sections of a read has seen a set that is no more.
disturbed == [p \in Procs |-> IF call[p].op \in {"GetRankDESC", "GetElementByRankDESC"}
                              THEN [call[p] EXCEPT !.quiet = FALSE] ELSE call[p]]

\* Faulty variant: the map keeps the key.
delSection_Kept(k) ==
  /\ sl' = IF HasKey(k) THEN deleted(sl, k, dict[k]) ELSE sl
  /\ dict' = dict

\* The lock section of Del; nothing happens to a key that is not in the set.
delSection(k) ==
  /\ sl' = IF HasKey(k) THEN deleted(sl, k, dict[k]) ELSE sl
  /\ dict' = [dict EXCEPT ![k] = NoScore]

Del(p, k) ==
  /\ call[p] = Idle
  /\ delSection(k)
  /\ call' = IF HasKey(k) THEN disturbed ELSE call
  /\ UNCHANGED raced

setsOf(k) == {p \in Procs : call[p].op = "Set" /\ call[p].key = k}

room == Len(ascending(sl)) + Cardinality({p \in Procs : call[p].op = "Set"}) < MaxNodes

\* Set, first section: Del.
SetDel(p, k) ==
  /\ call[p] = Idle
  /\ room
  /\ delSection(k)
  /\ call' = [(IF HasKey(k) THEN disturbed ELSE call)
                EXCEPT ![p] = [op |-> "Set", key |-> k]]
  /\ raced' = IF setsOf(k) # {} THEN raced \cup {k} ELSE raced
  /\ Cardinality(raced') <= MaxRaced

\* Set, second section: insert.
SetInsert(p, sc, randomLevel) ==
  LET c == call[p]
  IN  /\ c.op = "Set"
      /\ \E x \in Elems \ ToSet(ascending(sl)) :
           sl' = inserted(sl, x, c.key, sc, randomLevel)
      /\ dict' = [dict EXCEPT ![c.key] = sc]
      /\ call' = [disturbed EXCEPT ![p] = Idle]
      /\ UNCHANGED raced

\* The first sections of the descending reads: the rank of the key (an error ends
\* the call), the length.
GetRankDESC(p, k) ==
  /\ call[p] = Idle
  /\ HasKey(k)
  /\ call' = [call EXCEPT ![p] = [op |-> "GetRankDESC", key |-> k, got |-> GetRank(k), quiet |-> TRUE]]
  /\ UNCHANGED <<sl, dict, raced>>

GetElementByRankDESC(p) ==
  /\ call[p] = Idle
  /\ call' = [call EXCEPT ![p] = [op |-> "GetElementByRankDESC",
                                  got |-> GetLenth, quiet |-> TRUE]]
  /\ UNCHANGED <<sl, dict, raced>>

\* Faulty variant: ranks from 0.
descRank_Zero(c) == GetLenth - c.got

\* What they return, in the second section: with the length, with the element.
descRank(c)    == GetLenth - c.got + 1
descElement(c, rank) == GetElementByRankASC(c.got - rank + 1)

DescReturn(p) ==
  /\ call[p].op \in {"GetRankDESC", "GetElementByRankDESC"}
  /\ call' = [call EXCEPT ![p] = Idle]
  /\ UNCHANGED <<sl, dict, raced>>

Next ==
  \E p \in Procs :
    \/ \E k \in Keys : Del(p, k) \/ SetDel(p, k) \/ GetRankDESC(p, k)
    \/ \E sc \in Scores, i \in Levels : SetInsert(p, sc, i)
    \/ GetElementByRankDESC(p) \/ DescReturn(p)

Spec == Init /\ [][Next]_vars

-----------------------------------------------------------------------------
elements == GetTopN(MaxNodes)

Places(k) == {j \in DOMAIN elements : elements[j].key = k}

\* The linked list is the sorted sequence of what has been put in and not taken out,
\* whatever the levels the nodes were given and however sections of calls interleave.
Sorted == INSTANCE SortedContract WITH elems <- elements, of <- dict

IsSortedSet == Sorted!Spec

\* On every level the span of a link is the number of elements it passes (to the end of
\* the list where it is nil), and the length is that of the list: what insert and Del
\* compute from differences of ranks.
SpansMeasure ==
  LET q == <<Header>> \o ascending(sl)
      place(n) == IF n = Nil THEN Len(q) ELSE CHOOSE j \in DOMAIN q : q[j] = n
      linked(i) == {Header} \cup {n \in ToSet(q) : \E m \in ToSet(q) : sl.forward[i][m] = n}
  IN  /\ GetLenth = Len(q) - 1
      /\ \A i \in 1..GetLevel : \A n \in linked(i) :
           sl.span[i][n] = place(sl.forward[i][n]) - place(n)

\* Rank and element are inverse: ranks run from 1 to the length, GetElementByRankASC
\* finds the element of each rank through the levels, and GetRank finds the rank of
\* each key that the list has once (but the empty one, which is the header's key).
RanksAgree ==
  /\ \A j \in DOMAIN elements : GetElementByRankASC(j) = elements[j]
  /\ \A k \in Keys \ {0} :
       HasKey(k) /\ Cardinality(Places(k)) = 1 => Places(k) = {GetRank(k)}

\* GetTopNDESC lists what GetTopN lists, backwards.
BothWays == GetTopNDESC(MaxNodes) = Reverse(elements)

\* A descending read that nothing disturbed between its two sections mirrors the
\* ascending one.
DescMirrors ==
  \A p \in Procs :
    LET c == call[p]
        n == Len(elements)
    IN  /\ c.op = "GetRankDESC" /\ c.quiet /\ c.key # 0 /\ Cardinality(Places(c.key)) = 1 =>
             \E j \in 1..n : j = descRank(c) /\ GetTopNDESC(n)[j].key = c.key
        /\ c.op = "GetElementByRankDESC" /\ c.quiet =>
             \A rank \in 1..n : descElement(c, rank) = GetTopNDESC(n)[rank]

\* The list and the map have the same keys, each once with its score, as long as no two
\* Sets of the key have overlapped (they leave two elements of which Del finds one).
OnceUnlessRaced ==
  \A k \in Keys \ raced :
    IF HasKey(k)
    THEN \E j \in DOMAIN elements : Places(k) = {j} /\ elements[j].score = GetScore(k)
    ELSE Places(k) = {}
=============================================================================
