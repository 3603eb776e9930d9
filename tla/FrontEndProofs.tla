--------------------------- MODULE FrontEndProofs ---------------------------
(* Theorems about TableIndex and FrontEnd for every set of tables, accounts,
   handlers and requests, and for every bound.                                 *)
EXTENDS FrontEnd, WellFoundedInduction, SequenceTheorems, TLAPS

-----------------------------------------------------------------------------
(* The inductive invariant: of the index ...                                   *)

\* The known tables are those of which a block was worked in, and each of them has
\* its bucket, but where a crash came in between.
KnownWorkedIn ==
    /\ \A t \in Table : t \in known <=> Of(t) \cap WorkedIn # {}
    /\ \A t \in Table : bucket[t] # NoBucket => t \in known
    /\ \A t \in known : bucket[t] = NoBucket => t \in torn

\* The work at a table that is not crossed is at its last block.
LastPending ==
    \A w \in toDo : \A t \in Ahead(w) \ crossed :
        /\ w[1] = "table" => \A i \in Of(t) : i <= w[2]
        /\ w[1] = "data" => \A b \in Blocks(t) : b <= w[2]

\* The levels in memory are those of the blocks worked in: of all of them, or after a
\* start those of the newest at least.
LevelsWorkedIn ==
    \A t \in Table \ crossed : \A a \in Account :
        /\ perm[t][a] \in {Merged(t, WorkedIn)[a], 0}
        /\ restarts = 0 => perm[t][a] = Merged(t, WorkedIn)[a]
        /\ \A i \in Of(t) \cap WorkedIn :
              (\A j \in Of(t) \cap WorkedIn : j <= i) /\ tableChain[i].grants[a] # 0
                  => perm[t][a] = tableChain[i].grants[a]

\* Every block that touches a table is in its bucket or on its way there.
ListedOrPending ==
    \A t \in Table \ (torn \cup crossed) :
        /\ \A b \in Blocks(t) :
              \/ bucket[t] # NoBucket /\ b \in Listed(t)
              \/ \E w \in toDo : w[1] = "data" /\ w[2] = b /\ t \in Ahead(w)
        /\ bucket[t] # NoBucket =>
              /\ Listed(t) \subseteq Blocks(t)
              /\ \A i, j \in DOMAIN bucket[t] : i < j => bucket[t][i] < bucket[t][j]

\* Every level in memory was granted by one of the blocks worked in, in whatever order.
LevelsGranted ==
    \A t \in Table : \A a \in Account : perm[t][a] # 0 =>
        \E i \in Of(t) \cap WorkedIn : tableChain[i].grants[a] = perm[t][a]

IndexInv ==
    /\ TypeOK /\ KnownWorkedIn /\ LastPending /\ LevelsWorkedIn /\ LevelsGranted
    /\ ListedOrPending /\ EndExplained

(* ... and of the front end.                                                   *)

\* A handler is free or at a command of its request, past the start only of those
\* that take more than one step.
AtWork(h) ==
    /\ cmd[h] = 0 <=> job[h] = Free
    /\ step[h] = "write" => cmd[h] = 2
    /\ step[h] \in {"check", "submit"} => cmd[h] \in {4, 5, 6}
    /\ base[h] \subseteq DOMAIN tableChain
HandlersAtWork == \A h \in Handler : AtWork(h)

\* The handler that writes an account file is the only one, and the lock is its own.
OneWriter ==
    \A h \in Handler : step[h] = "write" =>
        /\ writing = {Who(h)} /\ file[Who(h)] = Broken
        /\ \A g \in Handler : step[g] = "write" => g = h

\* The permission of a on t was enough over the table blocks S.
MayTable(a, t, S) == Of(t) \cap S = {} \/ HadLevel(a, t, S, 4)

\* It was when it was looked up, and still is over the same blocks.
CheckedAt(h) ==
    step[h] = "submit" =>
        LET t == job[h].table
        IN /\ cmd[h] = 4 => MayTable(Who(h), t, base[h])
           /\ cmd[h] = 5 => HadLevel(Who(h), t, base[h], 3)
           /\ cmd[h] = 6 => t \in known
Checked == \A h \in Handler : CheckedAt(h)

\* And so for every transaction on its way and in the chains.
TableTxs == (submitted \cap TableTx) \cup {tableChain[i] : i \in DOMAIN tableChain}
DataTxs ==
    (submitted \cap DataTx) \cup
        UNION {{dataChain[b][i] : i \in DOMAIN dataChain[b]} : b \in DOMAIN dataChain}
TableTxOK(tx) == tx.seen \subseteq DOMAIN tableChain /\ MayTable(tx.by, tx.table, tx.seen)
DataTxOK(tx) == tx.seen \subseteq DOMAIN tableChain /\ HadLevel(tx.by, tx.table, tx.seen, 3)
Granted == (\A tx \in TableTxs : TableTxOK(tx)) /\ (\A tx \in DataTxs : DataTxOK(tx))

FrontInv == FrontTypeOK /\ HandlersAtWork /\ OneWriter /\ Checked /\ Granted
IInv == IndexInv /\ FrontInv

-----------------------------------------------------------------------------
(* Numbers, sequences and commands.                                            *)

\* A set of numbers that is not empty has a least member ...
LEMMA Least ==
  ASSUME NEW T \in SUBSET Nat, T # {} PROVE \E x \in T : \A y \in T : x <= y
<1> DEFINE R == {p \in Nat \X Nat : p[1] < p[2]}
<1>1. OpToRel(<, Nat) = R
  BY DEF OpToRel
<1>2. IsWellFoundedOn(R, Nat)
  BY <1>1, NatLessThanWellFounded
<1>3. \E x \in T : \A y \in T : ~ (<<y, x>> \in R)
  <2> HIDE DEF R
  <2> QED BY <1>2, WFMin
<1>4. \A x, y \in Nat : ~ (<<y, x>> \in R) => x <= y
  OBVIOUS
<1> QED BY <1>3, <1>4

\* ... so a set with 0 and with the successor of each of its members holds every number:
\* what stands for induction over the length of the chains and buckets.
LEMMA Induct ==
  ASSUME NEW T, 0 \in T, \A n \in Nat : n \in T => n + 1 \in T
  PROVE  Nat \subseteq T
<1> SUFFICES ASSUME Nat \ T # {} PROVE FALSE
  OBVIOUS
<1>1. PICK x \in Nat \ T : \A y \in Nat \ T : x <= y
  <2> DEFINE U == Nat \ T
  <2>1. U \in SUBSET Nat /\ U # {}
    OBVIOUS
  <2> HIDE DEF U
  <2>2. \E x \in U : \A y \in U : x <= y
    BY <2>1, Least
  <2> QED BY <2>2 DEF U
<1>2. x # 0 /\ x - 1 \in Nat /\ ~ (x <= x - 1) /\ (x - 1) + 1 = x
  BY <1>1
<1>3. x - 1 \in T
  BY <1>1, <1>2
<1> QED BY <1>1, <1>2, <1>3

\* A bounded set of numbers has a greatest member: the newest block of a table
\* (tableInfo.init goes back to it).
LEMMA Greatest ==
  ASSUME NEW n \in Nat, NEW T \in SUBSET (1 .. n), T # {} PROVE \E x \in T : \A y \in T : y <= x
<1> DEFINE U == {k \in Nat : \A y \in T : y <= k}
<1>1. n \in U
  OBVIOUS
<1>2. PICK m \in U : \A k \in U : m <= k
  <2>1. U \subseteq Nat /\ U # {}
    BY <1>1
  <2> QED BY <2>1, Least
<1>3. m \in T
  <2> SUFFICES ASSUME m \notin T PROVE FALSE
    OBVIOUS
  <2>1. \A y \in T : y \in Nat /\ y < m
    OBVIOUS
  <2>2. m \in Nat /\ m > 0
    <3>1. PICK y \in T : TRUE
      OBVIOUS
    <3> QED BY <2>1, <3>1
  <2>3. m - 1 \in U
    BY <2>1, <2>2
  <2> QED BY <2>3, <2>2, <1>2
<1> QED BY <1>3

\* A block is put at the end of its chain.
LEMMA Appended ==
  ASSUME NEW S, NEW s \in Seq(S), NEW e \in S
  PROVE  /\ Append(s, e) \in Seq(S) /\ Len(Append(s, e)) = Len(s) + 1
         /\ DOMAIN Append(s, e) = DOMAIN s \cup {Len(s) + 1} /\ Len(s) + 1 \notin DOMAIN s
         /\ DOMAIN s = 1 .. Len(s) /\ Len(s) \in Nat
         /\ \A i \in DOMAIN s : Append(s, e)[i] = s[i]
         /\ Append(s, e)[Len(s) + 1] = e
<1>1. DOMAIN s = 1 .. Len(s) /\ Len(s) \in Nat
  BY LenProperties
<1>2. /\ Append(s, e) \in Seq(S) /\ Len(Append(s, e)) = Len(s) + 1
      /\ \A i \in 1 .. Len(s) : Append(s, e)[i] = s[i]
      /\ Append(s, e)[Len(s) + 1] = e
  BY AppendProperties
<1>3. DOMAIN Append(s, e) = 1 .. Len(s) + 1
  BY <1>2, LenProperties
<1> QED BY <1>1, <1>2, <1>3

\* Cmd goes forward, and ends behind the last command.
LEMMA AfterType ==
  ASSUME NEW r, NEW i \in 0 .. 6
  PROVE  After(r, i) \in 1 .. 7
<1> DEFINE rest == {j \in i + 1 .. Len(Commands) : Commands[j] \in r.commands}
<1>1. Len(Commands) = 6
  BY DEF Commands
<1>2. CASE rest = {}
  BY <1>1, <1>2 DEF After
<1>3. CASE rest # {}
  <2>1. rest \subseteq 1 .. 6
    BY <1>1
  <2>2. \E j \in rest : \A l \in rest : j <= l
    <3>1. rest \in SUBSET Nat
      BY <2>1
    <3> HIDE DEF rest
    <3> QED BY <3>1, <1>3, Least
  <2>3. After(r, i) \in rest
    BY <2>2, <1>3 DEF After
  <2> QED BY <2>1, <2>3
<1> QED BY <1>2, <1>3

-----------------------------------------------------------------------------
(* What the readers of a bucket make of it.                                    *)

\* The walk over a block (Matching) and over blocks (Collected), one step at a time.
FoundAt(g, txs, ids, i) ==
    IF i = 0 THEN <<>>
    ELSE IF <<txs[i].table, txs[i].key>> \in ids THEN Append(g[i - 1], txs[i]) ELSE g[i - 1]
BackAt(g, rows, i) == IF i = 0 THEN <<>> ELSE rows[i] \o g[i - 1]

FoundTo(g, txs, ids, n) == g = [i \in 0 .. n |-> FoundAt(g, txs, ids, i)]

\* Such functions exist: Matching and Collected choose them.
LEMMA FoundExists ==
  ASSUME NEW txs, NEW ids, NEW n \in Nat PROVE \E g : FoundTo(g, txs, ids, n)
<1> DEFINE T == {m \in Nat : \E g : g = [i \in 0 .. m |-> FoundAt(g, txs, ids, i)]}
<1>1. 0 \in T
  <2> DEFINE g == [i \in 0 .. 0 |-> <<>>]
  <2>1. g = [i \in 0 .. 0 |-> FoundAt(g, txs, ids, i)]
    BY DEF FoundAt
  <2> QED BY <2>1
<1>2. ASSUME NEW m \in Nat, m \in T PROVE m + 1 \in T
  <2>1. PICK g : g = [i \in 0 .. m |-> FoundAt(g, txs, ids, i)]
    BY <1>2
  <2> DEFINE h == [i \in 0 .. m + 1 |-> IF i = m + 1 THEN FoundAt(g, txs, ids, m + 1) ELSE g[i]]
  <2>2. ASSUME NEW i \in 0 .. m + 1 PROVE h[i] = FoundAt(h, txs, ids, i)
    <3>1. CASE i = 0
      BY <2>1, <3>1 DEF FoundAt
    <3>2. CASE i \in 1 .. m
      <4>1. h[i] = g[i] /\ h[i - 1] = g[i - 1] /\ i # 0
        BY <3>2
      <4>2. g[i] = FoundAt(g, txs, ids, i)
        BY <2>1, <3>2
      <4> HIDE DEF h
      <4> QED BY <4>1, <4>2 DEF FoundAt
    <3>3. CASE i = m + 1
      <4>1. h[i] = FoundAt(g, txs, ids, i) /\ h[i - 1] = g[i - 1] /\ i # 0
        BY <3>3
      <4> HIDE DEF h
      <4> QED BY <4>1 DEF FoundAt
    <3> QED BY <3>1, <3>2, <3>3
  <2>3. h = [i \in 0 .. m + 1 |-> h[i]]
    OBVIOUS
  <2>4. h = [i \in 0 .. m + 1 |-> FoundAt(h, txs, ids, i)]
    <3> HIDE DEF h
    <3> QED BY <2>2, <2>3
  <2>5. \E f : f = [i \in 0 .. m + 1 |-> FoundAt(f, txs, ids, i)]
    <3> HIDE DEF h
    <3> QED BY <2>4
  <2> QED BY <2>5
<1>3. Nat \subseteq T
  <2> HIDE DEF T
  <2> QED BY <1>1, <1>2, Induct
<1> QED BY <1>3 DEF FoundTo

LEMMA BackExists ==
  ASSUME NEW rows, NEW n \in Nat PROVE \E g : g = [i \in 0 .. n |-> BackAt(g, rows, i)]
<1> DEFINE T == {m \in Nat : \E g : g = [i \in 0 .. m |-> BackAt(g, rows, i)]}
<1>1. 0 \in T
  <2> DEFINE g == [i \in 0 .. 0 |-> <<>>]
  <2>1. g = [i \in 0 .. 0 |-> BackAt(g, rows, i)]
    BY DEF BackAt
  <2> QED BY <2>1
<1>2. ASSUME NEW m \in Nat, m \in T PROVE m + 1 \in T
  <2>1. PICK g : g = [i \in 0 .. m |-> BackAt(g, rows, i)]
    BY <1>2
  <2> DEFINE h == [i \in 0 .. m + 1 |-> IF i = m + 1 THEN BackAt(g, rows, m + 1) ELSE g[i]]
  <2>2. ASSUME NEW i \in 0 .. m + 1 PROVE h[i] = BackAt(h, rows, i)
    <3>1. CASE i = 0
      BY <2>1, <3>1 DEF BackAt
    <3>2. CASE i \in 1 .. m
      <4>1. h[i] = g[i] /\ h[i - 1] = g[i - 1] /\ i # 0
        BY <3>2
      <4>2. g[i] = BackAt(g, rows, i)
        BY <2>1, <3>2
      <4> HIDE DEF h
      <4> QED BY <4>1, <4>2 DEF BackAt
    <3>3. CASE i = m + 1
      <4>1. h[i] = BackAt(g, rows, i) /\ h[i - 1] = g[i - 1] /\ i # 0
        BY <3>3
      <4> HIDE DEF h
      <4> QED BY <4>1 DEF BackAt
    <3> QED BY <3>1, <3>2, <3>3
  <2>3. h = [i \in 0 .. m + 1 |-> h[i]]
    OBVIOUS
  <2>4. h = [i \in 0 .. m + 1 |-> BackAt(h, rows, i)]
    <3> HIDE DEF h
    <3> QED BY <2>2, <2>3
  <2>5. \E f : f = [i \in 0 .. m + 1 |-> BackAt(f, rows, i)]
    <3> HIDE DEF h
    <3> QED BY <2>4
  <2> QED BY <2>5
<1>3. Nat \subseteq T
  <2> HIDE DEF T
  <2> QED BY <1>1, <1>2, Induct
<1> QED BY <1>3

\* Hence both are what their definitions say.
LEMMA MatchingIs ==
  ASSUME NEW S, NEW txs \in Seq(S), NEW ids
  PROVE  \E g : g = [i \in 0 .. Len(txs) |-> FoundAt(g, txs, ids, i)] /\ Matching(txs, ids) = g[Len(txs)]
<1> DEFINE G == CHOOSE g : g = [i \in 0 .. Len(txs) |-> FoundAt(g, txs, ids, i)]
<1>1. \E g : g = [i \in 0 .. Len(txs) |-> FoundAt(g, txs, ids, i)]
  <2> HIDE DEF G
  <2>1. PICK n \in Nat : n = Len(txs)
    BY LenProperties
  <2>2. \E g : FoundTo(g, txs, ids, Len(txs))
    BY <2>1, FoundExists
  <2> QED BY <2>2 DEF FoundTo
<1>2. G = [i \in 0 .. Len(txs) |-> FoundAt(G, txs, ids, i)]
  BY <1>1
<1>3. Matching(txs, ids) = G[Len(txs)]
  BY DEF Matching, FoundAt
<1> QED BY <1>2, <1>3

LEMMA CollectedIs ==
  ASSUME NEW S, NEW rows \in Seq(S)
  PROVE  \E g : g = [i \in 0 .. Len(rows) |-> BackAt(g, rows, i)] /\ Collected(rows) = g[Len(rows)]
<1> DEFINE G == CHOOSE g : g = [i \in 0 .. Len(rows) |-> BackAt(g, rows, i)]
<1>1. \E g : g = [i \in 0 .. Len(rows) |-> BackAt(g, rows, i)]
  <2> HIDE DEF G
  <2>1. PICK n \in Nat : n = Len(rows)
    BY LenProperties
  <2>2. \E g : g = [i \in 0 .. n |-> BackAt(g, rows, i)]
    BY BackExists
  <2> QED BY <2>1, <2>2
<1>2. G = [i \in 0 .. Len(rows) |-> BackAt(G, rows, i)]
  BY <1>1
<1>3. Collected(rows) = G[Len(rows)]
  BY DEF Collected, BackAt
<1> QED BY <1>2, <1>3

\* What is found in a block are transactions of it, and none only if none has the id.
HasId(txs, ids) == \E i \in 1 .. Len(txs) : <<txs[i].table, txs[i].key>> \in ids

LEMMA MatchingFinds ==
  ASSUME NEW S, NEW txs \in Seq(S), NEW ids
  PROVE  Matching(txs, ids) \in Seq(S) /\ (Matching(txs, ids) # <<>> <=> HasId(txs, ids))
<1>1. PICK g : g = [i \in 0 .. Len(txs) |-> FoundAt(g, txs, ids, i)] /\ Matching(txs, ids) = g[Len(txs)]
  BY MatchingIs
<1>2. PICK n \in Nat : n = Len(txs) /\ \A i \in 1 .. n : txs[i] \in S
  <2>1. Len(txs) \in Nat /\ \A i \in 1 .. Len(txs) : txs[i] \in S
    BY LenProperties, ElementOfSeq
  <2> QED BY <2>1
<1> DEFINE Hits(m) == \E i \in 1 .. m : <<txs[i].table, txs[i].key>> \in ids
           T == {m \in Nat : m <= n => g[m] \in Seq(S) /\ (g[m] # <<>> <=> Hits(m))}
<1>3. 0 \in T
  <2>1. g[0] = <<>>
    BY <1>1, <1>2 DEF FoundAt
  <2>2. ~ Hits(0) /\ <<>> \in Seq(S)
    BY EmptySeq
  <2> HIDE DEF Hits
  <2> QED BY <2>1, <2>2
<1>4. ASSUME NEW m \in Nat, m \in T PROVE m + 1 \in T
  <2> SUFFICES ASSUME m + 1 <= n PROVE g[m + 1] \in Seq(S) /\ (g[m + 1] # <<>> <=> Hits(m + 1))
    OBVIOUS
  <2>1. m + 1 \in 0 .. n /\ m + 1 \in 1 .. n /\ m + 1 # 0 /\ (m + 1) - 1 = m /\ m <= n
    BY <1>2
  <2>2. g[m + 1] = FoundAt(g, txs, ids, m + 1)
    BY <1>1, <1>2, <2>1
  <2>3. g[m] \in Seq(S) /\ (g[m] # <<>> <=> Hits(m))
    BY <1>4, <2>1
  <2>4. Hits(m + 1) <=> Hits(m) \/ <<txs[m + 1].table, txs[m + 1].key>> \in ids
    <3>1. \A i \in 1 .. m + 1 : i \in 1 .. m \/ i = m + 1
      OBVIOUS
    <3>2. \A i \in 1 .. m : i \in 1 .. m + 1
      OBVIOUS
    <3> QED BY <2>1, <3>1, <3>2
  <2> HIDE DEF Hits
  <2>5. CASE <<txs[m + 1].table, txs[m + 1].key>> \in ids
    <3>1. g[m + 1] = Append(g[m], txs[m + 1]) /\ txs[m + 1] \in S
      BY <1>2, <2>1, <2>2, <2>5 DEF FoundAt
    <3>2. g[m + 1] \in Seq(S) /\ g[m + 1] # <<>>
      BY <2>3, <3>1, AppendProperties
    <3> QED BY <2>4, <2>5, <3>2
  <2>6. CASE <<txs[m + 1].table, txs[m + 1].key>> \notin ids
    <3>1. g[m + 1] = g[m]
      BY <2>1, <2>2, <2>6 DEF FoundAt
    <3> QED BY <2>3, <2>4, <2>6, <3>1
  <2> QED BY <2>5, <2>6
<1>5. Nat \subseteq T
  <2> HIDE DEF T
  <2> QED BY <1>3, <1>4, Induct
<1>6. n \in T /\ n <= n
  BY <1>5
<1> HIDE DEF Hits
<1>7. g[n] \in Seq(S) /\ (g[n] # <<>> <=> Hits(n))
  BY <1>6
<1> QED BY <1>1, <1>2, <1>7 DEF HasId, Hits

\* Only the ids that occur matter.
LEMMA MatchingSame ==
  ASSUME NEW S, NEW txs \in Seq(S), NEW ids, NEW all,
         \A i \in 1 .. Len(txs) : <<txs[i].table, txs[i].key>> \in ids <=> <<txs[i].table, txs[i].key>> \in all
  PROVE  Matching(txs, ids) = Matching(txs, all)
<1>1. PICK g : g = [i \in 0 .. Len(txs) |-> FoundAt(g, txs, ids, i)] /\ Matching(txs, ids) = g[Len(txs)]
  BY MatchingIs
<1>2. PICK h : h = [i \in 0 .. Len(txs) |-> FoundAt(h, txs, all, i)] /\ Matching(txs, all) = h[Len(txs)]
  BY MatchingIs
<1>3. PICK n \in Nat : n = Len(txs)
  BY LenProperties
<1> DEFINE T == {m \in Nat : m <= n => g[m] = h[m]}
<1>4. 0 \in T
  BY <1>1, <1>2, <1>3 DEF FoundAt
<1>5. ASSUME NEW m \in Nat, m \in T PROVE m + 1 \in T
  <2> SUFFICES ASSUME m + 1 <= n PROVE g[m + 1] = h[m + 1]
    OBVIOUS
  <2>1. m + 1 \in 0 .. n /\ m + 1 \in 1 .. n /\ m + 1 # 0 /\ (m + 1) - 1 = m /\ m <= n
    BY <1>3
  <2>2. g[m + 1] = FoundAt(g, txs, ids, m + 1) /\ h[m + 1] = FoundAt(h, txs, all, m + 1) /\ g[m] = h[m]
    BY <1>1, <1>2, <1>3, <1>5, <2>1
  <2> QED BY <1>3, <2>1, <2>2 DEF FoundAt
<1>6. Nat \subseteq T
  <2> HIDE DEF T
  <2> QED BY <1>4, <1>5, Induct
<1>7. n \in T /\ n <= n
  BY <1>6
<1> QED BY <1>1, <1>2, <1>3, <1>7

\* The walk collects everything, and nothing only if there is nothing.
LEMMA CollectedAll ==
  ASSUME NEW S, NEW rows \in Seq(Seq(S))
  PROVE  /\ Collected(rows) \in Seq(S)
         /\ Collected(rows) = <<>> <=> \A i \in 1 .. Len(rows) : rows[i] = <<>>
<1>1. PICK g : g = [i \in 0 .. Len(rows) |-> BackAt(g, rows, i)] /\ Collected(rows) = g[Len(rows)]
  BY CollectedIs
<1>2. PICK n \in Nat : n = Len(rows) /\ \A i \in 1 .. n : rows[i] \in Seq(S)
  <2>1. Len(rows) \in Nat /\ \A i \in 1 .. Len(rows) : rows[i] \in Seq(S)
    BY LenProperties, ElementOfSeq
  <2> QED BY <2>1
<1> DEFINE Empty(m) == \A i \in 1 .. m : rows[i] = <<>>
           T == {m \in Nat : m <= n => g[m] \in Seq(S) /\ (g[m] = <<>> <=> Empty(m))}
<1>3. 0 \in T
  <2>1. g[0] = <<>>
    BY <1>1, <1>2 DEF BackAt
  <2>2. Empty(0) /\ <<>> \in Seq(S)
    BY EmptySeq
  <2> HIDE DEF Empty
  <2> QED BY <2>1, <2>2
<1>4. ASSUME NEW m \in Nat, m \in T PROVE m + 1 \in T
  <2> SUFFICES ASSUME m + 1 <= n PROVE g[m + 1] \in Seq(S) /\ (g[m + 1] = <<>> <=> Empty(m + 1))
    OBVIOUS
  <2>1. m + 1 \in 0 .. n /\ m + 1 \in 1 .. n /\ m + 1 # 0 /\ (m + 1) - 1 = m /\ m <= n
    BY <1>2
  <2>2. g[m + 1] = rows[m + 1] \o g[m]
    <3>1. g[m + 1] = BackAt(g, rows, m + 1)
      BY <1>1, <1>2, <2>1
    <3> QED BY <2>1, <3>1 DEF BackAt
  <2>3. g[m] \in Seq(S) /\ (g[m] = <<>> <=> Empty(m)) /\ rows[m + 1] \in Seq(S)
    BY <1>2, <1>4, <2>1
  <2>4. Empty(m + 1) <=> Empty(m) /\ rows[m + 1] = <<>>
    <3>1. \A i \in 1 .. m + 1 : i \in 1 .. m \/ i = m + 1
      OBVIOUS
    <3>2. \A i \in 1 .. m : i \in 1 .. m + 1
      OBVIOUS
    <3> QED BY <2>1, <3>1, <3>2
  <2> HIDE DEF Empty
  <2>5. /\ g[m + 1] \in Seq(S)
        /\ g[m + 1] = <<>> <=> rows[m + 1] = <<>> /\ g[m] = <<>>
    <3> DEFINE a == rows[m + 1]
               b == g[m]
    <3> HIDE DEF a, b
    <3>1. a \in Seq(S) /\ b \in Seq(S)
      BY <2>3 DEF a, b
    <3>2. a \o b \in Seq(S) /\ (a \o b = <<>> <=> a = <<>> /\ b = <<>>)
      <4>1. a \o b \in Seq(S) /\ Len(a \o b) = Len(a) + Len(b)
        BY <3>1, ConcatProperties
      <4>2. \A x \in Seq(S) : Len(x) \in Nat /\ (x = <<>> <=> Len(x) = 0)
        BY LenProperties, EmptySeq
      <4>3. Len(a) \in Nat /\ Len(b) \in Nat /\ (Len(a) + Len(b) = 0 <=> Len(a) = 0 /\ Len(b) = 0)
        BY <3>1, <4>2
      <4> QED BY <3>1, <4>1, <4>2, <4>3
    <3> QED BY <2>2, <3>2 DEF a, b
  <2> QED BY <2>3, <2>4, <2>5
<1>5. Nat \subseteq T
  <2> HIDE DEF T
  <2> QED BY <1>3, <1>4, Induct
<1>6. n \in T /\ n <= n
  BY <1>5
<1> HIDE DEF Empty
<1>7. g[n] \in Seq(S) /\ (g[n] = <<>> <=> Empty(n))
  BY <1>6
<1> QED BY <1>1, <1>2, <1>7 DEF Empty

\* What is missing from a list of blocks does not show if there is nothing in it: the
\* walk along a bucket and the one along the whole chain collect the same.
LEMMA CollectedSame ==
  ASSUME NEW S, NEW rows \in Seq(Seq(S)), NEW q \in Seq(DOMAIN rows),
         \A x, y \in 1 .. Len(q) : x < y => q[x] < q[y],
         \A j \in 1 .. Len(rows) : (\A x \in 1 .. Len(q) : q[x] # j) => rows[j] = <<>>
  PROVE  Collected([x \in DOMAIN q |-> rows[q[x]]]) = Collected(rows)
<1> DEFINE part == [x \in DOMAIN q |-> rows[q[x]]]
<1>1. PICK n \in Nat : n = Len(rows) /\ DOMAIN rows = 1 .. n /\ \A i \in 1 .. n : rows[i] \in Seq(S)
  <2>1. Len(rows) \in Nat /\ DOMAIN rows = 1 .. Len(rows) /\ \A i \in 1 .. Len(rows) : rows[i] \in Seq(S)
    BY LenProperties, ElementOfSeq
  <2> QED BY <2>1
<1>2. PICK m \in Nat : m = Len(q) /\ DOMAIN q = 1 .. m /\ \A x \in 1 .. m : q[x] \in 1 .. n
  <2>1. Len(q) \in Nat /\ DOMAIN q = 1 .. Len(q) /\ \A x \in 1 .. Len(q) : q[x] \in DOMAIN rows
    BY LenProperties, ElementOfSeq
  <2> QED BY <1>1, <2>1
<1>3. /\ part \in Seq(Seq(S)) /\ Len(part) = m
      /\ \A x \in 1 .. m : part[x] = rows[q[x]]
  <2>1. part \in [1 .. m -> Seq(S)] /\ \A x \in 1 .. m : part[x] = rows[q[x]]
    BY <1>1, <1>2
  <2> HIDE DEF part
  <2>2. part \in Seq(Seq(S)) /\ DOMAIN part = 1 .. m
    BY <2>1, SeqDef
  <2>3. Len(part) = m
    <3>1. Len(part) \in Nat /\ 1 .. Len(part) = 1 .. m
      BY <2>2, LenProperties
    <3> QED BY <3>1
  <2> QED BY <2>1, <2>2, <2>3
<1> HIDE DEF part
<1>4. PICK g : g = [i \in 0 .. m |-> BackAt(g, part, i)] /\ Collected(part) = g[m]
  BY <1>3, CollectedIs
<1>5. PICK h : h = [i \in 0 .. n |-> BackAt(h, rows, i)] /\ Collected(rows) = h[n]
  BY <1>1, CollectedIs
<1> DEFINE UpTo(j, i) == \A x \in 1 .. m : q[x] <= j <=> x <= i
           T == {j \in Nat : j <= n => h[j] \in Seq(S) /\ \A i \in 0 .. m : UpTo(j, i) => h[j] = g[i]}
<1>6. 0 \in T
  <2>1. h[0] = <<>> /\ g[0] = <<>>
    BY <1>4, <1>5 DEF BackAt
  <2>2. ASSUME NEW i \in 0 .. m, UpTo(0, i) PROVE i = 0
    <3> SUFFICES ASSUME i # 0 PROVE FALSE
      OBVIOUS
    <3>1. i \in 1 .. m
      OBVIOUS
    <3>2. q[i] <= 0 /\ q[i] \in 1 .. n
      BY <1>2, <2>2, <3>1
    <3> QED BY <3>2
  <2>3. <<>> \in Seq(S)
    BY EmptySeq
  <2> HIDE DEF UpTo
  <2> QED BY <2>1, <2>2, <2>3
<1>7. ASSUME NEW j \in Nat, j \in T PROVE j + 1 \in T
  <2>a. SUFFICES ASSUME j + 1 <= n
                 PROVE  h[j + 1] \in Seq(S) /\ \A i \in 0 .. m : UpTo(j + 1, i) => h[j + 1] = g[i]
    <3> HIDE DEF UpTo
    <3> QED OBVIOUS
  <2>1. j + 1 \in 0 .. n /\ j + 1 \in 1 .. n /\ j + 1 # 0 /\ (j + 1) - 1 = j /\ j <= n
    BY <1>1, <2>a
  <2>2. h[j] \in Seq(S) /\ rows[j + 1] \in Seq(S) /\ \A i \in 0 .. m : UpTo(j, i) => h[j] = g[i]
    BY <1>1, <1>7, <2>1
  <2>3. h[j + 1] = rows[j + 1] \o h[j]
    <3>1. h[j + 1] = BackAt(h, rows, j + 1)
      BY <1>5, <2>1
    <3> QED BY <2>1, <3>1 DEF BackAt
  <2>4. h[j + 1] \in Seq(S)
    BY <2>2, <2>3, ConcatProperties
  <2>5. ASSUME NEW i \in 0 .. m, UpTo(j + 1, i) PROVE h[j + 1] = g[i]
    <3>1. CASE \E x \in 1 .. m : q[x] = j + 1
      <4>1. PICK x \in 1 .. m : q[x] = j + 1
        BY <3>1
      <4>2. x <= i
        BY <2>5, <4>1
      <4>3. i \in 1 .. m
        BY <4>2
      <4>4. x = i
        <5> SUFFICES ASSUME x < i PROVE FALSE
          BY <4>2
        <5>1. q[x] < q[i] /\ q[i] <= j + 1 /\ q[i] \in 1 .. n
          BY <1>2, <2>5, <4>3
        <5> QED BY <4>1, <5>1
      <4>5. i - 1 \in 0 .. m /\ i \in 0 .. m /\ i # 0
        BY <4>3
      <4>6. UpTo(j, i - 1)
        <5> SUFFICES ASSUME NEW y \in 1 .. m PROVE q[y] <= j <=> y <= i - 1
          OBVIOUS
        <5>1. q[y] \in 1 .. n /\ (q[y] <= j + 1 <=> y <= i)
          BY <1>2, <2>5
        <5>2. y < i => q[y] < j + 1
          BY <1>2, <4>1, <4>3, <4>4
        <5>3. y = i => q[y] = j + 1
          BY <4>1, <4>4
        <5> QED BY <5>1, <5>2, <5>3
      <4> HIDE DEF UpTo
      <4>7. h[j] = g[i - 1]
        BY <2>2, <4>5, <4>6
      <4>8. g[i] = part[i] \o g[i - 1] /\ part[i] = rows[j + 1]
        <5>1. g[i] = BackAt(g, part, i)
          BY <1>4, <4>5
        <5>2. part[i] = rows[j + 1]
          BY <1>3, <4>1, <4>3, <4>4
        <5> QED BY <4>5, <5>1, <5>2 DEF BackAt
      <4> QED BY <2>3, <4>7, <4>8
    <3>2. CASE \A x \in 1 .. m : q[x] # j + 1
      <4>1. rows[j + 1] = <<>>
        BY <1>1, <1>2, <2>1, <3>2
      <4>2. UpTo(j, i)
        <5> SUFFICES ASSUME NEW y \in 1 .. m PROVE q[y] <= j <=> y <= i
          OBVIOUS
        <5>1. q[y] \in 1 .. n /\ (q[y] <= j + 1 <=> y <= i) /\ q[y] # j + 1
          BY <1>2, <2>5, <3>2
        <5> QED BY <5>1
      <4> HIDE DEF UpTo
      <4>3. h[j] = g[i]
        BY <2>2, <4>2
      <4>4. h[j + 1] = h[j]
        BY <2>2, <2>3, <4>1, ConcatEmptySeq
      <4> QED BY <4>3, <4>4
    <3> QED BY <3>1, <3>2
  <2> HIDE DEF UpTo
  <2> QED BY <2>4, <2>5
<1>8. Nat \subseteq T
  <2> HIDE DEF T
  <2> QED BY <1>6, <1>7, Induct
<1>9. UpTo(n, m)
  BY <1>2
<1> HIDE DEF UpTo
<1>10. n \in T /\ n <= n /\ m \in 0 .. m
  <2>1. n \in T
    <3> HIDE DEF T
    <3> QED BY <1>8
  <2> HIDE DEF T
  <2> QED BY <2>1
<1>11. h[n] = g[m]
  BY <1>9, <1>10
<1> QED BY <1>4, <1>5, <1>11 DEF part

-----------------------------------------------------------------------------
\* The rows of a key in a block are transactions, and some only if the block has one
\* of that table and key.
LEMMA RowsFound ==
  ASSUME TypeOK, NEW t, NEW k, NEW b \in DOMAIN dataChain
  PROVE  /\ RowsOf(b, t, k) \in Seq(DataTx)
         /\ RowsOf(b, t, k) # <<>> <=>
              \E i \in DOMAIN dataChain[b] : dataChain[b][i].table = t /\ dataChain[b][i].key = k
<1>1. dataChain[b] \in Seq(DataTx) /\ DOMAIN dataChain[b] = 1 .. Len(dataChain[b])
  <2>1. dataChain \in Seq(Seq(DataTx))
    BY DEF TypeOK
  <2>2. DOMAIN dataChain = 1 .. Len(dataChain)
    BY <2>1, LenProperties
  <2>3. dataChain[b] \in Seq(DataTx)
    BY <2>1, <2>2, ElementOfSeq
  <2> QED BY <2>3, LenProperties
<1>2. /\ RowsOf(b, t, k) \in Seq(DataTx)
      /\ RowsOf(b, t, k) # <<>> <=> HasId(dataChain[b], {<<t, k>>})
  BY <1>1, MatchingFinds DEF RowsOf
<1> QED BY <1>1, <1>2 DEF HasId

\* Of the whole chain they are a list for each block.
LEMMA RowsTyped ==
  ASSUME TypeOK, NEW t, NEW k
  PROVE  /\ [b \in DOMAIN dataChain |-> RowsOf(b, t, k)] \in Seq(Seq(DataTx))
         /\ DOMAIN [b \in DOMAIN dataChain |-> RowsOf(b, t, k)] = DOMAIN dataChain
<1>1. PICK n \in Nat : DOMAIN dataChain = 1 .. n
  <2>1. dataChain \in Seq(Seq(DataTx))
    BY DEF TypeOK
  <2> QED BY <2>1, LenProperties
<1> DEFINE rows == [b \in 1 .. n |-> RowsOf(b, t, k)]
<1>3. rows \in [1 .. n -> Seq(DataTx)]
  BY <1>1, RowsFound
<1>4. rows \in Seq(Seq(DataTx)) /\ DOMAIN rows = 1 .. n
  <2> HIDE DEF rows
  <2> QED BY <1>3, SeqDef
<1> QED BY <1>1, <1>4

\* So the walk along a bucket with all blocks of the table, in order, is the walk
\* along the chain.
LEMMA HistoryIs ==
  ASSUME TypeOK, NEW t \in Table, NEW k, bucket[t] # NoBucket, Listed(t) = Blocks(t),
         \A i, j \in DOMAIN bucket[t] : i < j => bucket[t][i] < bucket[t][j]
  PROVE  getHistory(t, k) = ChainOf(t, k)
<1> DEFINE rows == [b \in DOMAIN dataChain |-> RowsOf(b, t, k)]
           q == bucket[t]
<1>1. rows \in Seq(Seq(DataTx)) /\ DOMAIN rows = DOMAIN dataChain /\ q \in Seq(DOMAIN rows)
  BY RowsTyped DEF TypeOK
<1>2. Len(rows) \in Nat /\ DOMAIN rows = 1 .. Len(rows) /\ Len(q) \in Nat /\ DOMAIN q = 1 .. Len(q)
  BY <1>1, LenProperties
<1>3. \A x \in DOMAIN q : q[x] \in DOMAIN dataChain
  BY <1>1, <1>2, ElementOfSeq
<1>4. ASSUME NEW j \in 1 .. Len(rows), \A x \in 1 .. Len(q) : q[x] # j PROVE rows[j] = <<>>
  <2>1. j \in DOMAIN dataChain /\ j \notin Blocks(t)
    BY <1>1, <1>2, <1>4 DEF Listed
  <2>2. RowsOf(j, t, k) # <<>> => \E i \in DOMAIN dataChain[j] : dataChain[j][i].table = t
    <3>1. RowsOf(j, t, k) # <<>> => \E i \in DOMAIN dataChain[j] : dataChain[j][i].table = t /\ dataChain[j][i].key = k
      BY <2>1, RowsFound
    <3> QED BY <3>1
  <2> QED BY <2>1, <2>2 DEF Blocks
<1>5. \A x, y \in 1 .. Len(q) : x < y => q[x] < q[y]
  BY <1>2
<1>6. [x \in DOMAIN q |-> rows[q[x]]] = [x \in DOMAIN q |-> RowsOf(q[x], t, k)]
  BY <1>3
<1>7. Collected([x \in DOMAIN q |-> rows[q[x]]]) = Collected(rows)
  <2> HIDE DEF rows, q
  <2> QED BY <1>1, <1>4, <1>5, CollectedSame
<1> QED BY <1>6, <1>7 DEF getHistory, ChainOf

\* Of the rows of a key one has the latest stamp, and is the first with it.
LEMMA FirstKept ==
  ASSUME NEW all \in Seq(DataTx), all # <<>>
  PROVE  \E i \in DOMAIN all : Kept(all, i) /\ \A j \in DOMAIN all : Kept(all, j) => j = i
<1>1. PICK n \in Nat : DOMAIN all = 1 .. n /\ n >= 1
  BY LenProperties, EmptySeq
<1>2. PICK g : g = [i \in 1 .. n |-> all[i].stamp]
  OBVIOUS
<1>3. \A i \in 1 .. n : g[i] \in Nat /\ all[i].stamp = g[i]
  <2>1. \A i \in 1 .. n : all[i] \in DataTx
    BY <1>1, LenProperties, ElementOfSeq
  <2> QED BY <1>2, <2>1, IndexAssumption DEF DataTx
<1> DEFINE First(i, m) == \A j \in 1 .. m : g[j] <= g[i] /\ (j < i => g[j] < g[i])
           T == {m \in Nat : m + 1 <= n => \E i \in 1 .. m + 1 : First(i, m + 1)}
<1>4. 0 \in T
  <2>1. First(1, 1)
    BY <1>1, <1>3
  <2> QED BY <2>1
<1>5. ASSUME NEW m \in Nat, m \in T PROVE m + 1 \in T
  <2> SUFFICES ASSUME m + 2 <= n PROVE \E i \in 1 .. m + 2 : First(i, m + 2)
    OBVIOUS
  <2>1. PICK i \in 1 .. m + 1 : First(i, m + 1)
    BY <1>1, <1>5
  <2>2. \A j \in 1 .. m + 2 : j \in 1 .. n /\ (j \in 1 .. m + 1 \/ j = m + 2)
    BY <1>1
  <2>3. CASE g[m + 2] <= g[i]
    <3>1. First(i, m + 2)
      BY <1>3, <2>1, <2>2, <2>3
    <3> QED BY <3>1
  <2>4. CASE ~ (g[m + 2] <= g[i])
    <3>1. First(m + 2, m + 2)
      BY <1>3, <2>1, <2>2, <2>4
    <3> QED BY <3>1
  <2> QED BY <2>3, <2>4
<1>6. Nat \subseteq T
  <2> HIDE DEF T
  <2> QED BY <1>4, <1>5, Induct
<1>7. PICK i \in 1 .. n : First(i, n)
  <2>1. PICK m \in Nat : m + 1 = n
    BY <1>1
  <2>2. m \in T
    <3> HIDE DEF T
    <3> QED BY <1>6
  <2> QED BY <2>1, <2>2
<1>8. Kept(all, i)
  BY <1>1, <1>3, <1>7 DEF Kept
<1>9. \A j \in DOMAIN all : Kept(all, j) => j = i
  BY <1>1, <1>3, <1>7 DEF Kept
<1> QED BY <1>1, <1>8, <1>9

\* And the row of a key that no other table uses is the one with the latest stamp.
LEMMA RowIs ==
  ASSUME TypeOK, NEW t \in Table, NEW k, bucket[t] # NoBucket, Listed(t) = Blocks(t),
         \A i, j \in DOMAIN bucket[t] : i < j => bucket[t][i] < bucket[t][j],
         \A u \in Table \ {t}, b \in Listed(t) : RowsOf(b, u, k) = <<>>
  PROVE  IF ChainOf(t, k) = <<>> THEN getTableData(t, k) = {} ELSE IsLatest(ChainOf(t, k), getTableData(t, k))
<1> DEFINE q == bucket[t]
           all == ChainOf(t, k)
<1>1. PICK n \in Nat : /\ DOMAIN dataChain = 1 .. n
                       /\ \A b \in 1 .. n : dataChain[b] \in Seq(DataTx) /\ DOMAIN dataChain[b] = 1 .. Len(dataChain[b])
  <2>1. dataChain \in Seq(Seq(DataTx))
    BY DEF TypeOK
  <2>2. Len(dataChain) \in Nat /\ DOMAIN dataChain = 1 .. Len(dataChain)
    BY <2>1, LenProperties
  <2>3. \A b \in 1 .. Len(dataChain) : dataChain[b] \in Seq(DataTx)
    BY <2>1, <2>2, ElementOfSeq
  <2>4. \A b \in 1 .. Len(dataChain) : DOMAIN dataChain[b] = 1 .. Len(dataChain[b])
    BY <2>3, LenProperties
  <2> QED BY <2>2, <2>3, <2>4
<1>2. \A b \in Blocks(t) : b \in 1 .. n
  BY <1>1 DEF Blocks
<1>3. ASSUME NEW b \in Blocks(t), NEW i \in DOMAIN dataChain[b], dataChain[b][i].key = k
      PROVE  dataChain[b][i].table = t
  <2>1. dataChain[b][i] \in DataTx
    BY <1>1, <1>2, ElementOfSeq
  <2> DEFINE u == dataChain[b][i].table
  <2>2. u \in Table
    BY <2>1 DEF DataTx
  <2>3. RowsOf(b, u, k) # <<>>
    BY <1>1, <1>2, <1>3, <2>2, RowsFound
  <2> QED BY <2>2, <2>3
<1>4. ASSUME NEW b \in Blocks(t) PROVE Matching(dataChain[b], Table \X {k}) = RowsOf(b, t, k)
  <2>1. dataChain[b] \in Seq(DataTx) /\ DOMAIN dataChain[b] = 1 .. Len(dataChain[b])
    BY <1>1, <1>2
  <2>2. ASSUME NEW i \in 1 .. Len(dataChain[b])
        PROVE  <<dataChain[b][i].table, dataChain[b][i].key>> \in Table \X {k} <=>
               <<dataChain[b][i].table, dataChain[b][i].key>> \in {<<t, k>>}
    BY <1>3, <2>1
  <2> QED BY <2>1, <2>2, MatchingSame DEF RowsOf
<1>5. \A x \in DOMAIN q : q[x] \in Blocks(t)
  BY DEF Listed
<1>6. [x \in DOMAIN q |-> Matching(dataChain[q[x]], Table \X {k})] = [x \in DOMAIN q |-> RowsOf(q[x], t, k)]
  BY <1>4, <1>5
<1>7. getHistory(t, k) = all
  BY HistoryIs
<1>8. getTableData(t, k) = {all[i] : i \in {l \in DOMAIN all : Kept(all, l)}}
  <2> HIDE DEF all
  <2>1. Collected([x \in DOMAIN q |-> Matching(dataChain[q[x]], Table \X {k})]) = all
    BY <1>6, <1>7 DEF getHistory
  <2> QED BY <2>1 DEF getTableData
<1>9. all \in Seq(DataTx)
  BY RowsTyped, CollectedAll DEF ChainOf
<1> HIDE DEF all, q
<1>10. CASE all = <<>>
  <2>1. DOMAIN all = {}
    BY <1>10
  <2>2. getTableData(t, k) = {}
    BY <1>8, <2>1
  <2> QED BY <1>10, <2>2 DEF all
<1>11. CASE all # <<>>
  <2>1. PICK i \in DOMAIN all : Kept(all, i) /\ \A j \in DOMAIN all : Kept(all, j) => j = i
    BY <1>9, <1>11, FirstKept
  <2>2. getTableData(t, k) = {all[i]}
    BY <1>8, <2>1
  <2>3. DOMAIN all \subseteq Nat /\ \A j \in DOMAIN all : all[j].stamp \in Nat
    <3>1. DOMAIN all = 1 .. Len(all) /\ Len(all) \in Nat
      BY <1>9, LenProperties
    <3>2. \A j \in DOMAIN all : all[j] \in DataTx
      BY <1>9, <3>1, ElementOfSeq
    <3>3. \A j \in DOMAIN all : all[j].stamp \in Stamp
      BY <3>2 DEF DataTx
    <3>4. \A j \in DOMAIN all : all[j].stamp \in Nat
      BY <3>3, IndexAssumption
    <3> QED BY <3>1, <3>4
  <2>4. ASSUME NEW j \in DOMAIN all
        PROVE  all[j].stamp <= all[i].stamp /\ (all[j].stamp = all[i].stamp => i <= j)
    <3>1. PICK x, y \in Nat : x = all[j].stamp /\ y = all[i].stamp
      BY <2>3
    <3>2. x <= y /\ (j < i => x < y)
      BY <2>1, <3>1 DEF Kept
    <3>3. x = y => i <= j
      BY <2>3, <3>2
    <3> QED BY <3>1, <3>2, <3>3
  <2>5. IsLatest(all, getTableData(t, k))
    BY <2>2, <2>4 DEF IsLatest
  <2> QED BY <1>11, <2>5 DEF all
<1> QED BY <1>10, <1>11

-----------------------------------------------------------------------------
(* The levels of a table as its blocks make them.                              *)

\* What is known of a block by its place in a chain.
LEMMA TableBlockTyped ==
  ASSUME NEW c \in Seq(TableTx)
  PROVE  /\ DOMAIN c = 1 .. Len(c) /\ Len(c) \in Nat
         /\ \A i \in DOMAIN c :
              /\ c[i] \in TableTx /\ c[i].table \in Table /\ c[i].by \in Account
              /\ c[i].seen \subseteq 1 .. MaxTableBlocks /\ c[i].grants \in Grants
              /\ \A a \in Account : c[i].grants[a] \in Level
<1>1. DOMAIN c = 1 .. Len(c) /\ Len(c) \in Nat
  BY LenProperties
<1>2. \A i \in DOMAIN c : c[i] \in TableTx
  BY <1>1, ElementOfSeq
<1> QED BY <1>1, <1>2 DEF TableTx, Grants

\* A data block that is appended keeps the type of its chain.
LEMMA DataBlockTyped ==
  ASSUME NEW d \in Seq(Seq(DataTx))
  PROVE  /\ DOMAIN d = 1 .. Len(d) /\ Len(d) \in Nat
         /\ \A b \in DOMAIN d :
              /\ d[b] \in Seq(DataTx) /\ DOMAIN d[b] = 1 .. Len(d[b]) /\ Len(d[b]) \in Nat
              /\ \A i \in DOMAIN d[b] :
                    d[b][i] \in DataTx /\ d[b][i].table \in Table /\ d[b][i].seen \subseteq 1 .. MaxTableBlocks
<1>1. DOMAIN d = 1 .. Len(d) /\ Len(d) \in Nat
  BY LenProperties
<1>2. ASSUME NEW b \in DOMAIN d
      PROVE  /\ d[b] \in Seq(DataTx) /\ DOMAIN d[b] = 1 .. Len(d[b]) /\ Len(d[b]) \in Nat
             /\ \A i \in DOMAIN d[b] :
                   d[b][i] \in DataTx /\ d[b][i].table \in Table /\ d[b][i].seen \subseteq 1 .. MaxTableBlocks
  <2>1. d[b] \in Seq(DataTx)
    BY <1>1, ElementOfSeq
  <2>2. DOMAIN d[b] = 1 .. Len(d[b]) /\ Len(d[b]) \in Nat
    BY <2>1, LenProperties
  <2>3. \A i \in DOMAIN d[b] : d[b][i] \in DataTx
    BY <2>1, <2>2, ElementOfSeq
  <2> QED BY <2>1, <2>2, <2>3 DEF DataTx
<1> QED BY <1>1, <1>2

\* A set of table blocks has a newest.
LEMMA NewestBlock ==
  ASSUME NEW c \in Seq(TableTx), NEW S \in SUBSET DOMAIN c, S # {}
  PROVE  \E i \in S : \A j \in S : j <= i
<1>1. DOMAIN c = 1 .. Len(c) /\ Len(c) \in Nat
  BY TableBlockTyped
<1> QED BY <1>1, Greatest

\* What the blocks S grant a on t is what the newest of them grants that names a.
LEMMA MergedValue ==
  ASSUME NEW c \in Seq(TableTx), NEW t, NEW S, NEW a \in Account
  PROVE  /\ \/ MergedIn(c, t, S)[a] = 0 /\ \A i \in OfIn(c, t) \cap S : c[i].grants[a] = 0
            \/ \E i \in OfIn(c, t) \cap S :
                  /\ c[i].grants[a] # 0
                  /\ \A j \in OfIn(c, t) \cap S : c[j].grants[a] # 0 => j <= i
                  /\ MergedIn(c, t, S)[a] = c[i].grants[a]
         /\ MergedIn(c, t, S)[a] \in Level
<1> DEFINE naming == {i \in OfIn(c, t) \cap S : c[i].grants[a] # 0}
<1>1. MergedIn(c, t, S)[a] = IF naming = {} THEN 0
           ELSE c[CHOOSE i \in naming : \A j \in naming : j <= i].grants[a]
  BY DEF MergedIn
<1>2. CASE naming = {}
  BY <1>1, <1>2, IndexAssumption
<1>3. CASE naming # {}
  <2>1. naming \in SUBSET DOMAIN c
    BY DEF OfIn
  <2>2. PICK i \in naming : (\A j \in naming : j <= i) /\ MergedIn(c, t, S)[a] = c[i].grants[a]
    BY <2>1, <1>3, <1>1, NewestBlock
  <2>3. c[i].grants[a] \in Level
    BY <2>1, TableBlockTyped
  <2> QED BY <2>2, <2>3
<1> QED BY <1>2, <1>3

\* One more block, newer than those before: its levels replace theirs.
LEMMA MergeOne ==
  ASSUME NEW c \in Seq(TableTx), NEW t, NEW S, NEW a \in Account,
         NEW i \in OfIn(c, t), \A j \in OfIn(c, t) \cap S : j <= i
  PROVE  MergedIn(c, t, S \cup {i})[a] =
           IF c[i].grants[a] = 0 THEN MergedIn(c, t, S)[a] ELSE c[i].grants[a]
<1>1. OfIn(c, t) \subseteq Nat
  BY TableBlockTyped DEF OfIn
<1>2. \A x, y \in Nat : x <= y /\ y <= x => x = y
  OBVIOUS
<1> QED BY <1>1, <1>2, MergedValue

\* Only the blocks of the table count.
LEMMA MergeOf ==
  ASSUME NEW c, NEW t, NEW S, NEW T, OfIn(c, t) \cap S = OfIn(c, t) \cap T
  PROVE  MergedIn(c, t, S) = MergedIn(c, t, T)
<1> DEFINE M(Z) == [a \in Account |->
               LET naming == {i \in Z : c[i].grants[a] # 0}
               IN IF naming = {} THEN 0
                  ELSE c[CHOOSE i \in naming : \A j \in naming : j <= i].grants[a]]
<1>1. \A Z : MergedIn(c, t, Z) = M(OfIn(c, t) \cap Z)
  BY DEF MergedIn
<1> HIDE DEF M
<1> QED BY <1>1

\* A start takes the newest block alone: no level that the others do not give.
LEMMA NewestMerged ==
  ASSUME tableChain \in Seq(TableTx), NEW t \in Table, NEW a \in Account
  PROVE  /\ Newest(t) \in Grants
         /\ Newest(t)[a] \in {Merged(t, DOMAIN tableChain)[a], 0}
         /\ Of(t) = {} => Newest(t) = Nobody
         /\ \A i \in Of(t) : (\A j \in Of(t) : j <= i) => Newest(t) = tableChain[i].grants
<1> USE DEF Of, Merged
<1>0. /\ OfIn(tableChain, t) \cap DOMAIN tableChain = OfIn(tableChain, t)
      /\ OfIn(tableChain, t) \subseteq DOMAIN tableChain /\ OfIn(tableChain, t) \subseteq Nat
  BY TableBlockTyped DEF OfIn
<1>1. CASE Of(t) = {}
  BY <1>1, IndexAssumption DEF Newest, Nobody, Grants
<1>2. CASE Of(t) # {}
  <2>1. PICK i \in Of(t) : (\A j \in Of(t) : j <= i) /\ Newest(t) = tableChain[i].grants
    BY <1>0, <1>2, NewestBlock DEF Newest
  <2>2. \A x, y \in Nat : x <= y /\ y <= x => x = y
    OBVIOUS
  <2>3. Newest(t) \in Grants
    BY <1>0, <2>1, TableBlockTyped
  <2>4. \A k \in Of(t) : (\A j \in Of(t) : j <= k) => k = i
    BY <1>0, <2>1, <2>2
  <2>5. Newest(t)[a] # 0 => Merged(t, DOMAIN tableChain)[a] = Newest(t)[a]
    <3> SUFFICES ASSUME Newest(t)[a] # 0 PROVE Merged(t, DOMAIN tableChain)[a] = Newest(t)[a]
      OBVIOUS
    <3>1. PICK k \in Of(t) : /\ \A j \in Of(t) : tableChain[j].grants[a] # 0 => j <= k
                             /\ Merged(t, DOMAIN tableChain)[a] = tableChain[k].grants[a]
      BY <1>0, <2>1, MergedValue
    <3>2. i <= k /\ k <= i
      BY <2>1, <3>1
    <3> QED BY <3>1, <3>2, <2>1, <2>2, <1>0
  <2> QED BY <2>1, <1>2, <2>3, <2>4, <2>5
<1> QED BY <1>1, <1>2

\* Blocks that come later change nothing of what is known over earlier ones.
LEMMA KeptByAppend ==
  ASSUME NEW c \in Seq(TableTx), NEW tx \in TableTx, NEW t
  PROVE  /\ OfIn(Append(c, tx), t) = OfIn(c, t) \cup (IF tx.table = t THEN {Len(c) + 1} ELSE {})
         /\ \A S \in SUBSET DOMAIN c : OfIn(Append(c, tx), t) \cap S = OfIn(c, t) \cap S
         /\ \A S \in SUBSET DOMAIN c : MergedIn(Append(c, tx), t, S) = MergedIn(c, t, S)
<1>1. PICK d : d = Append(c, tx)
  OBVIOUS
<1> DEFINE n == Len(c) + 1
<1>2. /\ DOMAIN d = DOMAIN c \cup {n} /\ n \notin DOMAIN c
      /\ \A i \in DOMAIN c : d[i] = c[i]
      /\ d[n] = tx
  BY <1>1, Appended
<1> HIDE DEF n
<1>3. OfIn(d, t) = OfIn(c, t) \cup (IF tx.table = t THEN {n} ELSE {})
  BY <1>2 DEF OfIn
<1>4. ASSUME NEW S \in SUBSET DOMAIN c
      PROVE  OfIn(d, t) \cap S = OfIn(c, t) \cap S
  BY <1>2, <1>3
<1>5. ASSUME NEW S \in SUBSET DOMAIN c
      PROVE  MergedIn(d, t, S) = MergedIn(c, t, S)
  <2> DEFINE naming(a) == {i \in OfIn(c, t) \cap S : c[i].grants[a] # 0}
             later(a) == {i \in OfIn(d, t) \cap S : d[i].grants[a] # 0}
             newest(Z) == CHOOSE i \in Z : \A j \in Z : j <= i
  <2>1. \A a : later(a) = naming(a)
    BY <1>2, <1>4
  <2>2. ASSUME NEW a, naming(a) # {} PROVE newest(naming(a)) \in DOMAIN c
    <3>1. naming(a) \in SUBSET DOMAIN c
      BY DEF OfIn
    <3> QED BY <3>1, <2>2, NewestBlock
  <2>3. \A a : naming(a) # {} => d[newest(naming(a))] = c[newest(naming(a))]
    BY <1>2, <2>2
  <2>4. MergedIn(c, t, S) = [a \in Account |->
           IF naming(a) = {} THEN 0 ELSE c[newest(naming(a))].grants[a]]
    BY DEF MergedIn
  <2>5. MergedIn(d, t, S) = [a \in Account |->
           IF later(a) = {} THEN 0 ELSE d[newest(later(a))].grants[a]]
    BY DEF MergedIn
  <2> HIDE DEF naming, newest, later
  <2> QED BY <2>1, <2>3, <2>4, <2>5
<1> QED BY <1>1, <1>3, <1>4, <1>5 DEF n

-----------------------------------------------------------------------------
(* The steps of the index.                                                     *)

USE IndexAssumption DEF Of, Merged

\* The kinds of work, and the tables it is at.
LEMMA WorkTyped ==
  ASSUME TypeOK, NEW w \in toDo
  PROVE  /\ w[1] = "table" /\ w[2] \in DOMAIN tableChain /\ w[3] = 1 /\ w = <<"table", w[2], 1>>
              /\ Ahead(w) = {tableChain[w[2]].table} /\ TableOf(w) = tableChain[w[2]].table
         \/ /\ w[1] = "data" /\ w[2] \in DOMAIN dataChain /\ w[3] \in DOMAIN dataChain[w[2]]
            /\ w = <<"data", w[2], w[3]>> /\ w[3] \in Nat
            /\ TableOf(w) = dataChain[w[2]][w[3]].table /\ TableOf(w) \in Ahead(w)
            /\ \A t : t \in Ahead(w) <=> \E i \in DOMAIN dataChain[w[2]] : i >= w[3] /\ dataChain[w[2]][i].table = t
<1>1. w \in ({"table"} \X (DOMAIN tableChain) \X {1}) \cup ({"data"} \X (DOMAIN dataChain) \X (1 .. MaxInBlock))
  BY DEF TypeOK
<1>2. CASE w \in {"table"} \X (DOMAIN tableChain) \X {1}
  BY <1>2 DEF Ahead, TableOf
<1>3. CASE w \in {"data"} \X (DOMAIN dataChain) \X (1 .. MaxInBlock)
  <2>1. w[1] = "data" /\ w[2] \in DOMAIN dataChain /\ w = <<"data", w[2], w[3]>> /\ w[3] \in Nat
    BY <1>3
  <2>2. w[3] \in DOMAIN dataChain[w[2]]
    BY <2>1 DEF TypeOK
  <2>3. TableOf(w) = dataChain[w[2]][w[3]].table
    BY <2>1 DEF TableOf
  <2>4. \A t : t \in Ahead(w) <=> \E i \in DOMAIN dataChain[w[2]] : i >= w[3] /\ dataChain[w[2]][i].table = t
    BY <2>1 DEF Ahead
  <2> QED BY <2>1, <2>2, <2>3, <2>4
<1> QED BY <1>1, <1>2, <1>3

\* What is worked in is in the chain and not on its way (Arriving of the cache).
LEMMA Worked ==
  ASSUME NEW i
  PROVE  /\ i \in WorkedIn <=> i \in DOMAIN tableChain /\ \A w \in toDo : w[1] = "table" => w[2] # i
         /\ i \in WorkedIn' <=> i \in DOMAIN tableChain' /\ \A w \in toDo' : w[1] = "table" => w[2] # i
BY DEF WorkedIn

\* AddBlockToChain of a table block keeps the invariant of the index.
LEMMA AppendTableKeeps ==
  ASSUME IndexInv, NEW tx \in TableTx, AppendTable(tx)
  PROVE  IndexInv'
<1> USE DEF IndexInv
<1>1. tableChain \in Seq(TableTx) /\ tableChain' = Append(tableChain, tx)
  BY DEF TypeOK, AppendTable
<1>0. PICK N \in Nat : N = Len(tableChain) + 1
  BY <1>1, LenProperties
<1>2. /\ tableChain' \in Seq(TableTx) /\ Len(tableChain') = N
      /\ DOMAIN tableChain' = DOMAIN tableChain \cup {N} /\ N \notin DOMAIN tableChain
      /\ \A i \in DOMAIN tableChain : tableChain'[i] = tableChain[i] /\ i <= N
      /\ tableChain'[N] = tx
      /\ DOMAIN tableChain = 1 .. Len(tableChain) /\ Len(tableChain) \in Nat
  <2>1. /\ tableChain' \in Seq(TableTx) /\ Len(tableChain') = N
        /\ DOMAIN tableChain' = DOMAIN tableChain \cup {N} /\ N \notin DOMAIN tableChain
        /\ \A i \in DOMAIN tableChain : tableChain'[i] = tableChain[i]
        /\ tableChain'[N] = tx
        /\ DOMAIN tableChain = 1 .. Len(tableChain) /\ Len(tableChain) \in Nat
    BY <1>0, <1>1, Appended
  <2> QED BY <2>1, <1>0
<1>3. /\ ~ down /\ Len(tableChain) < MaxTableBlocks
      /\ toDo' = toDo \cup {<<"table", N, 1>>}
      /\ crossed' = crossed \cup {t \in {tx.table} : Pending(t) # {}}
      /\ dataChain' = dataChain /\ known' = known /\ perm' = perm /\ bucket' = bucket
      /\ torn' = torn /\ down' = down /\ restarts' = restarts
  BY <1>2 DEF AppendTable, index
<1>4. tx.table \in Table
  BY DEF TableTx
<1>5. TypeOK'
  <2>1. Len(tableChain') <= MaxTableBlocks
    BY <1>0, <1>2, <1>3
  <2> QED BY <1>2, <1>3, <1>4, <2>1 DEF TypeOK
<1>6. ASSUME NEW t
      PROVE  /\ OfIn(tableChain', t) = OfIn(tableChain, t) \cup (IF tx.table = t THEN {N} ELSE {})
             /\ \A S \in SUBSET DOMAIN tableChain : OfIn(tableChain', t) \cap S = OfIn(tableChain, t) \cap S
             /\ \A S \in SUBSET DOMAIN tableChain : MergedIn(tableChain', t, S) = MergedIn(tableChain, t, S)
  BY <1>0, <1>1, KeptByAppend
<1>7. WorkedIn' = WorkedIn /\ WorkedIn \subseteq DOMAIN tableChain
  <2>1. ASSUME NEW i PROVE i \in WorkedIn' <=> i \in WorkedIn
    <3>1. <<"table", N, 1>>[1] = "table" /\ <<"table", N, 1>>[2] = N
      OBVIOUS
    <3>2. CASE i = N
      BY <1>2, <1>3, <3>1, <3>2, Worked
    <3>3. CASE i # N
      BY <1>2, <1>3, <3>1, <3>3, Worked
    <3> QED BY <3>2, <3>3
  <2> QED BY <2>1, Worked
<1>8. \A w \in toDo : Ahead(w)' = Ahead(w) /\ TableOf(w)' = TableOf(w)
  <2> SUFFICES ASSUME NEW w \in toDo PROVE Ahead(w)' = Ahead(w) /\ TableOf(w)' = TableOf(w)
    OBVIOUS
  <2>1. CASE w[1] = "table"
    <3>1. tableChain'[w[2]] = tableChain[w[2]]
      BY <1>2, <2>1, WorkTyped
    <3> QED BY <2>1, <3>1 DEF Ahead, TableOf
  <2>2. CASE w[1] # "table"
    BY <1>3, <2>2 DEF Ahead, TableOf
  <2> QED BY <2>1, <2>2
<1>9. Ahead(<<"table", N, 1>>)' = {tx.table}
  BY <1>2 DEF Ahead, TableOf
<1>10. \A t : Blocks(t)' = Blocks(t) /\ Listed(t)' = Listed(t)
  BY <1>3 DEF Blocks, Listed
<1>11. KnownWorkedIn'
  BY <1>3, <1>6, <1>7 DEF KnownWorkedIn
<1>12. LastPending'
  <2> SUFFICES ASSUME NEW w \in toDo', NEW t \in Ahead(w)' \ crossed'
               PROVE  /\ w[1] = "table" => \A i \in Of(t)' : i <= w[2]
                      /\ w[1] = "data" => \A b \in Blocks(t)' : b <= w[2]
    BY DEF LastPending
  <2>1. CASE w \in toDo
    <3>1. t \in Ahead(w) \ crossed
      BY <1>3, <1>8, <2>1
    <3>2. t # tx.table
      BY <1>3, <2>1, <3>1 DEF Pending
    <3>3. Of(t)' = Of(t)
      BY <1>6, <3>2
    <3> QED BY <2>1, <3>1, <3>3, <1>10 DEF LastPending
  <2>2. CASE w = <<"table", N, 1>>
    <3>1. \A i \in Of(t)' : i <= N
      BY <1>2, <1>6 DEF OfIn
    <3> QED BY <2>2, <3>1
  <2> QED BY <1>3, <2>1, <2>2
<1>13. LevelsWorkedIn'
  <2> SUFFICES ASSUME NEW t \in Table \ crossed', NEW a \in Account
               PROVE  /\ perm'[t][a] \in {Merged(t, WorkedIn)'[a], 0}
                      /\ restarts' = 0 => perm'[t][a] = Merged(t, WorkedIn)'[a]
                      /\ \A i \in Of(t)' \cap WorkedIn' :
                          (\A j \in Of(t)' \cap WorkedIn' : j <= i) /\ tableChain'[i].grants[a] # 0
                              => perm'[t][a] = tableChain'[i].grants[a]
    BY DEF LevelsWorkedIn
  <2>1. Merged(t, WorkedIn)' = Merged(t, WorkedIn) /\ Of(t)' \cap WorkedIn' = Of(t) \cap WorkedIn
    BY <1>6, <1>7
  <2>2. \A i \in Of(t) \cap WorkedIn : tableChain'[i] = tableChain[i]
    BY <1>2, <1>7
  <2> QED BY <1>3, <2>1, <2>2 DEF LevelsWorkedIn
<1>14. ListedOrPending'
  <2>1. \A t : \A b : (\E w \in toDo : w[1] = "data" /\ w[2] = b /\ t \in Ahead(w))
                 => \E w \in toDo' : w[1] = "data" /\ w[2] = b /\ t \in Ahead(w)'
    BY <1>3, <1>8
  <2> QED BY <1>3, <1>10, <2>1 DEF ListedOrPending
<1>15. EndExplained'
  BY <1>3 DEF EndExplained
<1>16. LevelsGranted'
  <2> SUFFICES ASSUME NEW t \in Table, NEW a \in Account, perm[t][a] # 0
               PROVE  \E i \in Of(t)' \cap WorkedIn' : tableChain'[i].grants[a] = perm[t][a]
    BY <1>3 DEF LevelsGranted
  <2>1. PICK i \in Of(t) \cap WorkedIn : tableChain[i].grants[a] = perm[t][a]
    BY DEF LevelsGranted
  <2> QED BY <1>2, <1>6, <1>7, <2>1
<1> QED BY <1>5, <1>11, <1>12, <1>13, <1>14, <1>15, <1>16

\* AddBlockToChain of a data block keeps it.
LEMMA AppendDataKeeps ==
  ASSUME IndexInv, NEW txs \in Seq(DataTx), txs # <<>>, Len(txs) <= MaxInBlock, AppendData(txs)
  PROVE  IndexInv'
<1> USE DEF IndexInv
<1>1. dataChain \in Seq(Seq(DataTx)) /\ dataChain' = Append(dataChain, txs)
  BY DEF TypeOK, AppendData
<1>0. PICK B \in Nat : B = Len(dataChain) + 1
  BY <1>1, LenProperties
<1>2. /\ dataChain' \in Seq(Seq(DataTx)) /\ Len(dataChain') = B
      /\ DOMAIN dataChain' = DOMAIN dataChain \cup {B} /\ B \notin DOMAIN dataChain
      /\ \A i \in DOMAIN dataChain : dataChain'[i] = dataChain[i] /\ i <= B
      /\ dataChain'[B] = txs
  <2>1. /\ dataChain' \in Seq(Seq(DataTx)) /\ Len(dataChain') = B
        /\ DOMAIN dataChain' = DOMAIN dataChain \cup {B} /\ B \notin DOMAIN dataChain
        /\ \A i \in DOMAIN dataChain : dataChain'[i] = dataChain[i]
        /\ dataChain'[B] = txs
        /\ DOMAIN dataChain = 1 .. Len(dataChain) /\ Len(dataChain) \in Nat
    BY <1>0, <1>1, Appended
  <2> QED BY <2>1, <1>0
<1>3. /\ ~ down /\ Len(dataChain) < MaxDataBlocks
      /\ toDo' = toDo \cup {<<"data", B, 1>>}
      /\ crossed' = crossed \cup {t \in {txs[i].table : i \in DOMAIN txs} : Pending(t) # {}}
      /\ tableChain' = tableChain /\ known' = known /\ perm' = perm /\ bucket' = bucket
      /\ torn' = torn /\ down' = down /\ restarts' = restarts
  BY <1>2 DEF AppendData, index
<1>4. /\ DOMAIN txs = 1 .. Len(txs) /\ Len(txs) \in Nat /\ Len(txs) >= 1
      /\ \A i \in DOMAIN txs : txs[i].table \in Table
  <2>1. DOMAIN txs = 1 .. Len(txs) /\ Len(txs) \in Nat /\ Len(txs) >= 1
    BY LenProperties, EmptySeq
  <2>2. \A i \in DOMAIN txs : txs[i] \in DataTx
    BY <2>1, ElementOfSeq
  <2> QED BY <2>1, <2>2 DEF DataTx
<1>5. TypeOK'
  <2>1. Len(dataChain') <= MaxDataBlocks
    BY <1>0, <1>2, <1>3
  <2>2. bucket \in [Table -> {NoBucket} \cup Seq(DOMAIN dataChain')]
    <3>1. Seq(DOMAIN dataChain) \subseteq Seq(DOMAIN dataChain')
      BY <1>2
    <3> QED BY <3>1 DEF TypeOK
  <2>3. 1 \in DOMAIN txs /\ 1 \in 1 .. MaxInBlock
    BY <1>4
  <2>4. \A b \in DOMAIN dataChain' : Len(dataChain'[b]) <= MaxInBlock
    BY <1>2 DEF TypeOK
  <2>5. toDo' \subseteq ({"table"} \X (DOMAIN tableChain) \X {1}) \cup ({"data"} \X (DOMAIN dataChain') \X (1 .. MaxInBlock))
    BY <1>2, <1>3, <2>3 DEF TypeOK
  <2>6. \A w \in toDo' : w[1] = "data" => w[3] \in DOMAIN dataChain'[w[2]]
    <3> SUFFICES ASSUME NEW w \in toDo', w[1] = "data" PROVE w[3] \in DOMAIN dataChain'[w[2]]
      OBVIOUS
    <3>1. CASE w \in toDo
      BY <1>2, <3>1, WorkTyped
    <3>2. CASE w = <<"data", B, 1>>
      BY <1>2, <2>3, <3>2
    <3> QED BY <1>3, <3>1, <3>2
  <2>7. crossed' \subseteq Table
    BY <1>3, <1>4 DEF TypeOK
  <2> QED BY <1>2, <1>3, <2>1, <2>2, <2>4, <2>5, <2>6, <2>7 DEF TypeOK
<1>6. WorkedIn' = WorkedIn
  <2>1. ASSUME NEW i PROVE i \in WorkedIn' <=> i \in WorkedIn
    <3>1. <<"data", B, 1>>[1] # "table"
      OBVIOUS
    <3> QED BY <1>3, <3>1, Worked
  <2> QED BY <2>1, Worked
<1>7. \A w \in toDo : Ahead(w)' = Ahead(w) /\ TableOf(w)' = TableOf(w)
  <2> SUFFICES ASSUME NEW w \in toDo PROVE Ahead(w)' = Ahead(w) /\ TableOf(w)' = TableOf(w)
    OBVIOUS
  <2>1. CASE w[1] = "data"
    <3>1. dataChain'[w[2]] = dataChain[w[2]]
      BY <1>2, <2>1, WorkTyped
    <3> QED BY <2>1, <3>1 DEF Ahead, TableOf
  <2>2. CASE w[1] # "data"
    <3>1. w[1] = "table"
      BY <2>2, WorkTyped
    <3> QED BY <1>3, <3>1 DEF Ahead, TableOf
  <2> QED BY <2>1, <2>2
<1>8. \A t : t \in Ahead(<<"data", B, 1>>)' <=> t \in {txs[i].table : i \in DOMAIN txs}
  BY <1>2, <1>4 DEF Ahead
<1>9. ASSUME NEW t
      PROVE  /\ Listed(t)' = Listed(t) /\ Blocks(t) \subseteq Blocks(t)' /\ Blocks(t)' \subseteq Blocks(t) \cup {B}
             /\ B \in Blocks(t)' <=> t \in {txs[i].table : i \in DOMAIN txs}
  BY <1>2, <1>3 DEF Blocks, Listed
<1>10. KnownWorkedIn'
  BY <1>3, <1>6 DEF KnownWorkedIn
<1>11. LastPending'
  <2> SUFFICES ASSUME NEW w \in toDo', NEW t \in Ahead(w)' \ crossed'
               PROVE  /\ w[1] = "table" => \A i \in Of(t)' : i <= w[2]
                      /\ w[1] = "data" => \A b \in Blocks(t)' : b <= w[2]
    BY DEF LastPending
  <2>1. CASE w \in toDo
    <3>1. t \in Ahead(w) \ crossed
      BY <1>3, <1>7, <2>1
    <3>2. t \notin {txs[i].table : i \in DOMAIN txs}
      BY <1>3, <2>1, <3>1 DEF Pending
    <3>3. Blocks(t)' = Blocks(t)
      BY <1>9, <3>2
    <3> QED BY <2>1, <3>1, <3>3, <1>3 DEF LastPending
  <2>2. CASE w = <<"data", B, 1>>
    <3>1. \A b \in Blocks(t)' : b <= B
      BY <1>2, <1>0 DEF Blocks
    <3> QED BY <2>2, <3>1
  <2> QED BY <1>3, <2>1, <2>2
<1>12. LevelsWorkedIn'
  BY <1>3, <1>6 DEF LevelsWorkedIn
<1>13. ListedOrPending'
  <2> SUFFICES ASSUME NEW t \in Table \ (torn' \cup crossed')
               PROVE  /\ \A b \in Blocks(t)' :
                           \/ bucket'[t] # NoBucket /\ b \in Listed(t)'
                           \/ \E w \in toDo' : w[1] = "data" /\ w[2] = b /\ t \in Ahead(w)'
                      /\ bucket'[t] # NoBucket =>
                           /\ Listed(t)' \subseteq Blocks(t)'
                           /\ \A i, j \in DOMAIN bucket'[t] : i < j => bucket'[t][i] < bucket'[t][j]
    BY DEF ListedOrPending
  <2>0. t \in Table \ (torn \cup crossed)
    BY <1>3
  <2>1. ASSUME NEW b \in Blocks(t)
        PROVE  \/ bucket'[t] # NoBucket /\ b \in Listed(t)'
               \/ \E w \in toDo' : w[1] = "data" /\ w[2] = b /\ t \in Ahead(w)'
    BY <1>3, <1>7, <1>9, <2>0 DEF ListedOrPending
  <2>2. ASSUME B \in Blocks(t)'
        PROVE  \E w \in toDo' : w[1] = "data" /\ w[2] = B /\ t \in Ahead(w)'
    BY <2>2, <1>3, <1>8, <1>9
  <2>3. bucket[t] # NoBucket =>
          /\ Listed(t) \subseteq Blocks(t)
          /\ \A i, j \in DOMAIN bucket[t] : i < j => bucket[t][i] < bucket[t][j]
    BY <2>0 DEF ListedOrPending
  <2> QED BY <1>3, <1>9, <2>1, <2>2, <2>3
<1>14. EndExplained'
  BY <1>3 DEF EndExplained
<1>15. LevelsGranted'
  BY <1>3, <1>6 DEF LevelsGranted
<1> QED BY <1>5, <1>10, <1>11, <1>12, <1>13, <1>14, <1>15

\* upDateByTables keeps it: the levels of the block come on top of those of the older
\* ones, unless two blocks of the table have crossed.
LEMMA upDateByTablesKeeps ==
  ASSUME IndexInv, NEW w \in toDo, upDateByTables(w)
  PROVE  IndexInv'
<1> USE DEF IndexInv
<1>1. PICK n, u : n = w[2] /\ u = tableChain[w[2]].table
  OBVIOUS
<1>2. /\ w[1] = "table" /\ n \in DOMAIN tableChain /\ w = <<"table", n, 1>>
      /\ Ahead(w) = {u} /\ TableOf(w) = u /\ u \in Table /\ n \in Of(u)
      /\ tableChain \in Seq(TableTx) /\ tableChain[n].grants \in Grants
  <2>1. tableChain \in Seq(TableTx)
    BY DEF TypeOK
  <2> QED BY <2>1, <1>1, WorkTyped, TableBlockTyped DEF upDateByTables, OfIn
<1>3. ~ (IsNew(u) /\ bucket[u] # NoBucket)
  BY <1>2 DEF KnownWorkedIn, IsNew
<1>4. /\ ~ down /\ down' = down /\ toDo' = toDo \ {w} /\ known' = known \cup {u}
      /\ bucket' = (IF IsNew(u) THEN [bucket EXCEPT ![u] = <<>>] ELSE bucket)
      /\ perm' = [perm EXCEPT ![u] = Merge(@, tableChain[n].grants)]
      /\ tableChain' = tableChain /\ dataChain' = dataChain
      /\ torn' = torn /\ crossed' = crossed /\ restarts' = restarts
  BY <1>1, <1>3 DEF upDateByTables, chains
<1>5. /\ perm \in [Table -> Grants] /\ bucket \in [Table -> {NoBucket} \cup Seq(DOMAIN dataChain)]
      /\ restarts \in Nat
  BY DEF TypeOK
<1>6. /\ \A t \in Table \ {u} : perm'[t] = perm[t] /\ bucket'[t] = bucket[t]
      /\ \A a \in Account : perm'[u][a] =
            IF tableChain[n].grants[a] = 0 THEN perm[u][a] ELSE tableChain[n].grants[a]
      /\ bucket'[u] = IF u \in known THEN bucket[u] ELSE <<>>
  BY <1>2, <1>4, <1>5 DEF Merge, IsNew
<1>7. TypeOK'
  <2>1. Merge(perm[u], tableChain[n].grants) \in Grants
    BY <1>2, <1>5 DEF Merge, Grants
  <2>2. perm' \in [Table -> Grants]
    BY <1>2, <1>4, <1>5, <2>1
  <2>3. bucket' \in [Table -> {NoBucket} \cup Seq(DOMAIN dataChain)]
    <3>1. <<>> \in Seq(DOMAIN dataChain)
      BY EmptySeq
    <3> QED BY <1>2, <1>4, <1>5, <3>1
  <2> QED BY <1>2, <1>4, <2>2, <2>3 DEF TypeOK
<1>8. WorkedIn' = WorkedIn \cup {n}
  <2>1. ASSUME NEW i PROVE i \in WorkedIn' <=> i \in WorkedIn \/ i = n
    <3>1. \A v \in toDo : v[1] = "table" /\ v[2] = n => v = w
      BY <1>2, WorkTyped
    <3>2. CASE i = n
      BY <1>2, <1>4, <3>1, <3>2, Worked
    <3>3. CASE i # n
      BY <1>2, <1>4, <3>3, Worked
    <3> QED BY <3>2, <3>3
  <2> QED BY <2>1
<1>9. \A v \in toDo' : v \in toDo /\ Ahead(v)' = Ahead(v)
  BY <1>4 DEF Ahead, TableOf
<1>10. \A t : Blocks(t)' = Blocks(t) /\ Of(t)' = Of(t)
  BY <1>4 DEF Blocks
<1>11. \A t : t # u => n \notin Of(t)
  BY <1>2 DEF OfIn
<1>12. <<>> # NoBucket
  BY DEF NoBucket
<1>13. KnownWorkedIn'
  <2>1. \A t \in Table : t \in known' <=> Of(t)' \cap WorkedIn' # {}
    BY <1>2, <1>4, <1>8, <1>10, <1>11 DEF KnownWorkedIn
  <2>2. \A t \in Table : bucket'[t] # NoBucket => t \in known'
    BY <1>4, <1>6 DEF KnownWorkedIn
  <2>3. \A t \in known' : bucket'[t] = NoBucket => t \in torn'
    <3>1. known \subseteq Table
      BY DEF TypeOK
    <3> QED BY <3>1, <1>4, <1>6, <1>12 DEF KnownWorkedIn
  <2> QED BY <2>1, <2>2, <2>3 DEF KnownWorkedIn
<1>14. LastPending'
  BY <1>4, <1>9, <1>10 DEF LastPending
<1>15. LevelsWorkedIn'
  <2> SUFFICES ASSUME NEW t \in Table \ crossed, NEW a \in Account
               PROVE  /\ perm'[t][a] \in {Merged(t, WorkedIn)'[a], 0}
                      /\ restarts' = 0 => perm'[t][a] = Merged(t, WorkedIn)'[a]
                      /\ \A i \in Of(t)' \cap WorkedIn' :
                          (\A j \in Of(t)' \cap WorkedIn' : j <= i) /\ tableChain'[i].grants[a] # 0
                              => perm'[t][a] = tableChain'[i].grants[a]
    BY <1>4 DEF LevelsWorkedIn
  <2>0. Merged(t, WorkedIn)' = Merged(t, WorkedIn \cup {n})
    BY <1>4, <1>8
  <2>1. CASE t = u
    <3>1. \A i \in Of(t) : i <= n
      BY <1>2, <2>1 DEF LastPending
    <3>2. Merged(t, WorkedIn \cup {n})[a] =
             IF tableChain[n].grants[a] = 0 THEN Merged(t, WorkedIn)[a] ELSE tableChain[n].grants[a]
      BY <1>2, <2>1, <3>1, MergeOne
    <3>3. /\ perm[t][a] \in {Merged(t, WorkedIn)[a], 0}
          /\ restarts = 0 => perm[t][a] = Merged(t, WorkedIn)[a]
      BY DEF LevelsWorkedIn
    <3>4. perm'[t][a] = IF tableChain[n].grants[a] = 0 THEN perm[t][a] ELSE tableChain[n].grants[a]
      BY <1>6, <2>1
    <3>5. \A i \in Of(t)' \cap WorkedIn' : (\A j \in Of(t)' \cap WorkedIn' : j <= i) => i = n
      <4>1. Of(t) \subseteq Nat
        BY <1>2, TableBlockTyped DEF OfIn
      <4>2. \A x, y \in Nat : x <= y /\ y <= x => x = y
        OBVIOUS
      <4> QED BY <1>2, <1>8, <1>10, <2>1, <3>1, <4>1, <4>2
    <3> QED BY <1>4, <2>0, <3>2, <3>3, <3>4, <3>5
  <2>2. CASE t # u
    <3>1. Of(t) \cap (WorkedIn \cup {n}) = Of(t) \cap WorkedIn
      BY <1>11, <2>2
    <3>2. Merged(t, WorkedIn \cup {n}) = Merged(t, WorkedIn)
      BY <3>1, MergeOf
    <3>3. perm'[t] = perm[t] /\ Of(t)' \cap WorkedIn' = Of(t) \cap WorkedIn
      BY <1>6, <1>8, <1>10, <2>2, <3>1
    <3> QED BY <1>4, <2>0, <3>2, <3>3 DEF LevelsWorkedIn
  <2> QED BY <2>1, <2>2
<1>16. ListedOrPending'
  <2> SUFFICES ASSUME NEW t \in Table \ (torn \cup crossed)
               PROVE  /\ \A b \in Blocks(t) :
                           \/ bucket'[t] # NoBucket /\ b \in Listed(t)'
                           \/ \E v \in toDo' : v[1] = "data" /\ v[2] = b /\ t \in Ahead(v)'
                      /\ bucket'[t] # NoBucket =>
                           /\ Listed(t)' \subseteq Blocks(t)
                           /\ \A i, j \in DOMAIN bucket'[t] : i < j => bucket'[t][i] < bucket'[t][j]
    BY <1>4, <1>10 DEF ListedOrPending
  <2>1. ASSUME NEW b, NEW v \in toDo, v[1] = "data", v[2] = b, t \in Ahead(v)
        PROVE  \E x \in toDo' : x[1] = "data" /\ x[2] = b /\ t \in Ahead(x)'
    BY <2>1, <1>2, <1>4, <1>9
  <2>2. CASE t = u /\ u \notin known
    <3>1. bucket[t] = NoBucket /\ bucket'[t] = <<>>
      BY <1>3, <1>6, <2>2 DEF IsNew
    <3>2. Listed(t)' = {} /\ DOMAIN bucket'[t] = {}
      BY <3>1 DEF Listed
    <3> QED BY <2>1, <3>1, <3>2 DEF ListedOrPending
  <2>3. CASE ~ (t = u /\ u \notin known)
    <3>1. bucket'[t] = bucket[t]
      BY <1>6, <2>3
    <3>2. Listed(t)' = Listed(t)
      BY <3>1 DEF Listed
    <3> QED BY <2>1, <3>1, <3>2 DEF ListedOrPending
  <2> QED BY <2>2, <2>3
<1>17. EndExplained'
  BY <1>4 DEF EndExplained
<1>18. LevelsGranted'
  <2> SUFFICES ASSUME NEW t \in Table, NEW a \in Account, perm'[t][a] # 0
               PROVE  \E i \in Of(t) \cap WorkedIn' : tableChain[i].grants[a] = perm'[t][a]
    BY <1>4, <1>10 DEF LevelsGranted
  <2>1. perm'[t][a] = perm[t][a] \/ (t = u /\ perm'[t][a] = tableChain[n].grants[a])
    BY <1>6
  <2> QED BY <1>2, <1>8, <2>1 DEF LevelsGranted
<1> QED BY <1>7, <1>13, <1>14, <1>15, <1>16, <1>17, <1>18

\* The process ends: the index stays as it is.
LEMMA EndKeeps ==
  ASSUME IndexInv, UNCHANGED <<chains, index, toDo, torn, crossed, restarts>>, down' \in BOOLEAN,
         down' => \/ down
                  \/ \E t \in torn : bucket[t] = NoBucket
                  \/ \E w \in toDo : w[1] = "data" /\ TableOf(w) \notin known
  PROVE  IndexInv'
<1> USE DEF IndexInv
<1>1. /\ tableChain' = tableChain /\ dataChain' = dataChain /\ known' = known /\ perm' = perm
      /\ bucket' = bucket /\ toDo' = toDo /\ torn' = torn /\ crossed' = crossed /\ restarts' = restarts
  BY DEF chains, index
<1>2. /\ \A w : Ahead(w)' = Ahead(w) /\ TableOf(w)' = TableOf(w)
      /\ \A t : Blocks(t)' = Blocks(t) /\ Listed(t)' = Listed(t)
      /\ WorkedIn' = WorkedIn
  BY <1>1 DEF Ahead, TableOf, Blocks, Listed, WorkedIn
<1>3. TypeOK'
  BY <1>1 DEF TypeOK
<1>4. KnownWorkedIn'
  BY <1>1, <1>2 DEF KnownWorkedIn
<1>5. LastPending'
  BY <1>1, <1>2 DEF LastPending
<1>6. LevelsWorkedIn'
  BY <1>1, <1>2 DEF LevelsWorkedIn
<1>7. ListedOrPending'
  BY <1>1, <1>2 DEF ListedOrPending
<1>8. EndExplained'
  BY <1>1, <1>2 DEF EndExplained
<1>9. LevelsGranted'
  BY <1>1, <1>2 DEF LevelsGranted
<1> QED BY <1>3, <1>4, <1>5, <1>6, <1>7, <1>8, <1>9

\* A block is put at the end of a bucket.
LEMMA ExtendedBy ==
  ASSUME NEW S \in SUBSET Nat, NEW s \in Seq(S), NEW b \in S, \A i \in DOMAIN s : s[i] <= b,
         \A i, j \in DOMAIN s : i < j => s[i] < s[j]
  PROVE  /\ Extended(s, b) \in Seq(S) /\ Extended(s, b) # <<>>
         /\ \A i \in DOMAIN Extended(s, b) : Extended(s, b)[i] = b \/ \E j \in DOMAIN s : Extended(s, b)[i] = s[j]
         /\ \A j \in DOMAIN s : \E i \in DOMAIN Extended(s, b) : Extended(s, b)[i] = s[j]
         /\ \E i \in DOMAIN Extended(s, b) : Extended(s, b)[i] = b
         /\ \A i, j \in DOMAIN Extended(s, b) : i < j => Extended(s, b)[i] < Extended(s, b)[j]
<1>1. DOMAIN s = 1 .. Len(s) /\ Len(s) \in Nat /\ \A i \in DOMAIN s : s[i] \in S
  BY LenProperties, ElementOfSeq
<1>2. CASE s # <<>> /\ s[Len(s)] = b
  <2>1. Extended(s, b) = s
    BY <1>2 DEF Extended
  <2>2. Len(s) \in DOMAIN s
    BY <1>1, <1>2, EmptySeq
  <2> QED BY <1>2, <2>1, <2>2
<1>3. CASE ~ (s # <<>> /\ s[Len(s)] = b)
  <2>1. Extended(s, b) = Append(s, b)
    BY <1>3 DEF Extended
  <2>2. PICK d, n : d = Append(s, b) /\ n = Len(s) + 1
    OBVIOUS
  <2>3. /\ d \in Seq(S) /\ DOMAIN d = DOMAIN s \cup {n} /\ n \notin DOMAIN s
        /\ \A i \in DOMAIN s : d[i] = s[i] /\ i < n
        /\ d[n] = b /\ n \in Nat
    BY <1>1, <2>2, Appended
  <2>4. ASSUME NEW i \in DOMAIN s PROVE s[i] < b
    <3>1. s # <<>> /\ Len(s) \in DOMAIN s
      BY <1>1, EmptySeq
    <3>2. s[Len(s)] # b /\ s[Len(s)] <= b /\ s[Len(s)] \in Nat /\ s[i] \in Nat /\ b \in Nat
      BY <1>1, <1>3, <3>1
    <3>3. i = Len(s) \/ i < Len(s)
      BY <1>1
    <3>4. s[i] = s[Len(s)] \/ s[i] < s[Len(s)]
      BY <3>1, <3>3
    <3> QED BY <3>2, <3>4
  <2>5. d # <<>>
    BY <2>3
  <2>6. \A i, j \in DOMAIN d : i < j => d[i] < d[j]
    <3> SUFFICES ASSUME NEW i \in DOMAIN d, NEW j \in DOMAIN d, i < j PROVE d[i] < d[j]
      OBVIOUS
    <3>1. i \in DOMAIN s
      BY <1>1, <2>3
    <3>2. CASE j \in DOMAIN s
      BY <2>3, <3>1, <3>2
    <3>3. CASE j = n
      BY <2>3, <2>4, <3>1, <3>3
    <3> QED BY <2>3, <3>2, <3>3
  <2>7. /\ \A i \in DOMAIN d : d[i] = b \/ \E j \in DOMAIN s : d[i] = s[j]
        /\ \A j \in DOMAIN s : \E i \in DOMAIN d : d[i] = s[j]
        /\ \E i \in DOMAIN d : d[i] = b
    BY <2>3
  <2> QED BY <2>1, <2>2, <2>3, <2>5, <2>6, <2>7
<1> QED BY <1>2, <1>3

\* Without an order, the bucket is a sequence of blocks still.
LEMMA ExtendedType ==
  ASSUME NEW S, NEW s \in Seq(S), NEW b \in S
  PROVE  Extended(s, b) \in Seq(S)
BY Appended DEF Extended

\* updateBucket keeps it: the block goes behind the older ones of the bucket.
LEMMA updateBucketKeeps ==
  ASSUME IndexInv, NEW w \in toDo, updateBucket(w)
  PROVE  IndexInv'
<1> USE DEF IndexInv
<1>1. PICK b, t, k : b = w[2] /\ k = w[3] /\ t = dataChain[b][k].table
  OBVIOUS
<1>2. /\ w[1] = "data" /\ b \in DOMAIN dataChain /\ k \in DOMAIN dataChain[b] /\ w = <<"data", b, k>>
      /\ TableOf(w) = t /\ t \in Ahead(w) /\ t \in Table /\ k \in Nat
      /\ \A u : u \in Ahead(w) <=> \E i \in DOMAIN dataChain[b] : i >= k /\ dataChain[b][i].table = u
      /\ DOMAIN dataChain[b] = 1 .. Len(dataChain[b]) /\ Len(dataChain[b]) \in Nat
      /\ Len(dataChain[b]) <= MaxInBlock /\ DOMAIN dataChain \subseteq Nat
  <2>1. dataChain \in Seq(Seq(DataTx))
    BY DEF TypeOK
  <2>2. w[1] = "data"
    BY DEF updateBucket
  <2>3. /\ b \in DOMAIN dataChain /\ k \in DOMAIN dataChain[b] /\ w = <<"data", b, k>>
        /\ TableOf(w) = t /\ t \in Ahead(w) /\ k \in Nat
        /\ \A u : u \in Ahead(w) <=> \E i \in DOMAIN dataChain[b] : i >= k /\ dataChain[b][i].table = u
    BY <1>1, <2>2, WorkTyped
  <2>4. /\ t \in Table /\ DOMAIN dataChain[b] = 1 .. Len(dataChain[b]) /\ Len(dataChain[b]) \in Nat
        /\ DOMAIN dataChain \subseteq Nat
    BY <1>1, <2>1, <2>3, DataBlockTyped
  <2>5. Len(dataChain[b]) <= MaxInBlock
    BY <2>3 DEF TypeOK
  <2> QED BY <2>2, <2>3, <2>4, <2>5
<1>3. /\ ~ down /\ tableChain' = tableChain /\ dataChain' = dataChain
      /\ torn' = torn /\ crossed' = crossed /\ restarts' = restarts
  BY DEF updateBucket, chains
<1>4. CASE bucket[t] = NoBucket
  <2>1. down' = TRUE /\ UNCHANGED <<chains, index, toDo, torn, crossed, restarts>>
    BY <1>1, <1>4 DEF updateBucket
  <2>2. \/ \E u \in torn : bucket[u] = NoBucket
        \/ \E v \in toDo : v[1] = "data" /\ TableOf(v) \notin known
    BY <1>2, <1>4 DEF KnownWorkedIn
  <2> QED BY <2>1, <2>2, EndKeeps
<1>5. CASE bucket[t] # NoBucket
  <2>1. /\ bucket' = [bucket EXCEPT ![t] = Extended(bucket[t], b)]
        /\ toDo' = (toDo \ {w}) \cup Following(w, dataChain[b])
        /\ known' = known /\ perm' = perm /\ down' = down
    BY <1>1, <1>5 DEF updateBucket
  <2>2. Following(w, dataChain[b]) = {<<"data", b, i>> : i \in {k + 1} \cap DOMAIN dataChain[b]}
    BY <1>1 DEF Following
  <2>3. \A v \in toDo' : \/ v \in toDo /\ v # w
                         \/ v = <<"data", b, k + 1>> /\ k + 1 \in DOMAIN dataChain[b]
    BY <2>1, <2>2
  <2>4. k + 1 \in DOMAIN dataChain[b] => <<"data", b, k + 1>> \in toDo'
    BY <2>1, <2>2
  <2>5. \A v \in toDo : v # w => v \in toDo'
    BY <2>1
  <2>6. \A v : Ahead(v)' = Ahead(v) /\ TableOf(v)' = TableOf(v)
    BY <1>3 DEF Ahead, TableOf
  <2>7. \A u : Blocks(u)' = Blocks(u) /\ Of(u)' = Of(u)
    BY <1>3 DEF Blocks
  <2>8. \A u : u \in Ahead(<<"data", b, k + 1>>) <=>
                 \E i \in DOMAIN dataChain[b] : i >= k + 1 /\ dataChain[b][i].table = u
    BY DEF Ahead
  <2>9. /\ bucket \in [Table -> {NoBucket} \cup Seq(DOMAIN dataChain)]
        /\ bucket[t] \in Seq(DOMAIN dataChain) /\ Extended(bucket[t], b) \in Seq(DOMAIN dataChain)
        /\ bucket'[t] = Extended(bucket[t], b) /\ bucket'[t] # NoBucket
        /\ \A u \in Table \ {t} : bucket'[u] = bucket[u]
    <3>1. bucket \in [Table -> {NoBucket} \cup Seq(DOMAIN dataChain)]
      BY DEF TypeOK
    <3>2. bucket[t] \in Seq(DOMAIN dataChain)
      BY <3>1, <1>2, <1>5
    <3>3. Extended(bucket[t], b) \in Seq(DOMAIN dataChain)
      BY <1>2, <3>2, ExtendedType
    <3>4. NoBucket \notin Seq(DOMAIN dataChain)
      <4> SUFFICES ASSUME NoBucket \in Seq(DOMAIN dataChain) PROVE FALSE
        OBVIOUS
      <4>1. NoBucket[1] = 0 /\ 1 \in 1 .. Len(NoBucket)
        BY DEF NoBucket
      <4>2. NoBucket[1] \in DOMAIN dataChain
        <5> HIDE DEF NoBucket
        <5> QED BY <4>1, ElementOfSeq
      <4>3. 0 \notin DOMAIN dataChain
        <5>1. dataChain \in Seq(Seq(DataTx))
          BY DEF TypeOK
        <5> QED BY <5>1, DataBlockTyped
      <4> QED BY <4>1, <4>2, <4>3
    <3> QED BY <3>1, <3>2, <3>3, <3>4, <2>1, <1>2
  <2>10. TypeOK'
    <3>1. bucket' \in [Table -> {NoBucket} \cup Seq(DOMAIN dataChain)]
      BY <2>1, <2>9, <1>2
    <3>2. k + 1 \in DOMAIN dataChain[b] => k + 1 \in 1 .. MaxInBlock
      BY <1>2
    <3>3. toDo' \subseteq ({"table"} \X (DOMAIN tableChain) \X {1}) \cup ({"data"} \X (DOMAIN dataChain) \X (1 .. MaxInBlock))
      BY <1>2, <2>3, <3>2 DEF TypeOK
    <3>4. \A v \in toDo' : v[1] = "data" => v[3] \in DOMAIN dataChain[v[2]]
      BY <2>3 DEF TypeOK
    <3> QED BY <1>3, <2>1, <3>1, <3>3, <3>4 DEF TypeOK
  <2>11. WorkedIn' = WorkedIn
    <3>1. ASSUME NEW i PROVE i \in WorkedIn' <=> i \in WorkedIn
      <4>1. \A v \in toDo' : v[1] = "table" => v \in toDo
        BY <2>3
      <4>2. \A v \in toDo : v[1] = "table" => v \in toDo'
        BY <1>2, <2>5
      <4> QED BY <1>3, <4>1, <4>2, Worked
    <3> QED BY <3>1
  <2>12. KnownWorkedIn'
    <3>1. known \subseteq Table
      BY DEF TypeOK
    <3> QED BY <3>1, <1>2, <1>3, <1>5, <2>1, <2>9, <2>11 DEF KnownWorkedIn
  <2>13. LastPending'
    <3> SUFFICES ASSUME NEW v \in toDo', NEW u \in Ahead(v) \ crossed
                 PROVE  /\ v[1] = "table" => \A i \in Of(u) : i <= v[2]
                        /\ v[1] = "data" => \A c \in Blocks(u) : c <= v[2]
      BY <1>3, <2>6, <2>7 DEF LastPending
    <3>1. CASE v \in toDo
      BY <3>1 DEF LastPending
    <3>2. CASE v = <<"data", b, k + 1>>
      <4>1. u \in Ahead(w) \ crossed
        BY <1>2, <2>8, <3>2
      <4>2. \A c \in Blocks(u) : c <= b
        BY <1>1, <1>2, <4>1 DEF LastPending
      <4> QED BY <3>2, <4>2
    <3> QED BY <2>3, <3>1, <3>2
  <2>14. LevelsWorkedIn'
    BY <1>3, <2>1, <2>11 DEF LevelsWorkedIn
  <2>15. ListedOrPending'
    <3> SUFFICES ASSUME NEW u \in Table \ (torn \cup crossed)
                 PROVE  /\ \A c \in Blocks(u) :
                             \/ bucket'[u] # NoBucket /\ c \in Listed(u)'
                             \/ \E v \in toDo' : v[1] = "data" /\ v[2] = c /\ u \in Ahead(v)
                        /\ bucket'[u] # NoBucket =>
                             /\ Listed(u)' \subseteq Blocks(u)
                             /\ \A i, j \in DOMAIN bucket'[u] : i < j => bucket'[u][i] < bucket'[u][j]
      BY <1>3, <2>6, <2>7 DEF ListedOrPending
    <3>1. CASE u = t
      <4>1. /\ Listed(t) \subseteq Blocks(t)
            /\ \A i, j \in DOMAIN bucket[t] : i < j => bucket[t][i] < bucket[t][j]
        BY <1>5, <3>1 DEF ListedOrPending
      <4>2. \A c \in Blocks(t) : c <= b
        BY <1>1, <1>2, <3>1 DEF LastPending
      <4>3. \A i \in DOMAIN bucket[t] : bucket[t][i] <= b
        BY <4>1, <4>2 DEF Listed
      <4>4. /\ Listed(t)' = Listed(t) \cup {b}
            /\ \A i, j \in DOMAIN bucket'[t] : i < j => bucket'[t][i] < bucket'[t][j]
        <5> DEFINE e == Extended(bucket[t], b)
        <5>1. /\ \A i \in DOMAIN e : e[i] = b \/ \E j \in DOMAIN bucket[t] : e[i] = bucket[t][j]
              /\ \A j \in DOMAIN bucket[t] : \E i \in DOMAIN e : e[i] = bucket[t][j]
              /\ \E i \in DOMAIN e : e[i] = b
              /\ \A i, j \in DOMAIN e : i < j => e[i] < e[j]
          <6>1. PICK r, S : r = bucket[t] /\ S = DOMAIN dataChain
            OBVIOUS
          <6>2. S \in SUBSET Nat /\ r \in Seq(S) /\ b \in S
            BY <1>2, <2>9, <6>1
          <6>3. \A i \in DOMAIN r : r[i] <= b
            BY <4>3, <6>1
          <6>4. \A i, j \in DOMAIN r : i < j => r[i] < r[j]
            BY <4>1, <6>1
          <6>5. /\ \A i \in DOMAIN Extended(r, b) : Extended(r, b)[i] = b \/ \E j \in DOMAIN r : Extended(r, b)[i] = r[j]
                /\ \A j \in DOMAIN r : \E i \in DOMAIN Extended(r, b) : Extended(r, b)[i] = r[j]
                /\ \E i \in DOMAIN Extended(r, b) : Extended(r, b)[i] = b
                /\ \A i, j \in DOMAIN Extended(r, b) : i < j => Extended(r, b)[i] < Extended(r, b)[j]
            BY <6>2, <6>3, <6>4, ExtendedBy
          <6> QED BY <6>1, <6>5
        <5> HIDE DEF e
        <5>2. bucket'[t] = e
          BY <2>9 DEF e
        <5> QED BY <5>1, <5>2 DEF Listed
      <4>5. b \in Blocks(t)
        BY <1>1, <1>2 DEF Blocks
      <4>6. ASSUME NEW c \in Blocks(t)
            PROVE  \/ c \in Listed(t)'
                   \/ \E v \in toDo' : v[1] = "data" /\ v[2] = c /\ t \in Ahead(v)
        <5>1. CASE c \in Listed(t)
          BY <4>4, <5>1
        <5>2. CASE \E v \in toDo : v[1] = "data" /\ v[2] = c /\ t \in Ahead(v)
          BY <1>1, <2>5, <4>4, <5>2
        <5> QED BY <3>1, <5>1, <5>2 DEF ListedOrPending
      <4> QED BY <2>9, <3>1, <4>1, <4>4, <4>5, <4>6
    <3>2. CASE u # t
      <4>1. bucket'[u] = bucket[u]
        BY <2>9, <3>2
      <4>2. Listed(u)' = Listed(u)
        BY <4>1 DEF Listed
      <4>3. ASSUME NEW v \in toDo, v[1] = "data", u \in Ahead(v)
            PROVE  \E x \in toDo' : x[1] = "data" /\ x[2] = v[2] /\ u \in Ahead(x)
        <5>1. CASE v # w
          BY <4>3, <5>1, <2>5
        <5>2. CASE v = w
          <6>1. PICK i \in DOMAIN dataChain[b] : i >= k /\ dataChain[b][i].table = u
            BY <1>2, <4>3, <5>2
          <6>2. i # k
            BY <1>1, <3>2, <6>1
          <6>3. i >= k + 1 /\ k + 1 \in DOMAIN dataChain[b]
            BY <1>2, <6>1, <6>2
          <6>4. u \in Ahead(<<"data", b, k + 1>>)
            BY <2>8, <6>1, <6>3
          <6> QED BY <1>1, <2>4, <5>2, <6>3, <6>4
        <5> QED BY <5>1, <5>2
      <4> QED BY <4>1, <4>2, <4>3 DEF ListedOrPending
    <3> QED BY <3>1, <3>2
  <2>16. EndExplained'
    BY <1>3, <2>1 DEF EndExplained
  <2>17. LevelsGranted'
    BY <1>3, <2>1, <2>11 DEF LevelsGranted
  <2> QED BY <2>10, <2>12, <2>13, <2>14, <2>15, <2>16, <2>17
<1> QED BY <1>4, <1>5

\* A start keeps it: tableInfo.init goes back through the chain.
LEMMA RestartIndexKeeps ==
  ASSUME IndexInv, RestartIndex
  PROVE  IndexInv'
<1> USE DEF IndexInv
<1>1. /\ restarts < MaxRestarts /\ restarts' = restarts + 1 /\ toDo' = {} /\ torn' = torn \cup Dropped
      /\ ~ down' /\ down' \in BOOLEAN /\ crossed' = crossed
      /\ known' = {t \in Table : Of(t) # {}} /\ perm' = [t \in Table |-> Newest(t)]
      /\ bucket' = bucket /\ tableChain' = tableChain /\ dataChain' = dataChain
  BY DEF RestartIndex, Reload, chains
<1>2. tableChain \in Seq(TableTx) /\ restarts \in 0 .. MaxRestarts
  BY DEF TypeOK
<1>3. WorkedIn' = DOMAIN tableChain /\ WorkedIn \subseteq DOMAIN tableChain
  <2>1. \A i : i \in WorkedIn' <=> i \in DOMAIN tableChain
    BY <1>1, Worked
  <2> QED BY <2>1, Worked
<1>4. \A t : Blocks(t)' = Blocks(t) /\ Listed(t)' = Listed(t) /\ OfIn(tableChain, t) \subseteq DOMAIN tableChain
  BY <1>1 DEF Blocks, Listed, OfIn
<1>5. TypeOK'
  <2>1. perm' \in [Table -> Grants]
    <3>1. ASSUME NEW t \in Table PROVE Newest(t) \in Grants
      <4>1. CASE Of(t) = {}
        BY <4>1 DEF Newest, Nobody, Grants
      <4>2. CASE Of(t) # {}
        <5>1. \E i \in Of(t) : Newest(t) = tableChain[i].grants
          BY <1>2, <1>4, <4>2, NewestBlock DEF Newest
        <5> QED BY <1>2, <1>4, <5>1, TableBlockTyped
      <4> QED BY <4>1, <4>2
    <3> QED BY <1>1, <3>1
  <2>2. restarts' \in 0 .. MaxRestarts
    BY <1>1, <1>2
  <2>3. torn' \subseteq Table
    BY <1>1 DEF TypeOK, Dropped
  <2> QED BY <1>1, <2>1, <2>2, <2>3 DEF TypeOK
<1>6. ASSUME NEW t \in Table, Of(t) # {}, t \notin known PROVE t \in Dropped
  <2>1. PICK i \in Of(t) : i \notin WorkedIn
    BY <1>6 DEF KnownWorkedIn
  <2>2. PICK w \in toDo : w[1] = "table" /\ w[2] = i
    BY <1>4, <2>1, Worked
  <2>3. t \in Ahead(w)
    BY <2>1, <2>2, WorkTyped DEF OfIn
  <2> QED BY <2>2, <2>3 DEF Dropped, Pending
<1>7. KnownWorkedIn'
  <2>1. \A t \in Table : t \in known' <=> Of(t)' \cap WorkedIn' # {}
    BY <1>1, <1>3, <1>4
  <2>2. \A t \in Table : bucket'[t] # NoBucket => t \in known'
    BY <1>1 DEF KnownWorkedIn
  <2>3. \A t \in known' : bucket'[t] = NoBucket => t \in torn'
    BY <1>1, <1>6 DEF KnownWorkedIn
  <2> QED BY <2>1, <2>2, <2>3 DEF KnownWorkedIn
<1>8. LastPending'
  BY <1>1 DEF LastPending
<1>9. LevelsWorkedIn'
  <2> SUFFICES ASSUME NEW t \in Table, NEW a \in Account
               PROVE  /\ perm'[t][a] \in {Merged(t, WorkedIn)'[a], 0}
                      /\ restarts' # 0
                      /\ \A i \in Of(t)' \cap WorkedIn' :
                          (\A j \in Of(t)' \cap WorkedIn' : j <= i) /\ tableChain'[i].grants[a] # 0
                              => perm'[t][a] = tableChain'[i].grants[a]
    BY DEF LevelsWorkedIn
  <2>1. perm'[t] = Newest(t) /\ Of(t)' \cap WorkedIn' = Of(t)
    BY <1>1, <1>3, <1>4
  <2>2. Merged(t, WorkedIn)' = Merged(t, DOMAIN tableChain)
    BY <1>1, <1>3
  <2>3. restarts' # 0
    BY <1>1, <1>2
  <2>4. /\ Newest(t)[a] \in {Merged(t, DOMAIN tableChain)[a], 0}
        /\ \A i \in Of(t) : (\A j \in Of(t) : j <= i) => Newest(t) = tableChain[i].grants
    BY <1>2, NewestMerged
  <2> QED BY <1>1, <2>1, <2>2, <2>3, <2>4
<1>10. ListedOrPending'
  <2> SUFFICES ASSUME NEW t \in Table, t \notin torn', t \notin crossed'
               PROVE  /\ \A b \in Blocks(t) : bucket[t] # NoBucket /\ b \in Listed(t)
                      /\ bucket[t] # NoBucket =>
                           /\ Listed(t) \subseteq Blocks(t)
                           /\ \A i, j \in DOMAIN bucket[t] : i < j => bucket[t][i] < bucket[t][j]
    BY <1>1, <1>4 DEF ListedOrPending
  <2>1. t \notin torn /\ t \notin crossed /\ \A w \in toDo : t \notin Ahead(w)
    BY <1>1 DEF Dropped, Pending
  <2> QED BY <2>1 DEF ListedOrPending
<1>11. EndExplained'
  BY <1>1 DEF EndExplained
<1>12. LevelsGranted'
  <2> SUFFICES ASSUME NEW t \in Table, NEW a \in Account, Newest(t)[a] # 0
               PROVE  \E i \in Of(t) : tableChain[i].grants[a] = Newest(t)[a]
    BY <1>1, <1>3, <1>4 DEF LevelsGranted
  <2>1. Of(t) # {}
    BY <1>2, NewestMerged DEF Nobody
  <2>2. PICK i \in Of(t) : \A j \in Of(t) : j <= i
    <3>1. Of(t) \in SUBSET DOMAIN tableChain
      BY <1>4
    <3> QED BY <1>2, <2>1, <3>1, NewestBlock
  <2> QED BY <1>2, <2>2, NewestMerged
<1> QED BY <1>5, <1>7, <1>8, <1>9, <1>10, <1>11, <1>12

\* The empty index has it.
LEMMA InitIndexHolds ==
  ASSUME InitIndex PROVE IndexInv
<1> USE DEF InitIndex
<1>1. TypeOK
  <2>1. <<>> \in Seq(TableTx) /\ <<>> \in Seq(Seq(DataTx)) /\ Len(<<>>) = 0
    BY EmptySeq
  <2>2. [t \in Table |-> Nobody] \in [Table -> Grants]
    BY DEF Nobody, Grants
  <2>3. \A b \in DOMAIN dataChain : Len(dataChain[b]) <= MaxInBlock
    OBVIOUS
  <2>4. bucket \in [Table -> {NoBucket} \cup Seq(DOMAIN dataChain)]
    OBVIOUS
  <2>5. 0 <= MaxTableBlocks /\ 0 <= MaxDataBlocks /\ 0 \in 0 .. MaxRestarts
    OBVIOUS
  <2> QED BY <2>1, <2>2, <2>3, <2>4, <2>5 DEF TypeOK
<1>2. DOMAIN tableChain = {} /\ DOMAIN dataChain = {} /\ \A t : Of(t) = {} /\ Blocks(t) = {}
  BY DEF OfIn, Blocks
<1>3. KnownWorkedIn /\ LastPending /\ ListedOrPending /\ EndExplained
  BY <1>2 DEF KnownWorkedIn, LastPending, ListedOrPending, EndExplained
<1>4. LevelsWorkedIn
  <2>1. ASSUME NEW t \in Table, NEW a \in Account PROVE Merged(t, WorkedIn)[a] = 0 /\ perm[t][a] = 0
    BY <1>2 DEF MergedIn, Nobody
  <2> QED BY <1>2, <2>1 DEF LevelsWorkedIn
<1>5. LevelsGranted
  BY DEF LevelsGranted, Nobody
<1> QED BY <1>1, <1>3, <1>4, <1>5 DEF IndexInv

-----------------------------------------------------------------------------
(* The steps of the front end.                                                 *)

\* A handler without a command has no request.
LEMMA FreeIsNoRequest == Free \notin Request
<1>1. \A r \in Request : r \in [commands : SUBSET {Commands[i] : i \in DOMAIN Commands},
                       uid : Account \X Password, table : Table, grants : Grants, key : Key]
  BY RequestAssumption
<1>2. \A r \in Request : "uid" \in DOMAIN r
  BY <1>1
<1>3. "uid" \notin DOMAIN Free
  BY DEF Free
<1> QED BY <1>2, <1>3

\* What a request names, and which commands it has (Exec.Cmd).
LEMMA RequestTyped ==
  ASSUME FrontInv, NEW h \in Handler, cmd[h] # 0
  PROVE  /\ job[h] \in Request /\ job[h].uid \in Account \X Password
         /\ Who(h) \in Account /\ job[h].uid[2] \in Password
         /\ job[h].table \in Table /\ job[h].grants \in Grants /\ job[h].key \in Key
<1>1. job[h] \in Request
  BY DEF FrontInv, FrontTypeOK, HandlersAtWork, AtWork
<1>2. job[h] \in [commands : SUBSET {Commands[i] : i \in DOMAIN Commands},
                       uid : Account \X Password, table : Table, grants : Grants, key : Key]
  BY <1>1, RequestAssumption
<1> QED BY <1>1, <1>2 DEF Who

\* A handler at a command is not free and past no step of another one.
LEMMA WhereAt ==
  ASSUME NEW h \in Handler, NEW c, NEW s, At(h, c, s)
  PROVE  /\ ~ down /\ step[h] = s /\ cmd[h] \in 1 .. 6 /\ cmd[h] # 0
         /\ c = "login" => cmd[h] = 1
         /\ c = "register" => cmd[h] = 2
         /\ c = "logout" => cmd[h] = 3
         /\ c = "table" => cmd[h] = 4
         /\ c = "put" => cmd[h] = 5
         /\ c = "get" => cmd[h] = 6
BY DEF At, Commands

\* What was enough stays enough while the chain grows.
LEMMA LevelsStay ==
  ASSUME tableChain \in Seq(TableTx), crossed \subseteq crossed',
         tableChain' = tableChain \/ \E tx \in TableTx : tableChain' = Append(tableChain, tx)
  PROVE  /\ DOMAIN tableChain \subseteq DOMAIN tableChain'
         /\ \A a, t, n : \A S \in SUBSET DOMAIN tableChain : HadLevel(a, t, S, n) => HadLevel(a, t, S, n)'
         /\ \A a, t : \A S \in SUBSET DOMAIN tableChain : MayTable(a, t, S) => MayTable(a, t, S)'
         /\ \A tx : TableTxOK(tx) => TableTxOK(tx)'
         /\ \A tx : DataTxOK(tx) => DataTxOK(tx)'
<1>1. /\ DOMAIN tableChain \subseteq DOMAIN tableChain'
      /\ \A t : \A S \in SUBSET DOMAIN tableChain : OfIn(tableChain', t) \cap S = OfIn(tableChain, t) \cap S
      /\ \A t : \A S \in SUBSET DOMAIN tableChain : MergedIn(tableChain', t, S) = MergedIn(tableChain, t, S)
  <2>1. CASE tableChain' = tableChain
    BY <2>1
  <2>2. CASE \E tx \in TableTx : tableChain' = Append(tableChain, tx)
    <3>1. PICK tx \in TableTx : tableChain' = Append(tableChain, tx)
      BY <2>2
    <3>2. DOMAIN tableChain \subseteq DOMAIN tableChain'
      BY <3>1, Appended
    <3>3. ASSUME NEW t
          PROVE  /\ \A S \in SUBSET DOMAIN tableChain : OfIn(tableChain', t) \cap S = OfIn(tableChain, t) \cap S
                 /\ \A S \in SUBSET DOMAIN tableChain : MergedIn(tableChain', t, S) = MergedIn(tableChain, t, S)
      BY <3>1, KeptByAppend
    <3> QED BY <3>2, <3>3
  <2> QED BY <2>1, <2>2
<1>2. \A a, t, n : \A S \in SUBSET DOMAIN tableChain : HadLevel(a, t, S, n) => HadLevel(a, t, S, n)'
  <2>1. \A i \in DOMAIN tableChain : tableChain'[i] = tableChain[i]
    BY Appended
  <2> SUFFICES ASSUME NEW a, NEW t, NEW n, NEW S \in SUBSET DOMAIN tableChain, HadLevel(a, t, S, n)
               PROVE  HadLevel(a, t, S, n)'
    OBVIOUS
  <2>2. PICK i \in Of(t) \cap S : tableChain[i].grants[a] >= n
    BY DEF HadLevel
  <2>3. i \in Of(t)' \cap S /\ tableChain'[i].grants[a] >= n
    BY <1>1, <2>1, <2>2
  <2>4. t \notin crossed' => Merged(t, S)'[a] >= n
    BY <1>1 DEF HadLevel
  <2> QED BY <2>3, <2>4 DEF HadLevel
<1>3. \A a, t : \A S \in SUBSET DOMAIN tableChain : MayTable(a, t, S) => MayTable(a, t, S)'
  BY <1>1, <1>2 DEF MayTable
<1>4. \A tx : TableTxOK(tx) => TableTxOK(tx)'
  BY <1>1, <1>3 DEF TableTxOK
<1>5. \A tx : DataTxOK(tx) => DataTxOK(tx)'
  BY <1>1, <1>2 DEF DataTxOK
<1> QED BY <1>1, <1>2, <1>3, <1>4, <1>5

\* A handler that is left alone stays where it was.
LEMMA LeftAlone ==
  ASSUME IInv, NEW g \in Handler, crossed \subseteq crossed', known \subseteq known',
         tableChain' = tableChain \/ \E tx \in TableTx : tableChain' = Append(tableChain, tx),
         job'[g] = job[g], cmd'[g] = cmd[g], step'[g] = step[g], base'[g] = base[g]
  PROVE  AtWork(g)' /\ CheckedAt(g)'
<1>1. AtWork(g) /\ CheckedAt(g) /\ tableChain \in Seq(TableTx)
  BY DEF IInv, IndexInv, FrontInv, HandlersAtWork, Checked, TypeOK
<1>2. DOMAIN tableChain \subseteq DOMAIN tableChain'
  BY <1>1, LevelsStay
<1>3. PICK a, t, S : a = Who(g) /\ t = job[g].table /\ S = base[g]
  OBVIOUS
<1>4. Who(g)' = a /\ job'[g].table = t /\ base'[g] = S /\ S \subseteq DOMAIN tableChain
  BY <1>1, <1>3 DEF Who, AtWork
<1>5. /\ HadLevel(a, t, S, 3) => HadLevel(a, t, S, 3)'
      /\ MayTable(a, t, S) => MayTable(a, t, S)'
  BY <1>1, <1>4, LevelsStay
<1>6. AtWork(g)'
  BY <1>1, <1>2 DEF AtWork
<1>7. CheckedAt(g)'
  <2> SUFFICES ASSUME step[g] = "submit"
               PROVE  /\ cmd[g] = 4 => MayTable(Who(g), job[g].table, base[g])'
                      /\ cmd[g] = 5 => HadLevel(Who(g), job[g].table, base[g], 3)'
                      /\ cmd[g] = 6 => t \in known'
    BY <1>4 DEF CheckedAt
  <2>1. /\ cmd[g] = 4 => MayTable(a, t, S)
        /\ cmd[g] = 5 => HadLevel(a, t, S, 3)
        /\ cmd[g] = 6 => t \in known
    BY <1>1, <1>3 DEF CheckedAt
  <2>2. MayTable(a, t, S)' = MayTable(Who(g), job[g].table, base[g])'
    BY <1>4 DEF MayTable, HadLevel
  <2>3. HadLevel(a, t, S, 3)' = HadLevel(Who(g), job[g].table, base[g], 3)'
    BY <1>4 DEF HadLevel
  <2> QED BY <1>5, <2>1, <2>2, <2>3
<1> QED BY <1>6, <1>7

\* The types of what the handlers keep.
HandlerTypes ==
    /\ left \subseteq Request /\ job \in [Handler -> Request \cup {Free}]
    /\ cmd \in [Handler -> 0 .. 7]
    /\ step \in [Handler -> {"start", "write", "check", "submit"}]
    /\ base \in [Handler -> SUBSET (1 .. MaxTableBlocks)]

\* The types of one handler, of all of them.
LEMMA HandlersTyped == ASSUME FrontTypeOK PROVE HandlerTypes
BY DEF FrontTypeOK, HandlerTypes, Commands

\* The handler has done with its command.
LEMMA OverKeeps ==
  ASSUME IInv, NEW h \in Handler, cmd[h] \in 1 .. 6, Over(h),
         UNCHANGED <<tableChain, crossed, known>>,
         base' \in [Handler -> SUBSET (1 .. MaxTableBlocks)], base'[h] \subseteq DOMAIN tableChain,
         \A g \in Handler \ {h} : base'[g] = base[g]
  PROVE  /\ HandlersAtWork' /\ Checked' /\ HandlerTypes' /\ job' = job
         /\ step'[h] = "start" /\ \A g \in Handler \ {h} : step'[g] = step[g]
<1>1. HandlerTypes
  BY HandlersTyped DEF IInv, FrontInv
<1>2. /\ cmd' = [cmd EXCEPT ![h] = After(job[h], cmd[h])] /\ After(job[h], cmd[h]) \in 1 .. 7
      /\ step' = [step EXCEPT ![h] = "start"] /\ job' = job /\ left' = left
  BY AfterType DEF Over
<1>3. HandlerTypes'
  BY <1>1, <1>2 DEF HandlerTypes
<1>4. /\ cmd'[h] \in 1 .. 7 /\ step'[h] = "start" /\ job'[h] = job[h]
      /\ \A g \in Handler \ {h} : cmd'[g] = cmd[g] /\ step'[g] = step[g]
  BY <1>1, <1>2 DEF HandlerTypes
<1>5. \A g \in Handler \ {h} : AtWork(g)' /\ CheckedAt(g)'
  BY <1>2, <1>4, LeftAlone
<1>6. AtWork(h)' /\ CheckedAt(h)'
  <2>1. job[h] # Free
    BY DEF IInv, FrontInv, HandlersAtWork, AtWork
  <2> QED BY <1>4, <2>1 DEF AtWork, CheckedAt
<1> QED BY <1>2, <1>3, <1>4, <1>5, <1>6 DEF HandlersAtWork, Checked

\* The handler goes on to the next step of its command.
LEMMA ThenKeeps ==
  ASSUME IInv, NEW h \in Handler, cmd[h] \in 1 .. 6, NEW s \in {"write", "check", "submit"}, Then(h, s),
         UNCHANGED <<tableChain, crossed, known>>,
         base' \in [Handler -> SUBSET (1 .. MaxTableBlocks)], base'[h] \subseteq DOMAIN tableChain,
         \A g \in Handler \ {h} : base'[g] = base[g],
         s = "write" => cmd[h] = 2, s \in {"check", "submit"} => cmd[h] \in {4, 5, 6},
         s = "submit" => /\ cmd[h] = 4 => MayTable(Who(h), job[h].table, base'[h])
                         /\ cmd[h] = 5 => HadLevel(Who(h), job[h].table, base'[h], 3)
                         /\ cmd[h] = 6 => job[h].table \in known
  PROVE  /\ HandlersAtWork' /\ Checked' /\ HandlerTypes' /\ job' = job
         /\ step'[h] = s /\ \A g \in Handler \ {h} : step'[g] = step[g]
<1>1. HandlerTypes
  BY HandlersTyped DEF IInv, FrontInv
<1>2. step' = [step EXCEPT ![h] = s] /\ job' = job /\ left' = left /\ cmd' = cmd
  BY DEF Then
<1>3. HandlerTypes'
  BY <1>1, <1>2 DEF HandlerTypes
<1>4. /\ cmd'[h] = cmd[h] /\ step'[h] = s /\ job'[h] = job[h]
      /\ \A g \in Handler \ {h} : cmd'[g] = cmd[g] /\ step'[g] = step[g]
  BY <1>1, <1>2 DEF HandlerTypes
<1>5. \A g \in Handler \ {h} : AtWork(g)' /\ CheckedAt(g)'
  BY <1>2, <1>4, LeftAlone
<1>6. AtWork(h)'
  <2>1. job[h] # Free
    BY DEF IInv, FrontInv, HandlersAtWork, AtWork
  <2> QED BY <1>4, <2>1 DEF AtWork
<1>7. CheckedAt(h)'
  BY <1>4 DEF CheckedAt, Who, MayTable, HadLevel
<1> QED BY <1>2, <1>3, <1>4, <1>5, <1>6, <1>7 DEF HandlersAtWork, Checked

\* No handler comes to write a file, and none of those that do is disturbed.
LEMMA WritersStay ==
  ASSUME OneWriter, \A g \in Handler : step'[g] = "write" => step[g] = "write" /\ Who(g)' = Who(g),
         writing' = writing, file' = file
  PROVE  OneWriter'
BY DEF OneWriter

\* Nothing comes to the pools or the chains.
LEMMA GrantsStay ==
  ASSUME IInv, UNCHANGED <<tableChain, dataChain, crossed>>, submitted' = submitted
  PROVE  Granted'
<1>1. tableChain \in Seq(TableTx) /\ Granted
  BY DEF IInv, IndexInv, FrontInv, TypeOK
<1>2. TableTxs' = TableTxs /\ DataTxs' = DataTxs
  BY DEF TableTxs, DataTxs
<1>3. (\A tx : TableTxOK(tx) => TableTxOK(tx)') /\ (\A tx : DataTxOK(tx) => DataTxOK(tx)')
  BY <1>1, LevelsStay
<1> QED BY <1>1, <1>2, <1>3 DEF Granted

\* The type invariant, from the types of its parts.
LEMMA FrontTypes ==
  ASSUME TypeOK', HandlerTypes', file' \in [Account -> Password \cup {NoFile, Broken}],
         writing' \subseteq Account, signedIn' \subseteq Account \X Password,
         submitted' \subseteq TableTx \cup DataTx
  PROVE  FrontTypeOK'
BY DEF FrontTypeOK, HandlerTypes, Commands

\* The steps of the index, and those that leave it alone.
LEMMA IndexSame ==
  ASSUME IInv, UNCHANGED indexVars
  PROVE  /\ IndexInv' /\ TypeOK'
         /\ UNCHANGED <<tableChain, dataChain, known, crossed>>
<1>1. UNCHANGED <<chains, index, toDo, torn, crossed, restarts>> /\ down' = down
  BY DEF indexVars
<1>2. IndexInv /\ down \in BOOLEAN
  BY DEF IInv, IndexInv, TypeOK
<1>3. IndexInv'
  BY <1>1, <1>2, EndKeeps
<1> QED BY <1>1, <1>3 DEF IndexInv, chains, index

\* What the invariant says of the state before a step.
LEMMA Before ==
  ASSUME IInv
  PROVE  /\ IndexInv /\ FrontTypeOK /\ HandlerTypes /\ HandlersAtWork /\ OneWriter /\ Checked /\ Granted
         /\ TypeOK /\ file \in [Account -> Password \cup {NoFile, Broken}]
         /\ writing \subseteq Account /\ signedIn \subseteq Account \X Password
         /\ submitted \subseteq TableTx \cup DataTx /\ tableChain \in Seq(TableTx)
BY HandlersTyped DEF IInv, FrontInv, IndexInv, FrontTypeOK, TypeOK

\* One lemma for each step of a handler of the front end: it keeps the whole invariant.
\* A command comes in (Exec.Cmd) ...
LEMMA CmdKeeps ==
  ASSUME IInv, NEW h \in Handler, NEW r \in left, Cmd(h, r)
  PROVE  IInv'
<1> USE Before
<1>1. IndexInv' /\ TypeOK' /\ UNCHANGED <<tableChain, dataChain, known, crossed>>
  BY IndexSame DEF Cmd
<1>2. /\ job[h] = Free /\ r \in Request /\ After(r, 0) \in 1 .. 7
      /\ left' = left \ {r} /\ job' = [job EXCEPT ![h] = r] /\ cmd' = [cmd EXCEPT ![h] = After(r, 0)]
      /\ step' = step /\ base' = base /\ submitted' = submitted
      /\ file' = file /\ writing' = writing /\ signedIn' = signedIn
  BY AfterType DEF Cmd, sessions, HandlerTypes
<1>3. /\ cmd'[h] \in 1 .. 7 /\ job'[h] = r
      /\ \A g \in Handler \ {h} : job'[g] = job[g] /\ cmd'[g] = cmd[g]
  BY <1>2 DEF HandlerTypes
<1>4. HandlerTypes'
  BY <1>2 DEF HandlerTypes
<1>5. \A g \in Handler \ {h} : AtWork(g)' /\ CheckedAt(g)'
  BY <1>1, <1>2, <1>3, LeftAlone
<1>6. step[h] = "start"
  <2>1. cmd[h] = 0
    BY <1>2 DEF HandlersAtWork, AtWork
  <2>2. step[h] \in {"start", "write", "check", "submit"}
    BY DEF HandlerTypes
  <2> QED BY <2>1, <2>2 DEF HandlersAtWork, AtWork
<1>7. AtWork(h)' /\ CheckedAt(h)'
  BY <1>1, <1>2, <1>3, <1>6, FreeIsNoRequest DEF AtWork, CheckedAt, HandlersAtWork
<1>8. OneWriter'
  BY <1>2, <1>3, <1>6, WritersStay DEF Who
<1> QED BY <1>1, <1>2, <1>4, <1>5, <1>7, <1>8, GrantsStay, FrontTypes
        DEF IInv, FrontInv, HandlersAtWork, Checked

\* ... and is answered.
LEMMA ReplyKeeps ==
  ASSUME IInv, NEW h \in Handler, Reply(h)
  PROVE  IInv'
<1> USE Before
<1>1. IndexInv' /\ TypeOK' /\ UNCHANGED <<tableChain, dataChain, known, crossed>>
  BY IndexSame DEF Reply
<1>2. /\ cmd[h] = 7 /\ left' = left /\ job' = [job EXCEPT ![h] = Free] /\ cmd' = [cmd EXCEPT ![h] = 0]
      /\ step' = step /\ base' = [base EXCEPT ![h] = {}] /\ submitted' = submitted
      /\ file' = file /\ writing' = writing /\ signedIn' = signedIn
  BY DEF Reply, sessions, Commands
<1>3. /\ cmd'[h] = 0 /\ job'[h] = Free /\ base'[h] = {}
      /\ \A g \in Handler \ {h} : job'[g] = job[g] /\ cmd'[g] = cmd[g] /\ base'[g] = base[g]
  BY <1>2 DEF HandlerTypes
<1>4. HandlerTypes'
  BY <1>2 DEF HandlerTypes
<1>5. \A g \in Handler \ {h} : AtWork(g)' /\ CheckedAt(g)'
  BY <1>1, <1>2, <1>3, LeftAlone
<1>6. step[h] = "start"
  <2>1. step[h] \in {"start", "write", "check", "submit"}
    BY DEF HandlerTypes
  <2> QED BY <1>2, <2>1 DEF HandlersAtWork, AtWork
<1>7. AtWork(h)' /\ CheckedAt(h)'
  BY <1>2, <1>3, <1>6 DEF AtWork, CheckedAt
<1>8. OneWriter'
  BY <1>2, <1>3, <1>6, WritersStay DEF Who
<1> QED BY <1>1, <1>2, <1>4, <1>5, <1>7, <1>8, GrantsStay, FrontTypes
        DEF IInv, FrontInv, HandlersAtWork, Checked

\* The commands of one step: SignIn and SignOut.
LEMMA SignKeeps ==
  ASSUME IInv, NEW h \in Handler, SignIn(h) \/ SignOut(h)
  PROVE  IInv'
<1> USE Before
<1>1. /\ UNCHANGED indexVars /\ Over(h) /\ cmd[h] \in 1 .. 6 /\ file' = file /\ writing' = writing
      /\ base' = base /\ submitted' = submitted
  BY WhereAt DEF SignIn, SignOut
<1>2. IndexInv' /\ TypeOK' /\ UNCHANGED <<tableChain, dataChain, known, crossed>>
  BY <1>1, IndexSame
<1>3. base \in [Handler -> SUBSET (1 .. MaxTableBlocks)] /\ base[h] \subseteq DOMAIN tableChain
  BY DEF HandlerTypes, HandlersAtWork, AtWork
<1>4. /\ HandlersAtWork' /\ Checked' /\ HandlerTypes' /\ job' = job
      /\ step'[h] = "start" /\ \A g \in Handler \ {h} : step'[g] = step[g]
  BY <1>1, <1>2, <1>3, OverKeeps
<1>5. OneWriter'
  BY <1>1, <1>4, WritersStay DEF Who
<1>6. signedIn' \subseteq Account \X Password
  <2>1. job[h].uid \in Account \X Password
    BY <1>1, RequestTyped DEF IInv
  <2> QED BY <2>1 DEF SignIn, SignOut
<1> QED BY <1>1, <1>2, <1>4, <1>5, <1>6, GrantsStay, FrontTypes DEF IInv, FrontInv

\* Register creates the file of a name that is not taken, and takes the lock.
LEMMA RegisterKeeps ==
  ASSUME IInv, NEW h \in Handler, Register(h)
  PROVE  IInv'
<1> USE Before
<1>1. /\ UNCHANGED indexVars /\ cmd[h] = 2 /\ writing = {} /\ signedIn' = signedIn
      /\ base' = base /\ submitted' = submitted /\ cmd[h] \in 1 .. 6
  BY WhereAt DEF Register, None
<1>2. IndexInv' /\ TypeOK' /\ UNCHANGED <<tableChain, dataChain, known, crossed>>
  BY <1>1, IndexSame
<1>3. base \in [Handler -> SUBSET (1 .. MaxTableBlocks)] /\ base[h] \subseteq DOMAIN tableChain
  BY DEF HandlerTypes, HandlersAtWork, AtWork
<1>4. \A g \in Handler : step[g] # "write"
  BY <1>1 DEF OneWriter
<1>5. CASE Taken(Who(h))
  <2>1. Over(h) /\ file' = file /\ writing' = writing
    BY <1>5 DEF Register
  <2>2. /\ HandlersAtWork' /\ Checked' /\ HandlerTypes' /\ job' = job
        /\ step'[h] = "start" /\ \A g \in Handler \ {h} : step'[g] = step[g]
    BY <1>1, <1>2, <1>3, <2>1, OverKeeps
  <2>3. OneWriter'
    BY <2>1, <2>2, WritersStay DEF Who
  <2> QED BY <1>1, <1>2, <2>1, <2>2, <2>3, GrantsStay, FrontTypes DEF IInv, FrontInv
<1>6. CASE ~ Taken(Who(h))
  <2>1. Then(h, "write") /\ writing' = {Who(h)} /\ file' = [file EXCEPT ![Who(h)] = Broken]
    BY <1>6 DEF Register
  <2>2. /\ HandlersAtWork' /\ Checked' /\ HandlerTypes' /\ job' = job
        /\ step'[h] = "write" /\ \A g \in Handler \ {h} : step'[g] = step[g]
    BY <1>1, <1>2, <1>3, <2>1, ThenKeeps
  <2>3. Who(h) \in Account
    BY <1>1, RequestTyped DEF IInv
  <2>4. OneWriter'
    BY <1>4, <2>1, <2>2, <2>3 DEF OneWriter, Who
  <2> QED BY <1>1, <1>2, <2>1, <2>2, <2>3, <2>4, GrantsStay, FrontTypes DEF IInv, FrontInv
<1> QED BY <1>5, <1>6

\* saveAccount2File ends the file that Register began.
LEMMA SaveAccount2FileKeeps ==
  ASSUME IInv, NEW h \in Handler, SaveAccount2File(h)
  PROVE  IInv'
<1> USE Before
<1>1. /\ UNCHANGED indexVars /\ cmd[h] \in 1 .. 6 /\ step[h] = "write" /\ signedIn' = signedIn
      /\ base' = base /\ submitted' = submitted /\ Over(h)
      /\ file' = [file EXCEPT ![Who(h)] = job[h].uid[2]] /\ writing' = {}
  BY WhereAt DEF SaveAccount2File, None
<1>2. IndexInv' /\ TypeOK' /\ UNCHANGED <<tableChain, dataChain, known, crossed>>
  BY <1>1, IndexSame
<1>3. base \in [Handler -> SUBSET (1 .. MaxTableBlocks)] /\ base[h] \subseteq DOMAIN tableChain
  BY DEF HandlerTypes, HandlersAtWork, AtWork
<1>4. \A g \in Handler : step[g] = "write" => g = h
  BY <1>1 DEF OneWriter
<1>5. /\ HandlersAtWork' /\ Checked' /\ HandlerTypes' /\ job' = job
      /\ step'[h] = "start" /\ \A g \in Handler \ {h} : step'[g] = step[g]
  BY <1>1, <1>2, <1>3, OverKeeps
<1>6. OneWriter'
  BY <1>4, <1>5 DEF OneWriter
<1>7. file' \in [Account -> Password \cup {NoFile, Broken}]
  BY <1>1, RequestTyped DEF IInv
<1> QED BY <1>1, <1>2, <1>5, <1>6, <1>7, GrantsStay, FrontTypes DEF IInv, FrontInv

\* ViewAccount and the other commands that only read.
LEMMA ViewKeeps ==
  ASSUME IInv, NEW h \in Handler, NEW c \in {"table", "put", "get"}, View(h, c)
  PROVE  IInv'
<1> USE Before
<1>1. /\ UNCHANGED indexVars /\ cmd[h] \in 1 .. 6 /\ cmd[h] \in {4, 5, 6} /\ base' = base /\ submitted' = submitted
      /\ file' = file /\ writing' = writing /\ signedIn' = signedIn
      /\ Then(h, "check") \/ Over(h)
  BY WhereAt DEF View, sessions
<1>2. IndexInv' /\ TypeOK' /\ UNCHANGED <<tableChain, dataChain, known, crossed>>
  BY <1>1, IndexSame
<1>3. base \in [Handler -> SUBSET (1 .. MaxTableBlocks)] /\ base[h] \subseteq DOMAIN tableChain
  BY DEF HandlerTypes, HandlersAtWork, AtWork
<1>4. /\ HandlersAtWork' /\ Checked' /\ HandlerTypes' /\ job' = job
      /\ step'[h] # "write" /\ \A g \in Handler \ {h} : step'[g] = step[g]
  <2>1. CASE Then(h, "check")
    BY <1>1, <1>2, <1>3, <2>1, ThenKeeps
  <2>2. CASE Over(h)
    BY <1>1, <1>2, <1>3, <2>2, OverKeeps
  <2> QED BY <1>1, <2>1, <2>2
<1>5. OneWriter'
  BY <1>1, <1>4, WritersStay DEF Who
<1> QED BY <1>1, <1>2, <1>4, <1>5, GrantsStay, FrontTypes DEF IInv, FrontInv

\* What checkPermission answers, over the blocks worked in.
LEMMA LookedUp ==
  ASSUME IndexInv, NEW t \in Table, NEW a \in Account
  PROVE  /\ NoSuchTable(t) => Of(t) \cap WorkedIn = {}
         /\ \A n \in {3, 4} : Permission(a, t) >= n => HadLevel(a, t, WorkedIn, n)
<1>1. NoSuchTable(t) => Of(t) \cap WorkedIn = {}
  BY DEF IndexInv, KnownWorkedIn, NoSuchTable
<1>2. t \in crossed \/ perm[t][a] \in {Merged(t, WorkedIn)[a], 0}
  BY DEF IndexInv, LevelsWorkedIn
<1>3. perm[t][a] # 0 => \E i \in Of(t) \cap WorkedIn : tableChain[i].grants[a] = perm[t][a]
  BY DEF IndexInv, LevelsGranted
<1> QED BY <1>1, <1>2, <1>3 DEF Permission, HadLevel

\* Check looks the signed-in account up (UserManage.Check).
LEMMA CheckKeeps ==
  ASSUME IInv, NEW h \in Handler, NEW c \in {"table", "put", "get"}, NEW allowed \in BOOLEAN, Check(h, c, allowed),
         allowed => /\ c = "table" => MayTable(Who(h), job[h].table, WorkedIn)
                    /\ c = "put" => HadLevel(Who(h), job[h].table, WorkedIn, 3)
                    /\ c = "get" => job[h].table \in known
  PROVE  IInv'
<1> USE Before
<1>1. /\ UNCHANGED indexVars /\ cmd[h] \in 1 .. 6 /\ cmd[h] \in {4, 5, 6} /\ submitted' = submitted
      /\ (c = "table" <=> cmd[h] = 4) /\ (c = "put" <=> cmd[h] = 5) /\ (c = "get" <=> cmd[h] = 6)
      /\ file' = file /\ writing' = writing /\ signedIn' = signedIn
      /\ base' = [base EXCEPT ![h] = WorkedIn]
      /\ (allowed /\ Then(h, "submit")) \/ (~ allowed /\ Over(h))
  BY WhereAt DEF Check, sessions
<1>2. IndexInv' /\ TypeOK' /\ UNCHANGED <<tableChain, dataChain, known, crossed>>
  BY <1>1, IndexSame
<1>3. /\ base' \in [Handler -> SUBSET (1 .. MaxTableBlocks)] /\ base'[h] = WorkedIn
      /\ WorkedIn \subseteq DOMAIN tableChain /\ \A g \in Handler \ {h} : base'[g] = base[g]
  <2>1. WorkedIn \subseteq DOMAIN tableChain
    BY DEF WorkedIn
  <2>2. DOMAIN tableChain = 1 .. Len(tableChain) /\ Len(tableChain) \in Nat /\ Len(tableChain) <= MaxTableBlocks
    BY TableBlockTyped DEF TypeOK
  <2>3. WorkedIn \subseteq 1 .. MaxTableBlocks
    BY <2>1, <2>2
  <2> QED BY <1>1, <2>1, <2>3 DEF HandlerTypes
<1>4. /\ HandlersAtWork' /\ Checked' /\ HandlerTypes' /\ job' = job
      /\ step'[h] # "write" /\ \A g \in Handler \ {h} : step'[g] = step[g]
  <2>1. CASE allowed /\ Then(h, "submit")
    BY <1>1, <1>2, <1>3, <2>1, ThenKeeps
  <2>2. CASE Over(h)
    BY <1>1, <1>2, <1>3, <2>2, OverKeeps
  <2> QED BY <1>1, <2>1, <2>2
<1>5. OneWriter'
  BY <1>1, <1>4, WritersStay DEF Who
<1> QED BY <1>1, <1>2, <1>4, <1>5, GrantsStay, FrontTypes DEF IInv, FrontInv

\* checkPermission looks the level up over the table blocks there are.
LEMMA LookUpKeeps ==
  ASSUME IInv, NEW h \in Handler, TableCheck(h) \/ PutCheck(h) \/ GetCheck(h)
  PROVE  IInv'
<1>1. cmd[h] # 0
  BY WhereAt DEF TableCheck, PutCheck, GetCheck, Check
<1>2. Who(h) \in Account /\ job[h].table \in Table
  BY <1>1, RequestTyped DEF IInv
<1>3. /\ NoSuchTable(job[h].table) => Of(job[h].table) \cap WorkedIn = {}
      /\ Permission(Who(h), job[h].table) >= 3 => HadLevel(Who(h), job[h].table, WorkedIn, 3)
      /\ Permission(Who(h), job[h].table) >= 4 => HadLevel(Who(h), job[h].table, WorkedIn, 4)
  BY <1>2, LookedUp DEF IInv
<1>4. CASE TableCheck(h)
  <2>1. MayAlter(Who(h), job[h].table) => MayTable(Who(h), job[h].table, WorkedIn)
    BY <1>3 DEF MayAlter, MayTable
  <2>2. MayAlter(Who(h), job[h].table) \in BOOLEAN
    BY DEF MayAlter
  <2> QED BY <1>4, <2>1, <2>2, CheckKeeps DEF TableCheck
<1>5. CASE PutCheck(h)
  <2>1. MayWrite(Who(h), job[h].table) => HadLevel(Who(h), job[h].table, WorkedIn, 3)
    BY <1>3 DEF MayWrite
  <2>2. MayWrite(Who(h), job[h].table) \in BOOLEAN
    BY DEF MayWrite
  <2> QED BY <1>5, <2>1, <2>2, CheckKeeps DEF PutCheck
<1>6. CASE GetCheck(h)
  <2>1. MayRead(Who(h), job[h].table) => job[h].table \in known
    BY DEF MayRead, NoSuchTable
  <2>2. MayRead(Who(h), job[h].table) \in BOOLEAN
    BY DEF MayRead
  <2> QED BY <1>6, <2>1, <2>2, CheckKeeps DEF GetCheck
<1> QED BY <1>4, <1>5, <1>6

\* A table transaction is no data transaction.
LEMMA TxKinds == TableTx \cap DataTx = {}
<1>1. \A tx \in TableTx : "key" \notin DOMAIN tx
  BY DEF TableTx
<1>2. \A tx \in DataTx : "key" \in DOMAIN tx
  BY DEF DataTx
<1> QED BY <1>1, <1>2

\* The transaction is sent to the node.
LEMMA SubmitKeeps ==
  ASSUME IInv, NEW h \in Handler, NEW c, NEW tx, Submit(h, c, tx),
         \/ tx \in TableTx /\ TableTxOK(tx)
         \/ tx \in DataTx /\ DataTxOK(tx)
  PROVE  IInv'
<1> USE Before
<1>1. /\ UNCHANGED indexVars /\ cmd[h] \in 1 .. 6 /\ base' = base /\ submitted' = submitted \cup {tx}
      /\ file' = file /\ writing' = writing /\ signedIn' = signedIn /\ Over(h)
  BY WhereAt DEF Submit, sessions
<1>2. IndexInv' /\ TypeOK' /\ UNCHANGED <<tableChain, dataChain, known, crossed>>
  BY <1>1, IndexSame
<1>3. base \in [Handler -> SUBSET (1 .. MaxTableBlocks)] /\ base[h] \subseteq DOMAIN tableChain
  BY DEF HandlerTypes, HandlersAtWork, AtWork
<1>4. /\ HandlersAtWork' /\ Checked' /\ HandlerTypes' /\ job' = job
      /\ step'[h] # "write" /\ \A g \in Handler \ {h} : step'[g] = step[g]
  BY <1>1, <1>2, <1>3, OverKeeps
<1>5. OneWriter'
  BY <1>1, <1>4, WritersStay DEF Who
<1>6. Granted'
  <2>1. (\A x : TableTxOK(x) => TableTxOK(x)') /\ (\A x : DataTxOK(x) => DataTxOK(x)')
    BY <1>2, LevelsStay
  <2>2. TableTxs' \subseteq TableTxs \cup ({tx} \cap TableTx) /\ DataTxs' \subseteq DataTxs \cup ({tx} \cap DataTx)
    BY <1>1, <1>2 DEF TableTxs, DataTxs
  <2>3. \A x \in TableTxs' : TableTxOK(x)'
    BY <2>1, <2>2, TxKinds DEF Granted
  <2>4. \A x \in DataTxs' : DataTxOK(x)'
    BY <2>1, <2>2, TxKinds DEF Granted
  <2> QED BY <2>3, <2>4 DEF Granted
<1> QED BY <1>1, <1>2, <1>4, <1>5, <1>6, FrontTypes DEF IInv, FrontInv

\* So every command that submits one keeps the invariant.
LEMMA SubmissionKeeps ==
  ASSUME IInv, NEW h \in Handler, SubmitTable(h) \/ SubmitPut(h)
  PROVE  IInv'
<1> USE Before
<1>1. step[h] = "submit" /\ cmd[h] # 0 /\ (SubmitTable(h) => cmd[h] = 4) /\ (SubmitPut(h) => cmd[h] = 5)
  BY WhereAt DEF SubmitTable, SubmitPut, Submit
<1>2. /\ Who(h) \in Account /\ job[h].table \in Table /\ job[h].grants \in Grants /\ job[h].key \in Key
      /\ base[h] \subseteq 1 .. MaxTableBlocks /\ base[h] \subseteq DOMAIN tableChain
  BY <1>1, RequestTyped DEF IInv, HandlerTypes, HandlersAtWork, AtWork
<1>3. CASE SubmitTable(h)
  <2> DEFINE tx == [table |-> job[h].table, grants |-> job[h].grants, by |-> Who(h), seen |-> base[h]]
  <2>1. tx \in TableTx
    BY <1>2 DEF TableTx
  <2>2. TableTxOK(tx)
    BY <1>1, <1>2, <1>3 DEF TableTxOK, Checked, CheckedAt
  <2>3. Submit(h, "table", tx)
    BY <1>3 DEF SubmitTable
  <2> QED BY <2>1, <2>2, <2>3, SubmitKeeps
<1>4. CASE SubmitPut(h)
  <2>0. PICK s \in Stamp :
           Submit(h, "put", [table |-> job[h].table, key |-> job[h].key, stamp |-> s, by |-> Who(h), seen |-> base[h]])
    BY <1>4 DEF SubmitPut
  <2> DEFINE tx == [table |-> job[h].table, key |-> job[h].key, stamp |-> s, by |-> Who(h), seen |-> base[h]]
  <2>1. tx \in DataTx
    BY <1>2 DEF DataTx
  <2>2. DataTxOK(tx)
    BY <1>1, <1>2, <1>4 DEF DataTxOK, Checked, CheckedAt
  <2>3. Submit(h, "put", tx)
    BY <2>0
  <2> QED BY <2>1, <2>2, <2>3, SubmitKeeps
<1> QED BY <1>3, <1>4

\* getValue and getHistory only read.
LEMMA GetValueKeeps ==
  ASSUME IInv, NEW h \in Handler, GetValue(h)
  PROVE  IInv'
<1> USE Before
<1>1. /\ cmd[h] = 6 /\ cmd[h] \in 1 .. 6 /\ step[h] = "submit" /\ submitted' = submitted
      /\ file' = file /\ writing' = writing /\ signedIn' = signedIn
      /\ UNCHANGED <<chains, index, toDo, torn, crossed, restarts>>
      /\ down' = (bucket[job[h].table] = NoBucket) /\ base' = base
      /\ UNCHANGED handlers \/ Over(h)
  BY WhereAt DEF GetValue, sessions, handlers
<1>2. job[h].table \in known
  BY <1>1 DEF Checked, CheckedAt
<1>3. down' => \E t \in torn : bucket[t] = NoBucket
  BY <1>1, <1>2 DEF IndexInv, KnownWorkedIn
<1>4. IndexInv' /\ TypeOK' /\ UNCHANGED <<tableChain, dataChain, known, crossed>>
  <2>1. down' \in BOOLEAN
    BY <1>1
  <2>2. IndexInv'
    BY <1>1, <1>3, <2>1, EndKeeps
  <2> QED BY <1>1, <2>2 DEF IndexInv, chains, index
<1>5. base \in [Handler -> SUBSET (1 .. MaxTableBlocks)] /\ base[h] \subseteq DOMAIN tableChain
  BY DEF HandlerTypes, HandlersAtWork, AtWork
<1>6. /\ HandlersAtWork' /\ Checked' /\ HandlerTypes' /\ job' = job
      /\ \A g \in Handler : step'[g] = "write" => step[g] = "write"
  <2>1. CASE UNCHANGED handlers
    <3>1. left' = left /\ job' = job /\ cmd' = cmd /\ step' = step /\ base' = base
      BY <2>1 DEF handlers
    <3>2. \A g \in Handler : AtWork(g)' /\ CheckedAt(g)'
      BY <1>4, <3>1, LeftAlone
    <3> QED BY <3>1, <3>2 DEF HandlersAtWork, Checked, HandlerTypes
  <2>2. CASE Over(h)
    BY <1>1, <1>4, <1>5, <2>2, OverKeeps
  <2> QED BY <1>1, <2>1, <2>2
<1>7. OneWriter'
  BY <1>1, <1>6, WritersStay DEF Who
<1> QED BY <1>1, <1>4, <1>6, <1>7, GrantsStay, FrontTypes DEF IInv, FrontInv

\* A block, of the own pool or of another node.
LEMMA ChainGrows ==
  ASSUME IInv, IndexInv', crossed \subseteq crossed', known \subseteq known',
         tableChain' = tableChain \/ \E tx \in TableTx : tableChain' = Append(tableChain, tx),
         submitted' \subseteq submitted, TableTxs' \subseteq TableTxs, DataTxs' \subseteq DataTxs,
         UNCHANGED <<sessions, handlers>>
  PROVE  IInv'
<1> USE Before
<1>1. /\ left' = left /\ job' = job /\ cmd' = cmd /\ step' = step /\ base' = base
      /\ file' = file /\ writing' = writing /\ signedIn' = signedIn
  BY DEF sessions, handlers
<1>2. \A g \in Handler : AtWork(g)' /\ CheckedAt(g)'
  BY <1>1, LeftAlone
<1>3. HandlerTypes' /\ TypeOK'
  BY <1>1 DEF HandlerTypes, IndexInv
<1>4. OneWriter'
  BY <1>1, WritersStay DEF Who
<1>5. Granted'
  <2>1. (\A x : TableTxOK(x) => TableTxOK(x)') /\ (\A x : DataTxOK(x) => DataTxOK(x)')
    BY LevelsStay
  <2> QED BY <2>1 DEF Granted
<1> QED BY <1>1, <1>2, <1>3, <1>4, <1>5, FrontTypes DEF IInv, FrontInv, HandlersAtWork, Checked

\* A table block with submitted transactions is appended.
LEMMA TableBlockKeeps ==
  ASSUME IInv, TableBlock
  PROVE  IInv'
<1> USE Before
<1>1. PICK tx \in submitted \cap TableTx :
         AppendTable(tx) /\ submitted' = submitted \ {tx} /\ UNCHANGED <<sessions, handlers>>
  BY DEF TableBlock
<1>2. IndexInv'
  BY <1>1, AppendTableKeeps
<1>3. /\ tableChain' = Append(tableChain, tx) /\ dataChain' = dataChain /\ known' = known
      /\ crossed \subseteq crossed'
  BY <1>1 DEF AppendTable, index
<1>4. TableTxs' \subseteq TableTxs
  <2>1. \A i \in DOMAIN tableChain' : tableChain'[i] = tx \/ \E j \in DOMAIN tableChain : tableChain'[i] = tableChain[j]
    BY <1>1, <1>3, Appended
  <2> QED BY <1>1, <2>1 DEF TableTxs
<1>5. DataTxs' \subseteq DataTxs
  BY <1>1, <1>3 DEF DataTxs
<1> QED BY <1>1, <1>2, <1>3, <1>4, <1>5, ChainGrows

\* A data block with submitted transactions is appended.
LEMMA DataBlockKeeps ==
  ASSUME IInv, DataBlock
  PROVE  IInv'
<1> USE Before
<1>1. PICK s \in Blocks2(submitted \cap DataTx) :
         /\ AppendData(s) /\ submitted' = submitted \ {s[i] : i \in DOMAIN s}
         /\ UNCHANGED <<sessions, handlers>>
  BY DEF DataBlock
<1>2. PICK n \in 1 .. MaxInBlock : s \in [1 .. n -> submitted \cap DataTx]
  BY DEF Blocks2
<1>3. /\ s \in Seq(DataTx) /\ s # <<>> /\ Len(s) <= MaxInBlock /\ \A i \in DOMAIN s : s[i] \in submitted \cap DataTx
  <2>1. s \in Seq(DataTx)
    BY <1>2
  <2>2. Len(s) = n
    BY <1>2, <2>1, LenProperties
  <2> QED BY <1>2, <2>1, <2>2, EmptySeq
<1>4. IndexInv'
  BY <1>1, <1>3, AppendDataKeeps
<1>5. /\ tableChain' = tableChain /\ dataChain' = Append(dataChain, s) /\ known' = known
      /\ crossed \subseteq crossed'
  BY <1>1 DEF AppendData, index
<1>6. TableTxs' \subseteq TableTxs
  BY <1>1, <1>5 DEF TableTxs
<1>7. DataTxs' \subseteq DataTxs
  <2>1. dataChain \in Seq(Seq(DataTx))
    BY DEF TypeOK
  <2>2. \A b \in DOMAIN dataChain' : dataChain'[b] = s \/ (b \in DOMAIN dataChain /\ dataChain'[b] = dataChain[b])
    BY <1>3, <1>5, <2>1, Appended
  <2> QED BY <1>1, <1>3, <2>2 DEF DataTxs
<1> QED BY <1>1, <1>4, <1>5, <1>6, <1>7, ChainGrows

\* The cache works a block in.
LEMMA WorkInKeeps ==
  ASSUME IInv, WorkIn
  PROVE  IInv'
<1> USE Before
<1>1. /\ UNCHANGED <<sessions, handlers>> /\ submitted' = submitted
      /\ \E w \in toDo : upDateByTables(w) \/ updateBucket(w)
  BY DEF WorkIn, Arriving
<1>2. IndexInv'
  BY <1>1, upDateByTablesKeeps, updateBucketKeeps
<1>3. tableChain' = tableChain /\ dataChain' = dataChain /\ crossed' = crossed /\ known \subseteq known'
  BY <1>1 DEF upDateByTables, updateBucket, chains, index
<1>4. TableTxs' = TableTxs /\ DataTxs' = DataTxs
  BY <1>1, <1>3 DEF TableTxs, DataTxs
<1> QED BY <1>1, <1>2, <1>3, <1>4, ChainGrows

\* The process is started again.
LEMMA RestartKeeps ==
  ASSUME IInv, Restart
  PROVE  IInv'
<1> USE Before
<1>1. IndexInv' /\ TypeOK' /\ tableChain' = tableChain /\ dataChain' = dataChain /\ crossed' = crossed
  BY RestartIndexKeeps DEF Restart, RestartIndex, Reload, chains, IndexInv
<1>2. /\ signedIn' = {} /\ writing' = {} /\ file' = file /\ left' = left /\ submitted' = submitted
      /\ job' = [h \in Handler |-> Free] /\ cmd' = [h \in Handler |-> 0]
      /\ step' = [h \in Handler |-> "start"] /\ base' = [h \in Handler |-> {}]
  BY DEF Restart, None
<1>3. HandlerTypes'
  BY <1>2 DEF HandlerTypes
<1>4. HandlersAtWork' /\ Checked' /\ OneWriter'
  BY <1>2 DEF HandlersAtWork, AtWork, Checked, CheckedAt, OneWriter
<1> QED BY <1>1, <1>2, <1>3, <1>4, GrantsStay, FrontTypes DEF IInv, FrontInv

\* The invariant holds at the start ...
LEMMA InitHolds == Init => IInv
<1> SUFFICES ASSUME Init PROVE IInv
  OBVIOUS
<1> USE DEF Init
<1>1. IndexInv /\ TypeOK
  BY InitIndexHolds DEF IndexInv
<1>2. FrontTypeOK
  BY <1>1, FrontEndAssumption DEF FrontTypeOK, None, Commands
<1>3. HandlersAtWork /\ OneWriter /\ Checked
  BY DEF HandlersAtWork, AtWork, Checked, CheckedAt, OneWriter
<1>4. Granted
  <2>1. TableTxs = {} /\ DataTxs = {}
    BY DEF InitIndex, TableTxs, DataTxs
  <2> QED BY <2>1 DEF Granted
<1> QED BY <1>1, <1>2, <1>3, <1>4 DEF IInv, FrontInv

\* One step per action.
LEMMA NextKeeps == IInv /\ [Next]_vars => IInv'
<1> SUFFICES ASSUME IInv, [Next]_vars PROVE IInv'
  OBVIOUS
<1>1. ASSUME NEW h \in Handler, Execute(h) PROVE IInv'
  BY <1>1, CmdKeeps, ReplyKeeps, SignKeeps, RegisterKeeps, SaveAccount2FileKeeps, ViewKeeps,
     LookUpKeeps, SubmissionKeeps, GetValueKeeps DEF Execute
<1>2. CASE UNCHANGED vars
  <2>1. UNCHANGED indexVars /\ UNCHANGED <<sessions, handlers>> /\ submitted' = submitted
    BY <1>2 DEF vars
  <2>2. IndexInv' /\ TypeOK' /\ UNCHANGED <<tableChain, dataChain, known, crossed>>
    BY <2>1, IndexSame
  <2>3. TableTxs' = TableTxs /\ DataTxs' = DataTxs
    BY <2>1, <2>2 DEF TableTxs, DataTxs
  <2> QED BY <2>1, <2>2, <2>3, ChainGrows
<1> QED BY <1>1, <1>2, TableBlockKeeps, DataBlockKeeps, WorkInKeeps, RestartKeeps DEF Next

\* ... and ever after: the index and the front end together, whatever the handlers, the
\* pools and restarts do between two of their steps (serverExec, cache/table-chain.go).
THEOREM Invariance == Spec => []IInv
<1>1. Init => IInv
  BY InitHolds
<1>2. IInv /\ [Next]_vars => IInv'
  BY NextKeeps
<1> QED BY <1>1, <1>2, PTL DEF Spec

-----------------------------------------------------------------------------
(* What follows.                                                               *)

\* Every variable of the front end and of the index keeps its type (serverExec,
\* userManage, cache/table-chain.go).
THEOREM FrontTypeCorrect == Spec => []FrontTypeOK
<1>1. IInv => FrontTypeOK
  BY DEF IInv, FrontInv
<1> QED BY <1>1, Invariance, PTL

\* The process ends itself only over a table whose bucket a crash prevented or a data
\* block that names a table before its own block (createBucket, updateBucket).
THEOREM EndIsExplained == Spec => []EndExplained
<1>1. IInv => EndExplained
  BY DEF IInv, IndexInv
<1> QED BY <1>1, Invariance, PTL

\* The levels in force are those that the table chain grants (upDateByTables, init).
THEOREM LevelsFollowTheChain == Spec => []PermissionsOfChain
<1>1. ASSUME IInv PROVE PermissionsOfChain
  <2> SUFFICES ASSUME NEW t \in Table, InTurn(t), NEW a \in Account
               PROVE  /\ Newest(t)[a] # 0 => perm[t][a] = Newest(t)[a]
                      /\ perm[t][a] \in {Merged(t, DOMAIN tableChain)[a], 0}
                      /\ restarts = 0 => perm[t][a] = Merged(t, DOMAIN tableChain)[a]
    BY DEF PermissionsOfChain
  <2> USE <1>1 DEF IInv, IndexInv
  <2>1. t \notin crossed /\ tableChain \in Seq(TableTx)
    BY DEF InTurn, TypeOK
  <2>2. \A w \in toDo : t \notin Ahead(w)
    BY DEF InTurn, Dropped, Pending
  <2>3. Of(t) \subseteq WorkedIn /\ WorkedIn \subseteq DOMAIN tableChain
    <3>1. ASSUME NEW i \in Of(t) PROVE i \in WorkedIn
      <4>1. i \in DOMAIN tableChain /\ tableChain[i].table = t
        BY DEF OfIn
      <4>2. \A w \in toDo : w[1] = "table" => w[2] # i
        BY <2>2, <4>1, WorkTyped
      <4> QED BY <4>1, <4>2, Worked
    <3> QED BY <3>1, Worked
  <2>4. Merged(t, DOMAIN tableChain) = Merged(t, WorkedIn)
    <3>1. Of(t) \cap DOMAIN tableChain = Of(t) \cap WorkedIn
      BY <2>3
    <3> QED BY <3>1, MergeOf
  <2>5. /\ perm[t][a] \in {Merged(t, WorkedIn)[a], 0}
        /\ restarts = 0 => perm[t][a] = Merged(t, WorkedIn)[a]
        /\ \A i \in Of(t) : (\A j \in Of(t) : j <= i) /\ tableChain[i].grants[a] # 0
                              => perm[t][a] = tableChain[i].grants[a]
    BY <2>1, <2>3 DEF LevelsWorkedIn
  <2>6. Newest(t)[a] # 0 => perm[t][a] = Newest(t)[a]
    <3> SUFFICES ASSUME Newest(t)[a] # 0 PROVE perm[t][a] = Newest(t)[a]
      OBVIOUS
    <3>1. Of(t) # {}
      BY <2>1, NewestMerged DEF Nobody
    <3>2. PICK i \in Of(t) : \A j \in Of(t) : j <= i
      <4>1. Of(t) \in SUBSET DOMAIN tableChain
        BY DEF OfIn
      <4> QED BY <2>1, <3>1, <4>1, NewestBlock
    <3>3. Newest(t) = tableChain[i].grants
      BY <2>1, <3>2, NewestMerged
    <3> QED BY <2>5, <3>2, <3>3
  <2> QED BY <2>4, <2>5, <2>6
<1> QED BY <1>1, Invariance, PTL

\* The bucket of a table that is known and whose blocks came one after the other holds
\* the data blocks that touch it, all of them, each once and in order (updateBucket).
THEOREM BucketsComplete == Spec => []HashChainComplete
<1>1. ASSUME IInv PROVE HashChainComplete
  <2> SUFFICES ASSUME NEW t \in known \ torn, InTurn(t)
               PROVE  /\ bucket[t] # NoBucket
                      /\ Listed(t) = Blocks(t)
                      /\ \A i, j \in DOMAIN bucket[t] : i < j => bucket[t][i] < bucket[t][j]
    BY DEF HashChainComplete
  <2> USE <1>1 DEF IInv, IndexInv
  <2>1. t \in Table /\ t \notin crossed /\ \A w \in toDo : t \notin Ahead(w)
    BY DEF InTurn, Dropped, Pending, TypeOK
  <2>2. bucket[t] # NoBucket
    BY DEF KnownWorkedIn
  <2> QED BY <2>1, <2>2 DEF ListedOrPending
<1> QED BY <1>1, Invariance, PTL

\* And what is read of such a table is what the chain holds of it: the history of a key
\* is complete and in order, its row the one with the latest stamp, and of several the
\* oldest in the newest block (getHistoryInTableHashChain, getTableData).
THEOREM IndexIsComplete == Spec => []IndexComplete
<1>1. ASSUME IInv, HashChainComplete PROVE HistoryComplete
  <2> SUFFICES ASSUME NEW t \in known \ torn, InTurn(t), NEW k \in Key
               PROVE  /\ getHistory(t, k) = ChainOf(t, k)
                      /\ (\A u \in Table \ {t}, b \in Listed(t) : RowsOf(b, u, k) = <<>>) =>
                            IF ChainOf(t, k) = <<>> THEN getTableData(t, k) = {}
                            ELSE IsLatest(ChainOf(t, k), getTableData(t, k))
    BY DEF HistoryComplete
  <2>1. TypeOK /\ t \in Table
    BY <1>1 DEF IInv, IndexInv, TypeOK
  <2>2. /\ bucket[t] # NoBucket /\ Listed(t) = Blocks(t)
        /\ \A i, j \in DOMAIN bucket[t] : i < j => bucket[t][i] < bucket[t][j]
    BY <1>1 DEF HashChainComplete
  <2> QED BY <2>1, <2>2, HistoryIs, RowIs
<1> QED BY <1>1, Invariance, BucketsComplete, PTL DEF IndexComplete

\* A table transaction in the chain was submitted where the account had level 4, or
\* where the table was still new (Server.Table).
THEOREM NobodyUsurps == Spec => []NotUsurped
<1>1. ASSUME IInv PROVE NotUsurped
  <2>1. ASSUME NEW i \in DOMAIN tableChain PROVE TableTxOK(tableChain[i])
    BY <1>1 DEF IInv, FrontInv, Granted, TableTxs
  <2> QED BY <2>1 DEF NotUsurped, Creates, TableTxOK, MayTable
<1> QED BY <1>1, Invariance, PTL

\* A data transaction in the chain was submitted where the account had level 3
\* (Server.Put).
THEOREM WritersHadTheLevel == Spec => []WritesPermitted
<1>1. ASSUME IInv PROVE WritesPermitted
  <2>1. ASSUME NEW b \in DOMAIN dataChain, NEW i \in DOMAIN dataChain[b] PROVE DataTxOK(dataChain[b][i])
    BY <1>1 DEF IInv, FrontInv, Granted, DataTxs
  <2> QED BY <2>1 DEF WritesPermitted, DataTxOK
<1> QED BY <1>1, Invariance, PTL

\* An account file that holds a password keeps it: Register writes a name that is not
\* taken, and saveAccount2File the file that the same call has made.
THEOREM AccountsAreKept == Spec => AccountKept
<1> DEFINE Steady == \A a \in Account : file[a] \in Password => file'[a] = file[a]
<1>1. ASSUME IInv, Next PROVE Steady
  <2> USE <1>1, Before
  <2>1. CASE file' = file
    BY <2>1
  <2>2. ASSUME NEW h \in Handler, Register(h), ~ Taken(Who(h)) PROVE Steady
    BY <2>2, FrontEndAssumption DEF Register, Taken
  <2>3. ASSUME NEW h \in Handler, SaveAccount2File(h) PROVE Steady
    <3>1. file[Who(h)] = Broken
      BY <2>3, WhereAt DEF SaveAccount2File, OneWriter
    <3> QED BY <2>3, <3>1, FrontEndAssumption DEF SaveAccount2File
  <2>4. ASSUME NEW h \in Handler, Execute(h), ~ SaveAccount2File(h), ~ (Register(h) /\ ~ Taken(Who(h)))
        PROVE  file' = file
    BY <2>4 DEF Execute, Cmd, Reply, SignIn, Register, SignOut, View, TableCheck, PutCheck, GetCheck, Check,
       SubmitTable, SubmitPut, Submit, GetValue, sessions
  <2>5. CASE ~ \E h \in Handler : Execute(h)
    BY <2>5, <2>1 DEF Next, TableBlock, DataBlock, WorkIn, Restart, sessions
  <2> QED BY <2>1, <2>2, <2>3, <2>4, <2>5
<1>2. IInv /\ [Next]_vars => [Steady]_vars
  BY <1>1
<1>3. Spec => [][Steady]_vars
  BY <1>2, Invariance, PTL DEF Spec
<1> QED BY <1>3 DEF AccountKept

=============================================================================
