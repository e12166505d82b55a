----------------------------- MODULE CoreProofs -----------------------------
(***************************************************************************)
(* Of the core's two byte buffers, its file system in user space and its   *)
(* Robin Hood map.                                                         *)
(* The logger's buffer: for every size and every length of line it is      *)
(* never overrun, no line is dropped, and the first line of each flush     *)
(* reaches the file as it was logged.  The vector: for any element sizes,  *)
(* bytes, strings and counts every access is inside the block, which       *)
(* starts with what was pushed, and its readers see an array of elements.  *)
(* The file system: for any paths, requests and mounts, a walk stands on   *)
(* nodes that exist and misses none that was there; and files are where    *)
(* they were mounted, if no name begins another.  The Robin Hood map: for  *)
(* any keys, values, hashes and number of calls it is well formed in every *)
(* state, in the middle of an emplacement and of a growth too, and loses   *)
(* no entry and makes none up.                                             *)
(***************************************************************************)
EXTENDS Logger, Vector, Userfs, RobinMap, NumberFacts, SequenceTheorems, FiniteSetTheorems

(* The logger: the totals of the lengths of its lines. *)

\* The running total of lengths ls up to k.
LEMMA TotalIs ==
  ASSUME NEW ls \in Seq(Nat), NEW k \in 0 .. Len(ls)
  PROVE  \E t \in [0 .. k -> Nat] : /\ Total(ls, k) = t[k] /\ t[0] = 0
                                    /\ \A j \in 1 .. k : t[j] = t[j - 1] + ls[j]
<1> DEFINE F(t) == [j \in 0 .. k |-> IF j = 0 THEN 0 ELSE t[j - 1] + ls[j]]
           step == [p \in Nat \X (1 .. k) |-> p[1] + ls[p[2]]]
           t == CHOOSE t : t = F(t)
<1>1. k \in Nat /\ \A j \in 1 .. k : ls[j] \in Nat
  OBVIOUS
<1>2. step \in [Nat \X (1 .. k) -> Nat]
  BY <1>1
<1>3. PICK s : Runs(s, k, Nat, 0, step)
  <2> HIDE DEF step
  <2>1. 0 \in Nat
    OBVIOUS
  <2> QED BY <1>1, <1>2, <2>1, Recursion
<1>4. ASSUME NEW j \in 1 .. k PROVE s[j] = s[j - 1] + ls[j]
  <2>1. s[j - 1] \in Nat
    BY <1>3 DEF Runs
  <2>2. step[<<s[j - 1], j>>] = s[j - 1] + ls[j]
    BY <2>1
  <2> HIDE DEF step
  <2> QED BY <1>3, <2>2 DEF Runs
<1>5. s = F(s)
  BY <1>3, <1>4 DEF Runs
<1> HIDE DEF F
<1>6. t = F(t)
  BY <1>5
<1> HIDE DEF t
<1>7. t[0] = 0 /\ DOMAIN t = 0 .. k /\ t = [j \in 0 .. k |-> t[j]] /\ \A j \in 1 .. k : t[j] = t[j - 1] + ls[j]
  <2>1. DOMAIN t = 0 .. k
    BY <1>6 DEF F
  <2>2. \A j \in 0 .. k : t[j] = IF j = 0 THEN 0 ELSE t[j - 1] + ls[j]
    BY <1>6, Zenon DEF F
  <2>3. t = [j \in 0 .. k |-> t[j]]
    BY <1>6, <2>1, Zenon DEF F
  <2> QED BY <1>1, <2>1, <2>2, <2>3
<1>8. \A j \in 0 .. k : t[j] \in Nat
  <2> DEFINE S == {j \in 0 .. k : t[j] \in Nat}
  <2>1. 0 \in S
    BY <1>7
  <2>2. ASSUME NEW j \in 0 .. k - 1, j \in S PROVE j + 1 \in S
    <3>1. j + 1 \in 1 .. k /\ (j + 1) - 1 = j /\ t[j] \in Nat
      BY <1>1, <2>2
    <3>2. t[j + 1] = t[j] + ls[j + 1] /\ ls[j + 1] \in Nat
      BY <1>1, <1>7, <3>1
    <3> QED BY <3>1, <3>2
  <2> HIDE DEF S
  <2>3. 0 .. k \subseteq S
    BY <1>1, <2>1, <2>2, AllNaturals
  <2> QED BY <2>3 DEF S
<1>9. t \in [0 .. k -> Nat]
  BY <1>7, <1>8
<1>10. Total(ls, k) = t[k]
  BY DEF Total, t, F
<1> QED BY <1>7, <1>9, <1>10

\* Each total is the one before and the line's length.
LEMMA TotalGrows ==
  ASSUME NEW ls \in Seq(Nat)
  PROVE  /\ Total(ls, 0) = 0
         /\ \A k \in 0 .. Len(ls) : Total(ls, k) \in Nat
         /\ \A k \in 1 .. Len(ls) : Total(ls, k) = Total(ls, k - 1) + ls[k]
<1>0. Len(ls) \in Nat /\ 0 \in 0 .. Len(ls)
  OBVIOUS
<1>1. \A k \in 0 .. Len(ls) : Total(ls, k) \in Nat
  <2> TAKE k \in 0 .. Len(ls)
  <2>1. PICK t \in [0 .. k -> Nat] : Total(ls, k) = t[k]
    BY TotalIs
  <2> QED BY <1>0, <2>1
<1>2. Total(ls, 0) = 0
  BY <1>0, TotalIs
<1>3. ASSUME NEW k \in 1 .. Len(ls)
      PROVE  Total(ls, k) = Total(ls, k - 1) + ls[k]
  <2>0. k \in 0 .. Len(ls) /\ k - 1 \in 0 .. Len(ls) /\ k - 1 \in Nat
    BY <1>0
  <2>1. PICK t \in [0 .. k -> Nat] : /\ Total(ls, k) = t[k] /\ t[0] = 0
                                     /\ \A j \in 1 .. k : t[j] = t[j - 1] + ls[j]
    BY <2>0, TotalIs
  <2>2. PICK s \in [0 .. k - 1 -> Nat] : /\ Total(ls, k - 1) = s[k - 1] /\ s[0] = 0
                                         /\ \A j \in 1 .. k - 1 : s[j] = s[j - 1] + ls[j]
    BY <2>0, TotalIs
  <2> DEFINE S == { j \in 0 .. k - 1 : s[j] = t[j] }
  <2>3. 0 \in S
    BY <2>0, <2>1, <2>2
  <2>4. ASSUME NEW j \in 0 .. (k - 1) - 1, j \in S PROVE j + 1 \in S
    <3>1. j + 1 \in 1 .. k - 1 /\ j + 1 \in 1 .. k /\ (j + 1) - 1 = j /\ s[j] = t[j]
      BY <2>0, <2>4
    <3> QED BY <2>1, <2>2, <3>1
  <2> HIDE DEF S
  <2>5. 0 .. k - 1 \subseteq S
    BY <2>0, <2>3, <2>4, AllNaturals
  <2>6. s[k - 1] = t[k - 1]
    BY <2>0, <2>5 DEF S
  <2> QED BY <2>0, <2>1, <2>2, <2>6
<1> QED BY <1>1, <1>2, <1>3

\* The totals of lines that have a byte at least are in order.
LEMMA TotalOrder ==
  ASSUME NEW ls \in Seq(Nat \ {0}), NEW j \in 0 .. Len(ls), NEW k \in 0 .. Len(ls), j < k
  PROVE  Total(ls, j) < Total(ls, k)
<1> DEFINE S == { d \in 0 .. Len(ls) : d <= j \/ Total(ls, j) < Total(ls, d) }
<1>0. Len(ls) \in Nat /\ ls \in Seq(Nat)
  OBVIOUS
<1>1. /\ \A i \in 0 .. Len(ls) : Total(ls, i) \in Nat
      /\ \A i \in 1 .. Len(ls) : Total(ls, i) = Total(ls, i - 1) + ls[i]
  BY <1>0, TotalGrows
<1>2. 0 \in S
  BY <1>0
<1>3. ASSUME NEW d \in 0 .. Len(ls) - 1, d \in S PROVE d + 1 \in S
  <2>1. d + 1 \in 1 .. Len(ls) /\ (d + 1) - 1 = d /\ ls[d + 1] \in Nat \ {0}
    BY <1>0
  <2>2. Total(ls, d + 1) = Total(ls, d) + ls[d + 1]
    BY <1>1, <2>1
  <2>3. Total(ls, d) \in Nat /\ Total(ls, d + 1) \in Nat /\ Total(ls, j) \in Nat
    BY <1>0, <1>1, <2>1, SMTT(30)
  <2>4. d <= j \/ Total(ls, j) < Total(ls, d)
    BY <1>3
  <2>5. d = j \/ d + 1 <= j \/ Total(ls, j) < Total(ls, d)
    BY <2>4
  <2> QED BY <1>0, <2>1, <2>2, <2>3, <2>5, SMTT(30)
<1> HIDE DEF S
<1>4. 0 .. Len(ls) \subseteq S
  BY <1>0, <1>2, <1>3, AllNaturals
<1>5. k \in S
  BY <1>4
<1> QED BY <1>5 DEF S

\* A line more leaves the totals before it.
LEMMA TotalOfMore ==
  ASSUME NEW ls \in Seq(Nat), NEW n \in Nat
  PROVE  /\ \A k \in 0 .. Len(ls) : Total(Append(ls, n), k) = Total(ls, k)
         /\ Total(Append(ls, n), Len(ls) + 1) = Total(ls, Len(ls)) + n
<1> DEFINE ms == Append(ls, n)
           S == { k \in 0 .. Len(ls) : Total(ms, k) = Total(ls, k) }
<1>0. /\ Len(ls) \in Nat /\ ms \in Seq(Nat) /\ Len(ms) = Len(ls) + 1 /\ ms[Len(ls) + 1] = n
      /\ \A i \in 1 .. Len(ls) : ms[i] = ls[i]
  OBVIOUS
<1> HIDE DEF ms
<1>1. /\ Total(ms, 0) = 0
      /\ \A i \in 1 .. Len(ms) : Total(ms, i) = Total(ms, i - 1) + ms[i]
  BY <1>0, TotalGrows
<1>2. /\ Total(ls, 0) = 0
      /\ \A i \in 1 .. Len(ls) : Total(ls, i) = Total(ls, i - 1) + ls[i]
  BY TotalGrows
<1>3. 0 \in S
  BY <1>0, <1>1, <1>2
<1>4. ASSUME NEW d \in 0 .. Len(ls) - 1, d \in S PROVE d + 1 \in S
  <2>1. /\ d + 1 \in 1 .. Len(ls) /\ d + 1 \in 1 .. Len(ms) /\ (d + 1) - 1 = d
        /\ Total(ms, d) = Total(ls, d) /\ d + 1 \in 0 .. Len(ls)
    BY <1>0, <1>4
  <2>2. Total(ms, d + 1) = Total(ms, d) + ms[d + 1]
    BY <1>1, <2>1
  <2>3. Total(ls, d + 1) = Total(ls, d) + ls[d + 1]
    BY <1>2, <2>1
  <2> QED BY <1>0, <2>1, <2>2, <2>3
<1> HIDE DEF S
<1>5. 0 .. Len(ls) \subseteq S
  BY <1>0, <1>3, <1>4, AllNaturals
<1>6. \A k \in 0 .. Len(ls) : Total(ms, k) = Total(ls, k)
  BY <1>5 DEF S
<1>7. Total(ms, Len(ls) + 1) = Total(ms, Len(ls)) + n
  <2>1. Len(ls) + 1 \in 1 .. Len(ms) /\ (Len(ls) + 1) - 1 = Len(ls)
    BY <1>0
  <2>2. Total(ms, Len(ls) + 1) = Total(ms, Len(ls)) + ms[Len(ls) + 1]
    BY <1>1, <2>1
  <2> QED BY <1>0, <2>2
<1> QED BY <1>0, <1>6, <1>7 DEF ms

(* The logger: the bytes that a flush gathers. *)

\* A byte, and a page of the file.
Byte == [line : Nat, place : Nat, last : BOOLEAN]
Pages == [start : Nat, length : Nat]
\* The bytes of page j of ps, pointers into text.
Chunk(ps, text, j) == [i \in 1 .. ps[j].length |-> ByteAt(text, ps[j].start + i)]

\* What a pointer into the buffer, or past what it holds, reaches is a byte.
LEMMA BytesThere ==
  ASSUME NEW text \in Seq(Byte), NEW i \in Nat, i > 0
  PROVE  ByteAt(text, i) \in Byte
<1>1. Zero \in Byte
  BY DEF Zero, Byte
<1>2. i <= Len(text) => text[i] \in Byte
  OBVIOUS
<1> QED BY <1>1, <1>2 DEF ByteAt

\* The text b is a with c behind it.
Joins(b, a, c) ==
  /\ b \in Seq(Byte) /\ Len(b) = Len(a) + Len(c)
  /\ \A i \in 1 .. Len(a) : b[i] = a[i]
  /\ \A i \in 1 .. Len(c) : b[Len(a) + i] = c[i]

\* Two texts, joined.
LEMMA Joined ==
  ASSUME NEW a \in Seq(Byte), NEW c \in Seq(Byte), NEW b, b = a \o c
  PROVE  Joins(b, a, c)
<1> HIDE DEF Byte
<1> QED BY DEF Joins

\* A page is as many bytes as it is long, each what its pointer reaches.
LEMMA ChunkIs ==
  ASSUME NEW ps \in Seq(Pages), NEW text \in Seq(Byte), NEW j \in 1 .. Len(ps)
  PROVE  /\ Chunk(ps, text, j) \in Seq(Byte) /\ Len(Chunk(ps, text, j)) = ps[j].length
         /\ \A i \in 1 .. ps[j].length : Chunk(ps, text, j)[i] = ByteAt(text, ps[j].start + i)
<1>0. ps[j] \in Pages
  OBVIOUS
<1> DEFINE n == ps[j].length
           m == ps[j].start
<1>1. n \in Nat /\ m \in Nat
  BY <1>0 DEF Pages
<1>3. Chunk(ps, text, j) = [i \in 1 .. n |-> ByteAt(text, m + i)]
  BY DEF Chunk
<1> HIDE DEF n, m
<1>2. ASSUME NEW i \in 1 .. n PROVE ByteAt(text, m + i) \in Byte
  <2>1. m + i \in Nat /\ m + i > 0
    BY <1>1
  <2> QED BY <2>1, BytesThere
<1>4. Chunk(ps, text, j) \in Seq(Byte) /\ Len(Chunk(ps, text, j)) = n
  BY <1>1, <1>2, <1>3
<1>5. \A i \in 1 .. n : Chunk(ps, text, j)[i] = ByteAt(text, m + i)
  BY <1>3
<1> QED BY <1>4, <1>5 DEF n, m

\* What is gathered is one page after the other.
LEMMA GatheredIs ==
  ASSUME NEW ps \in Seq(Pages), NEW text \in Seq(Byte)
  PROVE  \E g \in [0 .. Len(ps) -> Seq(Byte)] :
            /\ Gathered(ps, text) = g[Len(ps)] /\ g[0] = <<>>
            /\ \A j \in 1 .. Len(ps) : g[j] = g[j - 1] \o Chunk(ps, text, j)
<1> DEFINE k == Len(ps)
           F(t) == [j \in 0 .. k |-> IF j = 0 THEN <<>> ELSE t[j - 1] \o Chunk(ps, text, j)]
           step == [p \in Seq(Byte) \X (1 .. k) |-> p[1] \o Chunk(ps, text, p[2])]
           t == CHOOSE t : t = F(t)
<1>0. k \in Nat
  OBVIOUS
<1>1. \A j \in 1 .. k : Chunk(ps, text, j) \in Seq(Byte)
  BY ChunkIs
<1>10. Gathered(ps, text) = t[k]
  BY DEF Gathered, Chunk
<1> HIDE DEF k
<1>2. step \in [Seq(Byte) \X (1 .. k) -> Seq(Byte)]
  BY <1>1
<1>3. PICK s : Runs(s, k, Seq(Byte), <<>>, step)
  <2> HIDE DEF step
  <2>1. <<>> \in Seq(Byte)
    OBVIOUS
  <2> QED BY <1>0, <1>2, <2>1, Recursion
<1>4. ASSUME NEW j \in 1 .. k PROVE s[j] = s[j - 1] \o Chunk(ps, text, j)
  <2>1. s[j - 1] \in Seq(Byte)
    BY <1>0, <1>3 DEF Runs
  <2>2. step[<<s[j - 1], j>>] = s[j - 1] \o Chunk(ps, text, j)
    BY <2>1
  <2> HIDE DEF step
  <2> QED BY <1>3, <2>2 DEF Runs
<1>5. s = F(s)
  BY <1>3, <1>4 DEF Runs
<1> HIDE DEF F
<1>6. t = F(t)
  BY <1>5
<1> HIDE DEF t
<1>7. t[0] = <<>> /\ DOMAIN t = 0 .. k /\ t = [j \in 0 .. k |-> t[j]] /\ \A j \in 1 .. k : t[j] = t[j - 1] \o Chunk(ps, text, j)
  <2>1. DOMAIN t = 0 .. k
    BY <1>6 DEF F
  <2>2. \A j \in 0 .. k : t[j] = IF j = 0 THEN <<>> ELSE t[j - 1] \o Chunk(ps, text, j)
    BY <1>6, Zenon DEF F
  <2>3. t = [j \in 0 .. k |-> t[j]]
    BY <1>6, <2>1, Zenon DEF F
  <2>4. t[0] = <<>>
    <3>1. 0 \in 0 .. k
      BY <1>0
    <3> QED BY <2>2, <3>1, Zenon
  <2>5. ASSUME NEW j \in 1 .. k PROVE t[j] = t[j - 1] \o Chunk(ps, text, j)
    <3>1. j \in 0 .. k /\ j # 0
      BY <1>0
    <3> QED BY <2>2, <3>1, Zenon
  <2> QED BY <2>1, <2>3, <2>4, <2>5
<1>8. \A j \in 0 .. k : t[j] \in Seq(Byte)
  <2> DEFINE S == {j \in 0 .. k : t[j] \in Seq(Byte)}
  <2>1. 0 \in S
    <3>1. 0 \in 0 .. k /\ t[0] \in Seq(Byte)
      BY <1>0, <1>7
    <3> QED BY <3>1
  <2>2. ASSUME NEW j \in 0 .. k - 1, j \in S PROVE j + 1 \in S
    <3>1. j + 1 \in 1 .. k /\ j + 1 \in 0 .. k /\ (j + 1) - 1 = j /\ t[j] \in Seq(Byte)
      BY <1>0, <2>2
    <3>2. t[j + 1] = t[j] \o Chunk(ps, text, j + 1) /\ Chunk(ps, text, j + 1) \in Seq(Byte)
      BY <1>1, <1>7, <3>1
    <3>3. t[j + 1] \in Seq(Byte)
      BY <3>1, <3>2, Joined DEF Joins
    <3> QED BY <3>1, <3>3
  <2> HIDE DEF S
  <2>3. 0 .. k \subseteq S
    BY <1>0, <2>1, <2>2, AllNaturals
  <2> QED BY <2>3 DEF S
<1>9. t \in [0 .. k -> Seq(Byte)]
  BY <1>7, <1>8
<1> QED BY <1>7, <1>9, <1>10 DEF k

\* The pages are for the lines after line f, and all start where the buffer does.
Paging(ps, ls, f) ==
  \A j \in 1 .. Len(ps) : ps[j].start = 0 /\ ps[j].length = ls[f + j]

\* The text b is as long as the lines of the pages, which are those after line F, and begins
\* with as many bytes of the text as the first of these has.
Gathers(b, ps, text, ls, F) ==
  /\ b \in Seq(Byte)
  /\ Len(b) = Total(ls, F + Len(ps)) - Total(ls, F)
  /\ Len(ps) > 0 => \A i \in 1 .. ls[F + 1] : b[i] = ByteAt(text, i)

\* The pages of the lines after line F make up as many bytes as the lines, and begin with
\* as many bytes of the text as the first of them has.
LEMMA GatheredText ==
  ASSUME NEW ps \in Seq(Pages), NEW text \in Seq(Byte), NEW ls \in Seq(Nat), NEW F \in Nat,
         F + Len(ps) <= Len(ls), Paging(ps, ls, F)
  PROVE  Gathers(Gathered(ps, text), ps, text, ls, F)
<1>p. \A j \in 1 .. Len(ps) : ps[j].start = 0 /\ ps[j].length = ls[F + j]
  BY DEF Paging
<1>1. PICK g \in [0 .. Len(ps) -> Seq(Byte)] :
            /\ Gathered(ps, text) = g[Len(ps)] /\ g[0] = <<>>
            /\ \A j \in 1 .. Len(ps) : g[j] = g[j - 1] \o Chunk(ps, text, j)
  BY GatheredIs
<1> DEFINE k == Len(ps)
           Good(j) == /\ Len(g[j]) = Total(ls, F + j) - Total(ls, F)
                      /\ j > 0 => \A i \in 1 .. ls[F + 1] : i \in 1 .. Len(g[j]) /\ g[j][i] = ByteAt(text, i)
           S == { j \in 0 .. k : Good(j) }
<1>0. k \in Nat /\ Len(ls) \in Nat /\ \A j \in 0 .. k : F + j \in 0 .. Len(ls)
  OBVIOUS
<1>2. /\ \A j \in 0 .. Len(ls) : Total(ls, j) \in Nat
      /\ \A j \in 1 .. Len(ls) : Total(ls, j) = Total(ls, j - 1) + ls[j]
  BY TotalGrows
<1>3. 0 \in S
  <2>1. Total(ls, F + 0) = Total(ls, F) /\ Total(ls, F) \in Nat
    BY <1>0, <1>2
  <2>2. Len(g[0]) = 0
    BY <1>1
  <2> QED BY <1>0, <2>1, <2>2
<1>4. ASSUME NEW j \in 0 .. k - 1, j \in S PROVE j + 1 \in S
  <2> DEFINE m == j + 1
             c == Chunk(ps, text, m)
             e == F + m
  <2>1. /\ m \in 1 .. k /\ m \in 0 .. k /\ m - 1 = j /\ j \in 0 .. k /\ m > 0
        /\ e \in 1 .. Len(ls) /\ e - 1 = F + j /\ F + j \in 0 .. Len(ls) /\ F \in 0 .. Len(ls)
        /\ e \in 0 .. Len(ls) /\ (j = 0 => F + 1 = e)
    BY <1>0
  <2>2. Good(j)
    BY <1>4
  <2>3. c \in Seq(Byte) /\ Len(c) = ps[m].length /\ ps[m].start = 0 /\ ps[m].length = ls[e]
    BY <1>p, <2>1, ChunkIs
  <2>4. \A i \in 1 .. ps[m].length : c[i] = ByteAt(text, ps[m].start + i)
    BY <2>1, ChunkIs
  <2>5. \A x \in 1 .. k : g[x] = g[x - 1] \o Chunk(ps, text, x)
    BY <1>1
  <2>6. g[m] = g[j] \o c
    BY <2>1, <2>5
  <2>7. \A x \in 0 .. k : g[x] \in Seq(Byte)
    BY <1>1
  <2>8. g[j] \in Seq(Byte) /\ g[m] \in Seq(Byte)
    BY <2>1, <2>7
  <2>9. ls[e] \in Nat
    BY <2>1, SMTT(30)
  <2> HIDE DEF c, k, m, e
  <2>14. Joins(g[m], g[j], c)
    BY <2>3, <2>6, <2>8, Joined
  <2>10. /\ Len(g[m]) = Len(g[j]) + Len(c)
         /\ \A i \in 1 .. Len(g[j]) : g[m][i] = g[j][i]
         /\ \A i \in 1 .. Len(c) : g[m][Len(g[j]) + i] = c[i]
    BY <2>14 DEF Joins
  <2>11. Len(g[m]) = Total(ls, F + m) - Total(ls, F)
    <3>1. Total(ls, e) = Total(ls, F + j) + ls[e]
      BY <1>2, <2>1
    <3>2. Total(ls, e) \in Nat /\ Total(ls, F + j) \in Nat /\ Total(ls, F) \in Nat
      BY <1>2, <2>1
    <3>3. Len(g[j]) = Total(ls, F + j) - Total(ls, F)
      BY <2>2
    <3>4. Len(c) = ls[e] /\ Len(g[m]) = Len(g[j]) + Len(c)
      BY <2>3, <2>10
    <3>5. Len(g[m]) = Total(ls, e) - Total(ls, F)
      <4> DEFINE x == Total(ls, F)
                 y == Total(ls, F + j)
                 z == Total(ls, e)
                 w == ls[e]
      <4>1. x \in Nat /\ y \in Nat /\ z \in Nat /\ w \in Nat /\ z = y + w
        BY <2>9, <3>1, <3>2
      <4>2. Len(g[m]) = y - x + w
        BY <3>3, <3>4
      <4> HIDE DEF x, y, z, w
      <4>3. Len(g[m]) = z - x
        BY <4>1, <4>2
      <4> QED BY <4>3 DEF x, z
    <3> QED BY <3>5 DEF e
  <2>12. ASSUME NEW i \in 1 .. ls[F + 1]
         PROVE  i \in 1 .. Len(g[m]) /\ g[m][i] = ByteAt(text, i)
    <3>0. Len(g[j]) \in Nat /\ Len(c) \in Nat
      BY <2>3, <2>8
    <3>1. CASE j = 0
      <4>1. Len(g[j]) = 0
        BY <1>1, <3>1
      <4>2. i \in 1 .. Len(c) /\ i \in Nat
        BY <2>1, <2>3, <2>9, <3>1
      <4>3. c[i] = ByteAt(text, i)
        <5>1. i \in 1 .. ps[m].length /\ ps[m].start + i = i
          BY <2>3, <4>2
        <5>2. c[i] = ByteAt(text, ps[m].start + i)
          BY <2>4, <5>1
        <5> QED BY <5>1, <5>2
      <4>4. g[m][0 + i] = c[i] /\ 0 + i = i
        BY <2>10, <4>1, <4>2
      <4> QED BY <2>10, <3>0, <4>1, <4>2, <4>3, <4>4
    <3>2. CASE j # 0
      <4>0. j > 0
        BY <2>1, <3>2
      <4>1. i \in 1 .. Len(g[j]) /\ g[j][i] = ByteAt(text, i)
        BY <2>2, <4>0
      <4>2. i \in 1 .. Len(g[m]) /\ g[m][i] = g[j][i]
        <5>1. Len(g[m]) = Len(g[j]) + Len(c)
          BY <2>10
        <5>2. i \in 1 .. Len(g[m])
          BY <3>0, <4>1, <5>1
        <5>3. \A x \in 1 .. Len(g[j]) : g[m][x] = g[j][x]
          BY <2>10
        <5> QED BY <4>1, <5>2, <5>3
      <4> QED BY <4>1, <4>2
    <3> QED BY <3>1, <3>2
  <2>13. Good(m)
    BY <2>11, <2>12
  <2> HIDE DEF Good
  <2> QED BY <2>1, <2>13 DEF m
<1> HIDE DEF S, k
<1>5. 0 .. k \subseteq S
  BY <1>0, <1>3, <1>4, AllNaturals
<1>6. Good(k) /\ k \in 0 .. k
  BY <1>0, <1>5, SMTT(30) DEF S
<1>7. g[k] \in Seq(Byte) /\ Gathered(ps, text) = g[k]
  BY <1>0, <1>1, <1>6 DEF k
<1> QED BY <1>0, <1>6, <1>7 DEF k, Gathers

(* The logger: the invariant, and that every step keeps it. *)

\* Byte p of line k, which has n.
LineByte(k, n, p) == [line |-> k, place |-> p, last |-> p = n]

\* The text is that of the g lines after line f.
Laid(text, ls, f, g) ==
  /\ Len(text) = Total(ls, f + g) - Total(ls, f)
  /\ \A j \in 1 .. g : \A p \in 1 .. ls[f + j] :
       text[(Total(ls, f + j - 1) - Total(ls, f)) + p] = LineByte(f + j, ls[f + j], p)

\* A file as long as the first f lines, with the first of each flush as it was logged.
Kept(text, ls, f) ==
  /\ Len(text) = Total(ls, f)
  /\ \A k \in 1 .. f : (k - 1) % threshold = 0 =>
       \A p \in 1 .. ls[k] : text[Total(ls, k - 1) + p] = LineByte(k, ls[k], p)

\* The lines in the buffer, those a page has been made for included, and the lines filed.
Held == count + Len(pages)
Filed == Len(lines) - Held

\* What the proof needs of the variables' types.
LoggerTypes ==
  /\ logm \in Seq(Byte) /\ file \in Seq(Byte)
  /\ lines \in Seq(Nat \ {0}) /\ pages \in Seq(Pages)
  /\ count \in Nat /\ left \in Nat /\ closing \in BOOLEAN
  /\ pc \in {"ready", "flushing", "closed"}

\* Lines are filed a threshold at a time until the logger is closed, a flush turns once
\* for each line, and no page is left when the mutex is free.
Counting ==
  /\ Held <= Len(lines) /\ Held <= threshold
  /\ pc # "closed" => Filed % threshold = 0
  /\ pc = "ready" => ~closing /\ count < threshold
  /\ pc # "flushing" => pages = <<>>
  /\ pc = "flushing" => left = count /\ (closing \/ Held = threshold)

\* Where the lines are: the buffer has those held, the pages are for the first of them, the
\* pointer of a flush is behind these, and the file is as long as the lines filed.
Placing ==
  /\ Laid(logm, lines, Filed, Held)
  /\ Paging(pages, lines, Filed)
  /\ Kept(file, lines, Filed)
  /\ filepos = Total(lines, Filed + Len(pages))
  /\ pc = "flushing" => at = Total(lines, Filed + Len(pages)) - Total(lines, Filed)

\* The bytes of n lines of the greatest length.
Space(n) == n * MaxLength

\* Between calls there is room for one more line of any length, and in a flush the text is
\* no longer than a threshold of lines.
Room ==
  /\ pc = "ready" => Len(logm) <= Space(count)
  /\ pc = "flushing" => Len(logm) <= Space(threshold)
  /\ pc = "closed" => count = 0 /\ Len(logm) = 0

\* The inductive invariant of the logger.
LoggerInv == LoggerTypes /\ Counting /\ Placing /\ Room

\* The threshold is a number, and there is room for a line at least.
LEMMA ThresholdIs == threshold \in Nat \ {0}
BY SizeAssumption DEF threshold

\* A line of n bytes.
LEMMA LineIs ==
  ASSUME NEW k \in Nat, NEW n \in Nat
  PROVE  /\ LineOf(k, n) \in Seq(Byte) /\ Len(LineOf(k, n)) = n
         /\ \A p \in 1 .. n : LineOf(k, n)[p] = LineByte(k, n, p)
<1>1. LineOf(k, n) = [p \in 1 .. n |-> LineByte(k, n, p)]
  BY DEF LineOf, LineByte
<1>2. \A p \in 1 .. n : LineByte(k, n, p) \in Byte
  <2> TAKE p \in 1 .. n
  <2>1. (p = n) \in BOOLEAN /\ p \in Nat
    OBVIOUS
  <2> QED BY <2>1 DEF LineByte, Byte
<1> QED BY <1>1, <1>2

\* A line printed behind those of the buffer is laid there with them.
LEMMA LaidMore ==
  ASSUME NEW text \in Seq(Byte), NEW ls \in Seq(Nat \ {0}), NEW f \in Nat, NEW g \in Nat,
         f + g = Len(ls), NEW n \in Nat \ {0}, Laid(text, ls, f, g)
  PROVE  Laid(text \o LineOf(Len(ls) + 1, n), Append(ls, n), f, g + 1)
<1> DEFINE k == Len(ls)
           c == LineOf(k + 1, n)
           b == text \o c
           ms == Append(ls, n)
<1>1. /\ k \in Nat /\ k + 1 \in Nat /\ ls \in Seq(Nat) /\ n \in Nat
      /\ ms[k + 1] = n /\ \A i \in 1 .. k : ms[i] = ls[i]
  OBVIOUS
<1>2. c \in Seq(Byte) /\ Len(c) = n /\ \A p \in 1 .. n : c[p] = LineByte(k + 1, n, p)
  BY <1>1, LineIs
<1>3. Joins(b, text, c)
  <2> HIDE DEF c
  <2> QED BY <1>2, Joined
<1>4. /\ \A i \in 0 .. k : Total(ms, i) = Total(ls, i)
      /\ Total(ms, k + 1) = Total(ls, k) + n
  BY <1>1, TotalOfMore
<1>5. /\ \A i \in 0 .. k : Total(ls, i) \in Nat
      /\ \A i \in 1 .. k : Total(ls, i) = Total(ls, i - 1) + ls[i]
  BY <1>1, TotalGrows
<1>6. /\ Len(text) = Total(ls, k) - Total(ls, f)
      /\ \A j \in 1 .. g : \A p \in 1 .. ls[f + j] :
           text[(Total(ls, f + j - 1) - Total(ls, f)) + p] = LineByte(f + j, ls[f + j], p)
  BY DEF Laid
<1>7. f \in 0 .. k /\ f + (g + 1) = k + 1 /\ k \in 0 .. k
  <2>1. f \in Nat /\ g \in Nat /\ k \in Nat /\ f + g = k
    BY <1>1
  <2> HIDE DEF k
  <2> QED BY <2>1
<1> HIDE DEF k, c, b, ms
<1>8. /\ Len(b) = Len(text) + n
      /\ \A i \in 1 .. Len(text) : b[i] = text[i]
      /\ \A i \in 1 .. n : b[Len(text) + i] = c[i]
  BY <1>2, <1>3 DEF Joins
<1>9. Len(b) = Total(ms, f + (g + 1)) - Total(ms, f)
  <2>1. Total(ms, f + (g + 1)) = Total(ls, k) + n /\ Total(ms, f) = Total(ls, f)
    BY <1>4, <1>7
  <2>2. Total(ls, k) \in Nat /\ Total(ls, f) \in Nat
    BY <1>5, <1>7
  <2> QED BY <1>1, <1>6, <1>8, <2>1, <2>2
<1>10. ASSUME NEW j \in 1 .. g + 1, NEW p \in 1 .. ms[f + j]
       PROVE  b[(Total(ms, f + j - 1) - Total(ms, f)) + p] = LineByte(f + j, ms[f + j], p)
  <2>1. CASE j = g + 1
    <3>0. f + j = k + 1 /\ f + j - 1 = k
      BY <1>7, <2>1
    <3>1. f + j = k + 1 /\ f + j - 1 = k /\ ms[f + j] = n
      BY <1>1, <3>0
    <3>2. Total(ms, f + j - 1) - Total(ms, f) = Len(text)
      BY <1>4, <1>6, <1>7, <3>1
    <3> QED BY <1>2, <1>8, <3>1, <3>2
  <2>2. CASE j # g + 1
    <3>1. /\ j \in 1 .. g /\ f + j \in 1 .. k /\ f + j \in 0 .. k /\ f + j - 1 \in 0 .. k
          /\ ms[f + j] = ls[f + j] /\ ls[f + j] \in Nat
      <4>1. j \in 1 .. g /\ f + j \in 1 .. k /\ f + j \in 0 .. k /\ f + j - 1 \in 0 .. k
        BY <1>1, <2>2, SMTT(30) DEF k
      <4>2. f + j \in 1 .. Len(ls)
        BY <1>1, <4>1 DEF k
      <4> QED BY <1>1, <1>7, <4>1, <4>2
    <3> DEFINE x == Total(ls, f + j - 1) - Total(ls, f)
    <3>2. Total(ms, f + j - 1) - Total(ms, f) = x
      BY <1>4, <1>7, <3>1
    <3>3. Total(ls, f + j) = Total(ls, f + j - 1) + ls[f + j]
      BY <1>5, <3>1
    <3>4. Total(ls, f) <= Total(ls, f + j - 1) /\ Total(ls, f + j) <= Total(ls, k)
      <4>1. f = f + j - 1 \/ f < f + j - 1
        BY <3>1
      <4>2. f + j = k \/ f + j < k
        BY <1>1, <3>1
      <4>3. f < f + j - 1 => Total(ls, f) < Total(ls, f + j - 1)
        BY <1>7, <3>1, TotalOrder DEF k
      <4>4. f + j < k => Total(ls, f + j) < Total(ls, k)
        BY <1>7, <3>1, TotalOrder DEF k
      <4>5. /\ Total(ls, f) \in Nat /\ Total(ls, f + j - 1) \in Nat
            /\ Total(ls, f + j) \in Nat /\ Total(ls, k) \in Nat
        BY <1>5, <1>7, <3>1
      <4>6. CASE f = f + j - 1
        BY <4>2, <4>4, <4>5, <4>6
      <4>7. CASE f < f + j - 1
        BY <4>2, <4>3, <4>4, <4>5, <4>7
      <4> QED BY <4>1, <4>6, <4>7
    <3>5. x + p \in 1 .. Len(text)
      <4>1. /\ Total(ls, f) \in Nat /\ Total(ls, f + j - 1) \in Nat
            /\ Total(ls, f + j) \in Nat /\ Total(ls, k) \in Nat
        BY <1>5, <1>7, <3>1
      <4>2. p \in 1 .. ls[f + j] /\ ls[f + j] \in Nat
        BY <3>1
      <4>3. Len(text) = Total(ls, k) - Total(ls, f)
        BY <1>6
      <4>4. p \in Nat /\ p > 0 /\ p <= ls[f + j]
        BY <4>2
      <4>5. x \in Nat /\ x + ls[f + j] = Total(ls, f + j) - Total(ls, f)
        <5> DEFINE a == Total(ls, f)
                   d == Total(ls, f + j - 1)
                   e == Total(ls, f + j)
                   w == ls[f + j]
        <5>1. a \in Nat /\ d \in Nat /\ w \in Nat /\ e = d + w /\ a <= d
          BY <3>3, <3>4, <4>1, <4>2
        <5> HIDE DEF a, d, e, w
        <5>2. d - a \in Nat /\ (d - a) + w = e - a
          BY <5>1
        <5> QED BY <5>2 DEF a, d, e, w
      <4>6. x + ls[f + j] <= Len(text) /\ Len(text) \in Int
        BY <3>4, <4>1, <4>3, <4>5
      <4> HIDE DEF x
      <4> QED BY <4>2, <4>4, <4>5, <4>6
    <3>6. text[x + p] = LineByte(f + j, ls[f + j], p)
      BY <1>6, <3>1
    <3> HIDE DEF x
    <3> QED BY <1>8, <3>1, <3>2, <3>5, <3>6
  <2> QED BY <2>1, <2>2
<1>11. Laid(b, ms, f, g + 1)
  BY <1>9, <1>10 DEF Laid
<1> QED BY <1>11 DEF b, c, ms, k

\* A line more changes nothing of the lines filed.
LEMMA KeptOfMore ==
  ASSUME NEW text \in Seq(Byte), NEW ls \in Seq(Nat \ {0}), NEW f \in 0 .. Len(ls),
         NEW n \in Nat, Kept(text, ls, f)
  PROVE  Kept(text, Append(ls, n), f)
<1> DEFINE ms == Append(ls, n)
<1>1. ls \in Seq(Nat) /\ Len(ls) \in Nat /\ \A i \in 1 .. Len(ls) : ms[i] = ls[i]
  OBVIOUS
<1>2. \A i \in 0 .. Len(ls) : Total(ms, i) = Total(ls, i)
  BY <1>1, TotalOfMore
<1> HIDE DEF ms
<1>3. ASSUME NEW k \in 1 .. f PROVE /\ ms[k] = ls[k] /\ Total(ms, k - 1) = Total(ls, k - 1)
  <2>1. k \in 1 .. Len(ls) /\ k - 1 \in 0 .. Len(ls)
    BY <1>1
  <2> QED BY <1>1, <1>2, <2>1
<1>4. Kept(text, ms, f)
  BY <1>2, <1>3 DEF Kept
<1> QED BY <1>4 DEF ms

\* The bytes of line k lie behind those of the lines before it and no further than those
\* of any later one.
LEMMA LineWithin ==
  ASSUME NEW ls \in Seq(Nat \ {0}), NEW f \in 0 .. Len(ls), NEW k \in 1 .. Len(ls),
         NEW h \in 0 .. Len(ls), f < k, k <= h
  PROVE  /\ Total(ls, f) \in Nat /\ Total(ls, k - 1) \in Nat /\ Total(ls, h) \in Nat
         /\ Total(ls, f) <= Total(ls, k - 1) /\ Total(ls, k - 1) + ls[k] <= Total(ls, h)
<1>1. Len(ls) \in Nat /\ ls \in Seq(Nat) /\ ls[k] \in Nat /\ k - 1 \in 0 .. Len(ls)
      /\ k \in 0 .. Len(ls)
  OBVIOUS
<1>2. /\ Total(ls, f) \in Nat /\ Total(ls, k - 1) \in Nat /\ Total(ls, h) \in Nat
      /\ Total(ls, k) \in Nat /\ Total(ls, k) = Total(ls, k - 1) + ls[k]
  BY <1>1, TotalGrows
<1>3. f < k - 1 => Total(ls, f) < Total(ls, k - 1)
  BY <1>1, TotalOrder
<1>4. k < h => Total(ls, k) < Total(ls, h)
  BY <1>1, TotalOrder
<1>5. f = k - 1 \/ f < k - 1
  BY <1>1
<1>6. Total(ls, f) <= Total(ls, k - 1)
  BY <1>2, <1>3, <1>5
<1>7. k = h \/ k < h
  BY <1>1
<1>8. Total(ls, k) <= Total(ls, h)
  BY <1>2, <1>4, <1>7
<1> QED BY <1>2, <1>6, <1>8

\* A flush of the lines after line f leaves the file with them, the first as it was logged.
LEMMA KeptMore ==
  ASSUME NEW past \in Seq(Byte), NEW text \in Seq(Byte), NEW ls \in Seq(Nat \ {0}),
         NEW ps \in Seq(Pages), NEW f \in Nat, f + Len(ps) <= Len(ls), Len(ps) <= threshold,
         f % threshold = 0,
         Laid(text, ls, f, Len(ps)), Paging(ps, ls, f), Kept(past, ls, f)
  PROVE  /\ past \o Gathered(ps, text) \in Seq(Byte)
         /\ Kept(past \o Gathered(ps, text), ls, f + Len(ps))
<1> DEFINE m == Len(ps)
           c == Gathered(ps, text)
           b == past \o c
<1>1. /\ m \in Nat /\ ls \in Seq(Nat) /\ Len(ls) \in Nat /\ f \in 0 .. Len(ls)
      /\ f + m \in 0 .. Len(ls) /\ threshold \in Nat \ {0} /\ m <= threshold
  BY ThresholdIs
<1>2. /\ c \in Seq(Byte) /\ Len(c) = Total(ls, f + m) - Total(ls, f)
      /\ m > 0 => \A i \in 1 .. ls[f + 1] : c[i] = ByteAt(text, i)
  <2>1. Gathers(Gathered(ps, text), ps, text, ls, f)
    BY <1>1, GatheredText
  <2> QED BY <2>1 DEF Gathers
<1>3. Joins(b, past, c)
  <2> HIDE DEF c
  <2> QED BY <1>2, Joined
<1>4. /\ Len(past) = Total(ls, f)
      /\ \A k \in 1 .. f : (k - 1) % threshold = 0 =>
           \A p \in 1 .. ls[k] : past[Total(ls, k - 1) + p] = LineByte(k, ls[k], p)
  BY DEF Kept
<1>5. /\ Len(text) = Total(ls, f + m) - Total(ls, f)
      /\ \A j \in 1 .. m : \A p \in 1 .. ls[f + j] :
           text[(Total(ls, f + j - 1) - Total(ls, f)) + p] = LineByte(f + j, ls[f + j], p)
  BY DEF Laid
<1> HIDE DEF m, c, b
<1>6. /\ b \in Seq(Byte) /\ Len(b) = Len(past) + Len(c)
      /\ \A i \in 1 .. Len(past) : b[i] = past[i]
      /\ \A i \in 1 .. Len(c) : b[Len(past) + i] = c[i]
  BY <1>3 DEF Joins
<1>7. Total(ls, f) \in Nat /\ Total(ls, f + m) \in Nat
  BY <1>1, TotalGrows
<1>8. Len(b) = Total(ls, f + m)
  BY <1>2, <1>4, <1>6, <1>7
<1>9. ASSUME NEW k \in 1 .. f + m, (k - 1) % threshold = 0, NEW p \in 1 .. ls[k]
      PROVE  b[Total(ls, k - 1) + p] = LineByte(k, ls[k], p)
  <2>0. k \in 1 .. Len(ls) /\ ls[k] \in Nat /\ p \in Nat /\ p > 0 /\ p <= ls[k] /\ k \in Nat
    BY <1>1
  <2>1. CASE k <= f
    <3>1. Total(ls, k - 1) \in Nat /\ Total(ls, k - 1) + ls[k] <= Total(ls, f)
      <4>1. 0 \in 0 .. Len(ls) /\ 0 < k
        BY <1>1, <2>0
      <4> QED BY <1>1, <2>0, <2>1, <4>1, LineWithin
    <3>2. Total(ls, k - 1) + p \in 1 .. Len(past)
      <4> DEFINE x == Total(ls, k - 1)
                 y == Total(ls, f)
                 z == ls[k]
      <4>1. x \in Nat /\ x + z <= y /\ y \in Nat /\ z \in Nat /\ Len(past) = y
            /\ p \in Nat /\ p > 0 /\ p <= z
        BY <1>4, <1>7, <2>0, <3>1
      <4> HIDE DEF x, y, z
      <4>2. x + p \in 1 .. y
        BY <4>1
      <4> QED BY <4>1, <4>2 DEF x
    <3>3. k \in 1 .. f
      BY <1>1, <2>0, <2>1
    <3>4. past[Total(ls, k - 1) + p] = LineByte(k, ls[k], p)
      BY <1>4, <1>9, <3>3
    <3> QED BY <1>6, <3>2, <3>4
  <2>2. CASE k > f
    <3>1. k = f + 1
      <4> DEFINE i == k - 1 - f
      <4>1. i \in 0 .. threshold - 1 /\ f + i = k - 1 /\ i \in Nat
        BY <1>1, <2>0, <2>2
      <4> HIDE DEF i
      <4>2. (f + i) % threshold = i % threshold
        BY <1>1, <4>1, MultipleAdded
      <4>3. i % threshold = i
        BY <1>1, <4>1, SmallRemainder
      <4>4. i = 0
        BY <1>9, <4>1, <4>2, <4>3
      <4> QED BY <2>0, <4>1, <4>4
    <3>2. /\ k - 1 = f /\ 1 \in 1 .. m /\ m > 0 /\ f + 1 - 1 = f
          /\ Total(ls, f) + ls[k] <= Total(ls, f + m)
      <4>1. k - 1 = f /\ m > 0 /\ f < k /\ k <= f + m
        BY <1>1, <2>0, <3>1
      <4>2. Total(ls, k - 1) + ls[k] <= Total(ls, f + m)
        BY <1>1, <2>0, <4>1, LineWithin
      <4> QED BY <1>1, <4>1, <4>2
    <3>3. p \in 1 .. Len(c) /\ p <= Len(text)
      BY <1>2, <1>5, <1>7, <2>0, <3>2, SMTT(30)
    <3>4. c[p] = ByteAt(text, p)
      BY <1>2, <3>1, <3>2
    <3>5. text[p] = LineByte(k, ls[k], p)
      <4>1. text[(Total(ls, f + 1 - 1) - Total(ls, f)) + p] = LineByte(f + 1, ls[f + 1], p)
        BY <1>5, <3>1, <3>2
      <4>2. Total(ls, f + 1 - 1) = Total(ls, f) /\ (Total(ls, f) - Total(ls, f)) + p = p
        BY <1>7, <2>0, <3>2
      <4> QED BY <3>1, <4>1, <4>2
    <3>6. b[Len(past) + p] = c[p] /\ Total(ls, k - 1) = Len(past)
      BY <1>4, <1>6, <3>2, <3>3
    <3> QED BY <3>3, <3>4, <3>5, <3>6 DEF ByteAt
  <2> QED BY <1>1, <2>0, <2>1, <2>2
<1>10. b \in Seq(Byte) /\ Kept(b, ls, f + m)
  BY <1>6, <1>8, <1>9 DEF Kept
<1> QED BY <1>10 DEF b, c, m

\* In a flush, what is behind the next newline is behind the next line.
LEMMA NextLine ==
  ASSUME LoggerInv, Page
  PROVE  /\ Filed + Len(pages) + 1 \in 1 .. Len(lines)
         /\ AfterLine - at = lines[Filed + Len(pages) + 1]
         /\ AfterLine = Total(lines, Filed + Len(pages) + 1) - Total(lines, Filed)
<1> DEFINE f == Filed
           m == Len(pages)
           g == Held
           k == f + m + 1
           n == lines[k]
           e == at + n
<1>1. /\ g \in Nat /\ f \in Nat /\ m \in Nat /\ f + g = Len(lines) /\ m < g
      /\ lines \in Seq(Nat \ {0}) /\ lines \in Seq(Nat) /\ Len(lines) \in Nat
  BY DEF LoggerInv, LoggerTypes, Counting, Page, Held, Filed
<1>2. /\ Len(logm) = Total(lines, f + g) - Total(lines, f)
      /\ \A j \in 1 .. g : \A p \in 1 .. lines[f + j] :
           logm[(Total(lines, f + j - 1) - Total(lines, f)) + p] = LineByte(f + j, lines[f + j], p)
      /\ at = Total(lines, f + m) - Total(lines, f)
  BY DEF LoggerInv, Placing, Laid, Page
<1>3. /\ k \in 1 .. Len(lines) /\ k \in 0 .. Len(lines) /\ k - 1 = f + m
      /\ f + (m + 1) = k /\ m + 1 \in 1 .. g
      /\ f \in 0 .. Len(lines) /\ f + g \in 0 .. Len(lines) /\ f < k /\ k <= f + g
  BY <1>1
<1> HIDE DEF f, m, g, k
<1>4. /\ Total(lines, f) \in Nat /\ Total(lines, k - 1) \in Nat /\ Total(lines, f + g) \in Nat
      /\ Total(lines, f) <= Total(lines, k - 1) /\ Total(lines, k - 1) + n <= Total(lines, f + g)
  BY <1>1, <1>3, LineWithin
<1>5. n \in Nat /\ n > 0
  BY <1>1, <1>3
<1>6. Total(lines, k) = Total(lines, k - 1) + n
  BY <1>1, <1>3, TotalGrows
<1>7. at \in Nat /\ Len(logm) \in Nat /\ e \in at + 1 .. Len(logm)
  <2>1. at = Total(lines, k - 1) - Total(lines, f)
    BY <1>2, <1>3
  <2>2. Len(logm) = Total(lines, f + g) - Total(lines, f)
    BY <1>2
  <2> HIDE DEF n
  <2> QED BY <1>4, <1>5, <2>1, <2>2
<1>8. \A p \in 1 .. n : logm[at + p] = LineByte(k, n, p)
  <2>1. \A p \in 1 .. lines[f + (m + 1)] :
          logm[(Total(lines, f + (m + 1) - 1) - Total(lines, f)) + p]
            = LineByte(f + (m + 1), lines[f + (m + 1)], p)
    BY <1>2, <1>3
  <2> QED BY <1>2, <1>3, <2>1, SMTT(30)
<1>9. \A i \in at + 1 .. e : logm[i].last <=> i = e
  <2> TAKE i \in at + 1 .. e
  <2> DEFINE p == i - at
  <2>1. p \in 1 .. n /\ at + p = i /\ (p = n <=> i = e)
    BY <1>5, <1>7
  <2> HIDE DEF p, e, n
  <2>2. logm[i] = LineByte(k, n, p)
    BY <1>8, <2>1
  <2>3. logm[i].last <=> p = n
    <3>1. CASE p = n
      <4>1. logm[i] = [line |-> k, place |-> p, last |-> TRUE]
        BY <2>2, <3>1 DEF LineByte
      <4> QED BY <3>1, <4>1
    <3>2. CASE p # n
      <4>1. logm[i] = [line |-> k, place |-> p, last |-> FALSE]
        BY <2>2, <3>2 DEF LineByte
      <4> QED BY <3>2, <4>1
    <3> QED BY <3>1, <3>2
  <2> QED BY <2>1, <2>3
<1> HIDE DEF e
<1>10. /\ logm[e].last /\ \A j \in at + 1 .. e - 1 : ~logm[j].last
  BY <1>7, <1>9
<1>11. ASSUME NEW i \in at + 1 .. Len(logm),
              logm[i].last, \A j \in at + 1 .. i - 1 : ~logm[j].last
       PROVE  i = e
  <2>1. i < e => FALSE
    BY <1>7, <1>10, <1>11
  <2>2. e < i => FALSE
    BY <1>7, <1>10, <1>11
  <2> QED BY <1>7, <2>1, <2>2
<1>12. AfterLine = e
  BY <1>7, <1>10, <1>11 DEF AfterLine
<1>13. e - at = n /\ e = Total(lines, k) - Total(lines, f)
  <2>1. at = Total(lines, k - 1) - Total(lines, f)
    BY <1>2, <1>3
  <2>2. e = at + n
    BY DEF e
  <2> DEFINE x == Total(lines, k - 1)
             y == Total(lines, f)
             z == Total(lines, k)
  <2>3. x \in Nat /\ y \in Nat /\ z = x + n /\ at = x - y /\ n \in Nat /\ at \in Nat
    BY <1>4, <1>5, <1>6, <1>7, <2>1
  <2> HIDE DEF n, x, y, z
  <2>4. e - at = n /\ e = z - y
    BY <2>2, <2>3
  <2> QED BY <2>4 DEF y, z
<1>14. k \in 1 .. Len(lines) /\ AfterLine - at = lines[k]
       /\ AfterLine = Total(lines, k) - Total(lines, f)
  BY <1>3, <1>12, <1>13
<1> QED BY <1>14 DEF f, m, k

\* More lines take more space, and one line more takes MaxLength bytes more.
LEMMA SpaceGrows ==
  /\ Space(0) = 0
  /\ \A n \in Nat : Space(n) \in Nat /\ Space(n + 1) = Space(n) + MaxLength
  /\ \A n, m \in Nat : n <= m => Space(n) <= Space(m)
BY SizeAssumption DEF Space

\* The buffer holds threshold lines of the greatest length, the mark and the zero.
LEMMA ThresholdFits ==
  /\ threshold \in Nat \ {0}
  /\ Space(threshold) + 2 <= BufferSize
BY SizeAssumption DEF threshold, Space

\* The logger starts with nothing in the buffer or the file.
LEMMA LoggerStarts == LoggerInit => LoggerInv
<1> SUFFICES ASSUME LoggerInit PROVE LoggerInv
  OBVIOUS
<1>1. /\ Len(pages) = 0 /\ Len(lines) = 0 /\ Len(logm) = 0 /\ Len(file) = 0
      /\ Held = 0 /\ Filed = 0 /\ lines \in Seq(Nat)
  BY DEF LoggerInit, Held, Filed
<1>2. Total(lines, 0) = 0
  BY <1>1, TotalGrows
<1>3. LoggerTypes
  <2>1. <<>> \in Seq(Byte) /\ <<>> \in Seq(Nat \ {0}) /\ <<>> \in Seq(Pages) /\ FALSE \in BOOLEAN
    OBVIOUS
  <2> QED BY <2>1 DEF LoggerInit, LoggerTypes
<1>4. Counting
  <2>1. 0 % threshold = 0
    BY ThresholdIs, SmallRemainder
  <2> QED BY <1>1, <2>1, ThresholdIs DEF LoggerInit, Counting
<1>5. Laid(logm, lines, Filed, Held) /\ Paging(pages, lines, Filed) /\ Kept(file, lines, Filed)
  BY <1>1, <1>2 DEF Laid, Paging, Kept
<1>6. Placing
  <2>1. filepos = Total(lines, Filed + Len(pages)) /\ pc # "flushing"
    BY <1>1, <1>2 DEF LoggerInit
  <2> QED BY <1>5, <2>1 DEF Placing
<1>7. Room
  <2>1. Space(0) = 0 /\ pc = "ready" /\ count = 0
    BY SpaceGrows DEF LoggerInit
  <2> QED BY <1>1, <2>1 DEF Room
<1> QED BY <1>3, <1>4, <1>6, <1>7 DEF LoggerInv

\* One more line, laid behind those held.
LEMMA WriteKeeps ==
  ASSUME LoggerInv, NEW n \in 1 .. MaxLength, Write(n)
  PROVE  LoggerInv'
<1>1. n \in Nat /\ n \in Nat \ {0}
  BY SizeAssumption
<1>2. /\ logm \in Seq(Byte) /\ file \in Seq(Byte) /\ lines \in Seq(Nat \ {0}) /\ count \in Nat
      /\ pages = <<>> /\ Len(pages) = 0 /\ Len(lines) \in Nat /\ lines \in Seq(Nat)
      /\ pc = "ready" /\ ~closing /\ left \in Nat
  BY DEF LoggerInv, LoggerTypes, Counting, Write
<1>3. /\ Held = count /\ Held \in Nat /\ Filed \in Nat /\ Filed + Held = Len(lines)
      /\ Filed + Len(pages) = Filed /\ Held <= threshold /\ Filed % threshold = 0
  BY <1>2 DEF LoggerInv, LoggerTypes, Counting, Held, Filed
<1>4. /\ logm' = logm \o LineOf(Len(lines) + 1, n) /\ lines' = Append(lines, n)
      /\ count' = count + 1 /\ pages' = pages /\ file' = file /\ filepos' = filepos
      /\ closing' = closing
  BY DEF Write
<1>5. Len(lines') = Len(lines) + 1 /\ lines' \in Seq(Nat \ {0})
  BY <1>1, <1>2, <1>4
<1>6. Held' = Held + 1 /\ Filed' = Filed
  BY <1>2, <1>3, <1>4, <1>5 DEF Held, Filed
<1>7. logm' \in Seq(Byte)
  <2>1. Len(lines) + 1 \in Nat
    BY <1>2
  <2>2. LineOf(Len(lines) + 1, n) \in Seq(Byte)
    BY <1>1, <2>1, LineIs
  <2> QED BY <1>2, <1>4, <2>2, ConcatProperties
<1>8. Laid(logm', lines', Filed', Held')
  <2>1. Laid(logm, lines, Filed, Held)
    BY DEF LoggerInv, Placing
  <2>2. Laid(logm \o LineOf(Len(lines) + 1, n), Append(lines, n), Filed, Held + 1)
    BY <1>1, <1>2, <1>3, <2>1, LaidMore
  <2> QED BY <1>4, <1>6, <2>2
<1>9. Paging(pages', lines', Filed')
  BY <1>2, <1>4 DEF Paging
<1>10. Kept(file', lines', Filed')
  <2>1. Kept(file, lines, Filed) /\ Filed \in 0 .. Len(lines)
    BY <1>2, <1>3 DEF LoggerInv, Placing
  <2>2. Kept(file, Append(lines, n), Filed)
    BY <1>1, <1>2, <2>1, KeptOfMore
  <2> QED BY <1>4, <1>6, <2>2
<1>11. Total(lines', Filed) = Total(lines, Filed) /\ Total(lines, Filed) \in Nat
  <2>1. Filed \in 0 .. Len(lines)
    BY <1>2, <1>3
  <2>2. Total(Append(lines, n), Filed) = Total(lines, Filed)
    BY <1>1, <1>2, <2>1, TotalOfMore
  <2> QED BY <1>2, <1>4, <2>1, <2>2, TotalGrows
<1>12. Filed' + Len(pages') = Filed /\ filepos' = Total(lines', Filed' + Len(pages'))
  <2>1. Filed' + Len(pages') = Filed
    BY <1>2, <1>3, <1>4, <1>6
  <2>2. filepos = Total(lines, Filed)
    BY <1>3 DEF LoggerInv, Placing
  <2> QED BY <1>4, <1>11, <2>1, <2>2
<1>13. count < threshold /\ threshold \in Nat /\ Held' = count' /\ Held' <= threshold
  <2>1. count < threshold
    BY DEF LoggerInv, Counting, Write
  <2> QED BY <1>2, <1>3, <1>4, <1>6, <2>1, ThresholdIs
<1>16. Len(logm') <= Space(count')
  <2>1. Len(logm') = Len(logm) + n /\ Len(logm) \in Nat
    <3>1. Len(lines) + 1 \in Nat
      BY <1>2
    <3>2. LineOf(Len(lines) + 1, n) \in Seq(Byte) /\ Len(LineOf(Len(lines) + 1, n)) = n
      BY <1>1, <3>1, LineIs
    <3>3. Joins(logm', logm, LineOf(Len(lines) + 1, n))
      BY <1>2, <1>4, <3>2, Joined
    <3>4. Len(logm) \in Nat
      BY <1>2
    <3> QED BY <3>2, <3>3, <3>4 DEF Joins
  <2>2. Space(count) \in Nat /\ Space(count + 1) = Space(count) + MaxLength
    BY <1>2, SpaceGrows
  <2>3. Len(logm) <= Space(count)
    BY <1>2 DEF LoggerInv, Room
  <2>4. n <= MaxLength /\ MaxLength \in Nat
    BY SizeAssumption
  <2>5. Space(count') = Space(count + 1)
    BY <1>4
  <2> QED BY <1>1, <2>1, <2>2, <2>3, <2>4, <2>5
<1>14. CASE FlushIsDue(count')
  <2>1. pc' = "flushing" /\ left' = count' /\ at' = 0
    BY <1>14 DEF Write
  <2>2. Held' = threshold
    BY <1>13, <1>14 DEF FlushIsDue
  <2>3. LoggerTypes'
    BY <1>2, <1>4, <1>5, <1>7, <2>1 DEF LoggerInv, LoggerTypes
  <2>4. Counting'
    BY <1>2, <1>3, <1>4, <1>5, <1>6, <1>13, <2>1, <2>2 DEF Counting
  <2>5. at' = Total(lines', Filed' + Len(pages')) - Total(lines', Filed')
    BY <1>6, <1>11, <1>12, <2>1
  <2>6. Placing'
    BY <1>8, <1>9, <1>10, <1>12, <2>5 DEF Placing
  <2>7. Room'
    BY <1>14, <1>16, <2>1 DEF Room, FlushIsDue
  <2> QED BY <2>3, <2>4, <2>6, <2>7 DEF LoggerInv
<1>15. CASE ~FlushIsDue(count')
  <2>1. pc' = "ready" /\ left' = left
    BY <1>2, <1>15 DEF Write
  <2>3. LoggerTypes'
    BY <1>2, <1>4, <1>5, <1>7, <2>1 DEF LoggerInv, LoggerTypes
  <2>2. count' < threshold /\ ~closing'
    <3>1. count' # threshold
      BY <1>15 DEF FlushIsDue
    <3> QED BY <1>2, <1>4, <1>13, <3>1
  <2>4. Counting'
    BY <1>2, <1>3, <1>4, <1>5, <1>6, <1>13, <2>1, <2>2 DEF Counting
  <2>6. Placing'
    BY <1>8, <1>9, <1>10, <1>12, <2>1 DEF Placing
  <2>7. Room'
    BY <1>16, <2>1 DEF Room
  <2> QED BY <2>3, <2>4, <2>6, <2>7 DEF LoggerInv
<1> QED BY <1>14, <1>15

\* logger_destroy starts the loop with whatever lines are there.
LEMMA DestroyKeeps ==
  ASSUME LoggerInv, Destroy
  PROVE  LoggerInv'
<1>1. /\ pc = "ready" /\ pc' = "flushing" /\ closing' = TRUE /\ left' = count /\ at' = 0
      /\ logm' = logm /\ count' = count /\ pages' = pages /\ file' = file
      /\ filepos' = filepos /\ lines' = lines
  BY DEF Destroy
<1>2. Held' = Held /\ Filed' = Filed
  BY <1>1 DEF Held, Filed
<1>3. /\ count \in Nat /\ pages = <<>> /\ Len(pages) = 0 /\ Len(lines) \in Nat
      /\ lines \in Seq(Nat) /\ Held = count /\ Filed + Len(pages) = Filed
      /\ Filed \in 0 .. Len(lines)
  BY <1>1 DEF LoggerInv, LoggerTypes, Counting, Held, Filed
<1>4. LoggerTypes'
  BY <1>1 DEF LoggerInv, LoggerTypes
<1>5. Counting'
  BY <1>1, <1>2 DEF LoggerInv, Counting
<1>6. Placing'
  <2>1. Total(lines, Filed) \in Nat
    BY <1>3, TotalGrows
  <2>2. at' = Total(lines', Filed' + Len(pages')) - Total(lines', Filed')
    BY <1>1, <1>2, <1>3, <2>1
  <2> QED BY <1>1, <1>2, <2>2 DEF LoggerInv, Placing
<1>7. Room'
  <2>1. Len(logm) <= Space(count) /\ count <= threshold /\ Len(logm) \in Nat
    BY <1>1, <1>3, ThresholdIs DEF LoggerInv, LoggerTypes, Counting, Room
  <2>2. Space(count) <= Space(threshold) /\ Space(count) \in Nat /\ Space(threshold) \in Nat
    BY <1>3, <2>1, SpaceGrows, ThresholdIs
  <2>3. Len(logm) <= Space(threshold)
    BY <2>1, <2>2
  <2> QED BY <1>1, <2>3 DEF Room
<1> QED BY <1>4, <1>5, <1>6, <1>7 DEF LoggerInv

\* A turn of the loop makes the page of the next line.
LEMMA PageKeeps ==
  ASSUME LoggerInv, Page
  PROVE  LoggerInv'
<1> DEFINE k == Filed + Len(pages) + 1
           page == [start |-> 0, length |-> lines[k]]
<1>1. /\ k \in 1 .. Len(lines) /\ AfterLine - at = lines[k]
      /\ AfterLine = Total(lines, k) - Total(lines, Filed)
  BY NextLine
<1>2. /\ pages' = Append(pages, page) /\ pc = "flushing" /\ pc' = "flushing"
      /\ count' = count - 1 /\ left > 0 /\ left' = left - 1
      /\ at' = AfterLine /\ filepos' = filepos + AfterLine - at
      /\ logm' = logm /\ file' = file /\ closing' = closing /\ lines' = lines
  BY <1>1 DEF Page, Paged
<1>3. /\ lines \in Seq(Nat \ {0}) /\ lines \in Seq(Nat) /\ Len(lines) \in Nat
      /\ count \in Nat /\ left \in Nat /\ left = count /\ pages \in Seq(Pages)
      /\ Filed \in Nat /\ Held \in Nat /\ Filed + Held = Len(lines) /\ Len(pages) \in Nat
      /\ Held = count + Len(pages)
  <2>1. lines \in Seq(Nat \ {0}) /\ count \in Nat /\ left \in Nat /\ pages \in Seq(Pages)
    BY DEF LoggerInv, LoggerTypes
  <2>2. Held <= Len(lines) /\ left = count
    BY <1>2 DEF LoggerInv, Counting
  <2>3. lines \in Seq(Nat) /\ Len(lines) \in Nat /\ Len(pages) \in Nat
    BY <2>1
  <2> QED BY <2>1, <2>2, <2>3 DEF Held, Filed
<1>4. lines[k] \in Nat /\ page \in Pages
  BY <1>1, <1>3 DEF Pages
<1> HIDE DEF page
<1>5. /\ pages' \in Seq(Pages) /\ Len(pages') = Len(pages) + 1
      /\ pages'[Len(pages) + 1] = page /\ \A j \in 1 .. Len(pages) : pages'[j] = pages[j]
  BY <1>2, <1>3, <1>4
<1>6. Held' = Held /\ Filed' = Filed /\ count' \in Nat /\ left' \in Nat /\ left' = count'
  BY <1>2, <1>3, <1>5 DEF Held, Filed
<1>7. Filed' + Len(pages') = k /\ k - 1 = Filed + Len(pages)
  BY <1>3, <1>5, <1>6
<1>8. LoggerTypes'
  BY <1>2, <1>5, <1>6 DEF LoggerInv, LoggerTypes
<1>9. Counting'
  BY <1>2, <1>6 DEF LoggerInv, Counting
<1>10. Paging(pages', lines', Filed')
  <2> SUFFICES ASSUME NEW j \in 1 .. Len(pages')
               PROVE  pages'[j].start = 0 /\ pages'[j].length = lines[Filed + j]
    BY <1>2, <1>6 DEF Paging
  <2>1. CASE j = Len(pages) + 1
    <3>1. Filed + j = k
      BY <1>3, <2>1
    <3>2. pages'[j] = [start |-> 0, length |-> lines[k]]
      BY <1>5, <2>1 DEF page
    <3> QED BY <3>1, <3>2
  <2>2. CASE j # Len(pages) + 1
    <3>1. j \in 1 .. Len(pages)
      BY <1>3, <1>5, <2>2
    <3> QED BY <1>5, <3>1 DEF LoggerInv, Placing, Paging
  <2> QED BY <2>1, <2>2
<1>11. filepos' = Total(lines', Filed' + Len(pages'))
  <2> DEFINE x == Total(lines, k - 1)
             y == Total(lines, k)
             n == lines[k]
  <2>1. filepos = x
    BY <1>7 DEF LoggerInv, Placing
  <2>2. y = x + n /\ x \in Nat /\ n \in Nat
    <3>1. k - 1 \in 0 .. Len(lines)
      BY <1>1
    <3> QED BY <1>1, <1>3, <1>4, <3>1, TotalGrows
  <2>3. AfterLine \in Int /\ at \in Int /\ AfterLine - at = n
    <3>1. at = Total(lines, Filed + Len(pages)) - Total(lines, Filed)
      BY <1>2 DEF LoggerInv, Placing
    <3>2. \A j \in 0 .. Len(lines) : Total(lines, j) \in Nat
      BY <1>3, TotalGrows
    <3>3. Filed + Len(pages) \in 0 .. Len(lines) /\ Filed \in 0 .. Len(lines) /\ k \in 0 .. Len(lines)
      <4>1. k \in 1 .. Len(lines)
        BY <1>1
      <4> QED BY <1>3, <4>1, SMTT(30)
    <3>4. /\ Total(lines, Filed + Len(pages)) \in Nat /\ Total(lines, Filed) \in Nat
          /\ Total(lines, k) \in Nat
      BY <3>2, <3>3
    <3>5. at \in Int
      BY <3>1, <3>4
    <3>6. AfterLine \in Int
      <4>1. AfterLine = Total(lines, k) - Total(lines, Filed)
        BY <1>1
      <4> QED BY <3>4, <4>1
    <3> QED BY <1>1, <3>5, <3>6
  <2> HIDE DEF x, y, n
  <2>4. filepos' = y
    BY <1>2, <2>1, <2>2, <2>3
  <2> QED BY <1>2, <1>7, <2>4 DEF y
<1>12. at' = Total(lines', Filed' + Len(pages')) - Total(lines', Filed')
  BY <1>1, <1>2, <1>6, <1>7
<1>13. Placing'
  BY <1>2, <1>6, <1>10, <1>11, <1>12 DEF LoggerInv, Placing
<1>14. Room'
  BY <1>2 DEF LoggerInv, Room
<1> QED BY <1>8, <1>9, <1>13, <1>14 DEF LoggerInv

\* The end of a flush files the lines of all the pages.
LEMMA FlushKeeps ==
  ASSUME LoggerInv, Flush
  PROVE  LoggerInv'
<1>1. /\ pc = "flushing" /\ left = 0 /\ file' = file \o Gathered(pages, logm)
      /\ pages' = <<>> /\ logm' = <<>> /\ count' = 0
      /\ filepos' = filepos /\ left' = left /\ closing' = closing /\ lines' = lines
  BY DEF Flush, TextFlushed
<1>2. /\ count = 0 /\ Held = Len(pages) /\ Len(pages) \in Nat /\ pages \in Seq(Pages)
      /\ lines \in Seq(Nat \ {0}) /\ lines \in Seq(Nat) /\ Len(lines) \in Nat
      /\ Filed \in Nat /\ Filed + Len(pages) = Len(lines) /\ Len(pages) <= threshold
      /\ Filed % threshold = 0 /\ logm \in Seq(Byte) /\ file \in Seq(Byte)
      /\ (closing \/ Len(pages) = threshold) /\ threshold \in Nat \ {0}
  BY <1>1, ThresholdIs DEF LoggerInv, LoggerTypes, Counting, Held, Filed
<1>3. Len(pages') = 0 /\ Held' = 0 /\ Filed' = Len(lines) /\ Len(logm') = 0
  <2>1. Len(pages') = 0 /\ Len(logm') = 0 /\ count' = 0 /\ Len(lines') = Len(lines)
    BY <1>1
  <2>2. Held' = 0
    BY <2>1 DEF Held
  <2> QED BY <1>2, <2>1, <2>2 DEF Filed
<1>4. /\ pc' \in {"ready", "closed"} /\ (pc' = "ready" <=> ~closing)
  BY DEF Flush
<1>5. file' \in Seq(Byte) /\ Kept(file', lines, Len(lines))
  <2>1. Laid(logm, lines, Filed, Len(pages)) /\ Paging(pages, lines, Filed) /\ Kept(file, lines, Filed)
    BY <1>2 DEF LoggerInv, Placing
  <2>2. /\ file \o Gathered(pages, logm) \in Seq(Byte)
        /\ Kept(file \o Gathered(pages, logm), lines, Filed + Len(pages))
    BY <1>2, <2>1, KeptMore
  <2> QED BY <1>1, <1>2, <2>2
<1>6. LoggerTypes'
  BY <1>1, <1>4, <1>5 DEF LoggerInv, LoggerTypes
<1>7. pc' # "closed" => Filed' % threshold = 0
  <2> SUFFICES ASSUME ~closing PROVE Filed' % threshold = 0
    BY <1>4
  <2>1. Filed' = Filed + threshold
    BY <1>2, <1>3
  <2>2. (Filed + threshold) % threshold = threshold % threshold
    BY <1>2, MultipleAdded
  <2>3. threshold % threshold = 0
    BY <1>2
  <2> QED BY <2>1, <2>2, <2>3
<1>8. Counting'
  BY <1>1, <1>2, <1>3, <1>4, <1>7 DEF Counting
<1>9. Laid(logm', lines', Filed', Held')
  <2>1. Total(lines, Len(lines)) \in Nat
    BY <1>2, TotalGrows
  <2> QED BY <1>1, <1>2, <1>3, <2>1 DEF Laid
<1>10. Paging(pages', lines', Filed') /\ Kept(file', lines', Filed')
  BY <1>1, <1>3, <1>5 DEF Paging
<1>11. Filed' + Len(pages') = Filed + Len(pages) /\ filepos' = Total(lines', Filed' + Len(pages'))
  <2>1. Filed' + Len(pages') = Filed + Len(pages)
    BY <1>2, <1>3
  <2>2. filepos = Total(lines, Filed + Len(pages))
    BY DEF LoggerInv, Placing
  <2> QED BY <1>1, <2>1, <2>2
<1>12. Placing'
  BY <1>4, <1>9, <1>10, <1>11 DEF Placing
<1>13. Room'
  BY <1>1, <1>3, <1>4, SpaceGrows DEF Room
<1> QED BY <1>6, <1>8, <1>12, <1>13 DEF LoggerInv

\* Every reachable state is counted and placed like that.
THEOREM LoggerInvariantHolds == LoggerSpec => []LoggerInv
<1>1. LoggerInv /\ [LoggerNext]_loggerVars => LoggerInv'
  <2> SUFFICES ASSUME LoggerInv, [LoggerNext]_loggerVars PROVE LoggerInv'
    OBVIOUS
  <2>1. CASE \E n \in 1 .. MaxLength : Write(n)
    BY <2>1, WriteKeeps
  <2>2. CASE Destroy
    BY <2>2, DestroyKeeps
  <2>3. CASE Page
    BY <2>3, PageKeeps
  <2>4. CASE Flush
    BY <2>4, FlushKeeps
  <2>5. CASE UNCHANGED loggerVars
    <3>1. Held' = Held /\ Filed' = Filed
      BY <2>5 DEF loggerVars, Held, Filed
    <3> QED BY <2>5, <3>1 DEF LoggerInv, LoggerTypes, Counting, Placing, Room, loggerVars
  <2> QED BY <2>1, <2>2, <2>3, <2>4, <2>5 DEF LoggerNext
<1> QED BY <1>1, LoggerStarts, PTL DEF LoggerSpec

\* logger_write never prints past the end of logm, whatever the sizes and the lines.
THEOREM BufferNeverOverrun == LoggerSpec => []BufferHolds
<1>1. LoggerInv => BufferHolds
  <2> SUFFICES ASSUME LoggerInv PROVE BufferHolds
    OBVIOUS
  <2>1. /\ count \in 0 .. threshold /\ count \in Nat /\ Len(logm) \in Nat
        /\ pc \in {"ready", "flushing", "closed"}
    BY ThresholdFits DEF LoggerInv, LoggerTypes, Counting, Held
  <2>2. /\ Space(threshold) \in Nat /\ BufferSize \in Nat /\ Space(count) \in Nat
        /\ Space(count) <= Space(threshold) /\ Space(threshold) + 2 <= BufferSize
    <3>1. threshold \in Nat /\ count <= threshold
      BY <2>1, ThresholdFits
    <3>2. Space(threshold) \in Nat /\ Space(count) \in Nat /\ Space(count) <= Space(threshold)
      BY <2>1, <3>1, SpaceGrows
    <3>3. BufferSize \in Nat
      BY SizeAssumption
    <3> QED BY <3>2, <3>3, ThresholdFits
  <2>3. Len(logm) <= Space(threshold)
    BY <2>1, <2>2 DEF LoggerInv, Room
  <2> QED BY <2>1, <2>2, <2>3 DEF BufferHolds
<1> QED BY <1>1, LoggerInvariantHolds, PTL

\* Whenever the mutex is free the file is as long as the logger believes, and with what is
\* in the buffer as long as everything logged: no line is dropped or counted twice.
THEOREM NothingIsDropped == LoggerSpec => []NoLineDropped
<1>1. LoggerInv => NoLineDropped
  <2> SUFFICES ASSUME LoggerInv, pc # "flushing"
               PROVE  /\ Len(file) = filepos
                      /\ filepos + Len(logm) = Total(lines, Len(lines))
                      /\ pages = <<>>
    BY DEF NoLineDropped
  <2>1. /\ pages = <<>> /\ Len(pages) = 0 /\ count \in Nat /\ Len(lines) \in Nat
        /\ lines \in Seq(Nat) /\ Held \in Nat /\ Filed \in Nat /\ Filed + Held = Len(lines)
        /\ Filed + Len(pages) = Filed
    BY DEF LoggerInv, LoggerTypes, Counting, Held, Filed
  <2>2. /\ Len(file) = Total(lines, Filed) /\ filepos = Total(lines, Filed)
        /\ Len(logm) = Total(lines, Len(lines)) - Total(lines, Filed)
    BY <2>1 DEF LoggerInv, Placing, Laid, Kept
  <2>3. Total(lines, Filed) \in Nat /\ Total(lines, Len(lines)) \in Nat
    BY <2>1, TotalGrows
  <2> QED BY <2>1, <2>2, <2>3
<1> QED BY <1>1, LoggerInvariantHolds, PTL

\* The first line of every flush is in the file as it was logged, where the lines before
\* it end: the buffer is cleared after the pages that point into it are read.
THEOREM FirstLinesAreKept == LoggerSpec => []FirstLinesKept
<1>1. LoggerInv => FirstLinesKept
  <2> SUFFICES ASSUME LoggerInv, NEW k \in 1 .. Len(lines),
                      (k - 1) % threshold = 0, Total(lines, k) <= Len(file)
               PROVE  SubSeq(file, Total(lines, k - 1) + 1, Total(lines, k)) = LineOf(k, lines[k])
    BY DEF FirstLinesKept
  <2> DEFINE n == lines[k]
             x == Total(lines, k - 1)
             y == Total(lines, k)
  <2>1. /\ lines \in Seq(Nat \ {0}) /\ lines \in Seq(Nat) /\ Len(lines) \in Nat
        /\ Filed \in 0 .. Len(lines) /\ file \in Seq(Byte)
        /\ k \in 0 .. Len(lines) /\ k - 1 \in 0 .. Len(lines) /\ n \in Nat /\ k \in Nat
    <3>1. /\ lines \in Seq(Nat \ {0}) /\ file \in Seq(Byte) /\ count \in Nat
          /\ pages \in Seq(Pages) /\ Held <= Len(lines)
      BY DEF LoggerInv, LoggerTypes, Counting
    <3>2. lines \in Seq(Nat) /\ Len(lines) \in Nat /\ n \in Nat /\ Len(pages) \in Nat
      BY <3>1
    <3>3. Filed \in 0 .. Len(lines)
      BY <3>1, <3>2 DEF Held, Filed
    <3>4. k \in 0 .. Len(lines) /\ k - 1 \in 0 .. Len(lines) /\ k \in Nat
      BY <3>2
    <3> QED BY <3>1, <3>2, <3>3, <3>4
  <2>2. x \in Nat /\ y = x + n
    BY <2>1, TotalGrows
  <2>3. /\ Len(file) = Total(lines, Filed) /\ Total(lines, Filed) \in Nat
        /\ \A i \in 1 .. Filed : (i - 1) % threshold = 0 =>
             \A p \in 1 .. lines[i] : file[Total(lines, i - 1) + p] = LineByte(i, lines[i], p)
    BY <2>1, TotalGrows DEF LoggerInv, Placing, Kept
  <2>4. k \in 1 .. Filed
    <3>1. Filed < k => Total(lines, Filed) < Total(lines, k)
      BY <2>1, TotalOrder
    <3> QED BY <2>1, <2>2, <2>3, <3>1
  <2>5. \A p \in 1 .. n : file[x + p] = LineByte(k, n, p)
    BY <2>3, <2>4
  <2>6. LineOf(k, n) \in Seq(Byte) /\ Len(LineOf(k, n)) = n
        /\ \A p \in 1 .. n : LineOf(k, n)[p] = LineByte(k, n, p)
    BY <2>1, LineIs
  <2>7. y <= Len(file)
    OBVIOUS
  <2> HIDE DEF n, x, y
  <2> DEFINE s == SubSeq(file, x + 1, y)
  <2>8. /\ s \in Seq(Byte) /\ Len(s) = n /\ \A p \in 1 .. n : s[p] = file[x + p]
    BY <2>1, <2>2, <2>3, <2>7
  <2> HIDE DEF s
  <2>9. s = LineOf(k, n)
    BY <2>5, <2>6, <2>8, SeqEqual
  <2> QED BY <2>9 DEF s, x, y, n
<1> QED BY <1>1, LoggerInvariantHolds, PTL

-----------------------------------------------------------------------------
(* The vector. *)

\* The inductive invariant of the vector.
VectorInv == TypeOK /\ FitsBlock

(* A number of elements is never more than the bytes vector_resize makes room for. *)
LEMMA WantedIsEnough ==
  ASSUME TypeOK, NEW many \in Nat
  PROVE  /\ Wanted(many) \in Nat
         /\ many <= Wanted(many)
<1>1. CASE type = 0
  BY <1>1, BoundAssumption DEF Wanted
<1>2. CASE type # 0
  <2>1. type \in Nat /\ type >= 1
    BY <1>2, TypeAssumption DEF TypeOK
  <2>2. many * type \in Nat
    BY <2>1
  <2>3. many <= many * type
    BY <2>1, <2>2
  <2>4. QED
    BY <1>2, <2>2, <2>3 DEF Wanted
<1>3. QED
  BY <1>1, <1>2

(* What vector_resize leaves is a block of bytes that still starts with those in use,
   and no shorter than the capacity. *)
LEMMA ResizedIsABlock ==
  ASSUME VectorInv, NEW many \in Nat
  PROVE  LET room == Resized(many)
         IN  /\ room.capacity = Wanted(many)
             /\ room.alloc \in Nat
             /\ room.data \in [1 .. room.alloc -> Bytes]
             /\ room.capacity <= room.alloc
             /\ size <= room.alloc
             /\ \A i \in 1 .. size : room.data[i] = data[i]
<1>1. Wanted(many) \in Nat
  BY WantedIsEnough DEF VectorInv
<1>2. CASE size < Wanted(many)
  <2>1. Moved(Wanted(many)) \in [1 .. Wanted(many) -> Bytes]
    BY <1>1, <1>2, ByteAssumption DEF Moved, VectorInv, TypeOK, FitsBlock
  <2>2. \A i \in 1 .. size : Moved(Wanted(many))[i] = data[i]
    BY <1>1, <1>2 DEF Moved, VectorInv, TypeOK
  <2>3. QED
    BY <1>1, <1>2, <2>1, <2>2 DEF Resized, VectorInv, TypeOK
<1>3. CASE ~(size < Wanted(many))
  BY <1>1, <1>3 DEF Resized, VectorInv, TypeOK, FitsBlock
<1>4. QED
  BY <1>2, <1>3

(* An element takes at least one byte, and every byte of it is a byte. *)
LEMMA ElementBytes ==
  ASSUME TypeOK, NEW d \in Items
  PROVE  /\ RealSize(d) \in Nat \ {0}
         /\ \A i \in 1 .. RealSize(d) : ByteOf(d, i) \in Bytes
<1>1. CASE type = 0
  <2>1. d \in Seq(Bytes \ {0})
    BY <1>1, ByteAssumption DEF Items
  <2>2. Len(d) \in Nat /\ \A i \in 1 .. Len(d) : d[i] \in Bytes
    BY <2>1
  <2>3. QED
    BY <1>1, <2>2, ByteAssumption DEF RealSize, ByteOf
<1>2. CASE type # 0
  BY <1>2, TypeAssumption DEF Items, RealSize, ByteOf, TypeOK
<1>3. QED
  BY <1>1, <1>2

(* The block vector_emplace writes to keeps the bytes in use and has room for the new
   element behind them. *)
LEMMA RoomIsEnough ==
  ASSUME VectorInv, NEW d \in Items
  PROVE  LET room == RoomFor(d)
         IN  /\ room.capacity \in Nat
             /\ room.alloc \in Nat
             /\ room.data \in [1 .. room.alloc -> Bytes]
             /\ size + RealSize(d) <= room.capacity
             /\ room.capacity <= room.alloc
             /\ \A i \in 1 .. size : room.data[i] = data[i]
<1>1. RealSize(d) \in Nat \ {0}
  BY ElementBytes DEF VectorInv
<1>2. CASE capacity = 0 \/ capacity < size + RealSize(d)
  <2> DEFINE many == 2 * capacity + RealSize(d)
  <2>1. many \in Nat /\ size + RealSize(d) <= many
    BY <1>1 DEF VectorInv, TypeOK, FitsBlock
  <2>2. Wanted(many) \in Nat /\ many <= Wanted(many)
    BY <2>1, WantedIsEnough DEF VectorInv
  <2>3. RoomFor(d) = Resized(many)
    BY <1>2 DEF RoomFor
  <2> HIDE DEF many
  <2>4. size + RealSize(d) <= Wanted(many)
    BY <1>1, <2>1, <2>2 DEF VectorInv, TypeOK
  <2>5. QED
    BY <2>1, <2>2, <2>3, <2>4, ResizedIsABlock
<1>3. CASE ~(capacity = 0 \/ capacity < size + RealSize(d))
  BY <1>1, <1>3 DEF RoomFor, Unresized, VectorInv, TypeOK, FitsBlock
<1>4. QED
  BY <1>2, <1>3

(* vector_create: the block, if any, is as long as the capacity says, and zero. *)
LEMMA InitEstablishes ==
  ASSUME Init
  PROVE  VectorInv
<1>1. PICK n \in Counts \cup {0} : capacity = n * type
  BY DEF Init
<1>2. n \in Nat /\ type \in Nat
  BY TypeAssumption DEF Init
<1>3. capacity \in Nat
  BY <1>1, <1>2
<1>4. QED
  BY <1>3, ByteAssumption DEF Init, VectorInv, TypeOK, FitsBlock

(* One call keeps the invariant and the bytes that were in use. *)
LEMMA EmplaceKeeps ==
  ASSUME VectorInv, NEW d \in Items, Emplace(d)
  PROVE  VectorInv' /\ \A i \in 1 .. size : data'[i] = data[i]
<1> DEFINE room == RoomFor(d)
<1>1. /\ room.capacity \in Nat /\ room.alloc \in Nat
      /\ room.data \in [1 .. room.alloc -> Bytes]
      /\ size + RealSize(d) <= room.capacity /\ room.capacity <= room.alloc
      /\ \A i \in 1 .. size : room.data[i] = data[i]
  BY RoomIsEnough
<1>2. /\ data' = [i \in 1 .. room.alloc |->
                    IF i \in size + 1 .. size + RealSize(d) THEN ByteOf(d, i - size)
                    ELSE room.data[i]]
      /\ capacity' = room.capacity /\ alloc' = room.alloc
      /\ size' = size + RealSize(d) /\ pushes' = pushes + 1 /\ type' = type
  BY DEF Emplace
<1>3. RealSize(d) \in Nat \ {0} /\ \A i \in 1 .. RealSize(d) : ByteOf(d, i) \in Bytes
  BY ElementBytes DEF VectorInv
<1> HIDE DEF room
<1>4. \A i \in size + 1 .. size + RealSize(d) : ByteOf(d, i - size) \in Bytes
  <2>1. ASSUME NEW i \in size + 1 .. size + RealSize(d)
        PROVE  i - size \in 1 .. RealSize(d)
    BY <1>3, <2>1 DEF VectorInv, TypeOK
  <2>2. QED
    BY <1>3, <2>1
<1>5. data' \in [1 .. alloc' -> Bytes]
  BY <1>1, <1>2, <1>4
<1>6. TypeOK'
  BY <1>1, <1>2, <1>3, <1>5 DEF VectorInv, TypeOK
<1>7. FitsBlock'
  BY <1>1, <1>2, <1>6 DEF FitsBlock
<1>8. \A i \in 1 .. size : data'[i] = data[i]
  BY <1>1, <1>2, <1>3 DEF VectorInv, TypeOK
<1>9. QED
  BY <1>6, <1>7, <1>8 DEF VectorInv

(* vector_setsize keeps both too: it makes room before it moves the end. *)
LEMMA SetSizeKeeps ==
  ASSUME VectorInv, NEW n \in Counts, SetSize(n)
  PROVE  VectorInv' /\ \A i \in 1 .. size : data'[i] = data[i]
<1> DEFINE room == Resized(n)
<1>1. n \in Nat
  BY TypeAssumption
<1>2. /\ room.capacity = Wanted(n) /\ room.alloc \in Nat
      /\ room.data \in [1 .. room.alloc -> Bytes] /\ room.capacity <= room.alloc
      /\ \A i \in 1 .. size : room.data[i] = data[i]
  BY <1>1, ResizedIsABlock
<1>3. Wanted(n) \in Nat /\ n <= Wanted(n)
  BY <1>1, WantedIsEnough DEF VectorInv
<1>4. type # 0 /\ Wanted(n) = n * type
  BY DEF SetSize, Wanted
<1>5. /\ capacity' = room.capacity /\ alloc' = room.alloc /\ data' = room.data
      /\ size' = (IF room.capacity >= n THEN n * type ELSE size)
      /\ type' = type /\ pushes' = pushes
  BY DEF SetSize
<1> HIDE DEF room
<1>6. size' = Wanted(n)
  BY <1>1, <1>2, <1>3, <1>4, <1>5
<1>7. TypeOK'
  BY <1>2, <1>3, <1>5, <1>6 DEF VectorInv, TypeOK
<1>8. FitsBlock'
  BY <1>2, <1>3, <1>5, <1>6, <1>7 DEF FitsBlock
<1>9. QED
  BY <1>2, <1>5, <1>7, <1>8 DEF VectorInv

(* vector_clone copies the bytes in use to a block of its own. *)
LEMMA CloneKeeps ==
  ASSUME VectorInv, Clone
  PROVE  VectorInv' /\ \A i \in 1 .. size : data'[i] = data[i]
<1>1. TypeOK'
  BY ByteAssumption DEF VectorInv, TypeOK, FitsBlock, Clone
<1>2. FitsBlock'
  BY <1>1 DEF VectorInv, TypeOK, FitsBlock, Clone
<1>3. \A i \in 1 .. size : data'[i] = data[i]
  BY DEF VectorInv, TypeOK, FitsBlock, Clone
<1>4. QED
  BY <1>1, <1>2, <1>3 DEF VectorInv

(* Every step keeps the invariant and the bytes that were in use. *)
LEMMA StepKeeps ==
  ASSUME VectorInv, [Next]_vars
  PROVE  VectorInv' /\ \A i \in 1 .. size : data'[i] = data[i]
<1>1. ASSUME NEW d \in Items, Emplace(d)
      PROVE  VectorInv' /\ \A i \in 1 .. size : data'[i] = data[i]
  BY <1>1, EmplaceKeeps
<1>2. ASSUME NEW n \in Counts, SetSize(n)
      PROVE  VectorInv' /\ \A i \in 1 .. size : data'[i] = data[i]
  BY <1>2, SetSizeKeeps
<1>3. CASE Clone
  BY <1>3, CloneKeeps
<1>4. CASE UNCHANGED vars
  BY <1>4 DEF vars, VectorInv, TypeOK, FitsBlock
<1>5. QED
  BY <1>1, <1>2, <1>3, <1>4 DEF Next

(* The invariant holds of every vector, whatever is done with it. *)
THEOREM VectorInvariantHolds == Spec => []VectorInv
<1>1. Init => VectorInv
  BY InitEstablishes
<1>2. VectorInv /\ [Next]_vars => VectorInv'
  BY StepKeeps
<1>3. QED
  BY <1>1, <1>2, PTL DEF Spec

(* Every variable has its type, the block's length included. *)
THEOREM TypeCorrect == Spec => []TypeOK
<1>1. VectorInv => TypeOK
  BY DEF VectorInv
<1>2. QED
  BY <1>1, VectorInvariantHolds, PTL

(* Every variable has its type, and no call reads or writes outside the vector's block. *)
THEOREM AccessesFit == Spec => []FitsBlock
<1>1. VectorInv => FitsBlock
  BY DEF VectorInv
<1>2. QED
  BY <1>1, VectorInvariantHolds, PTL

(* The bytes in use survive every growth, cut and clone. *)
THEOREM ContentStays == Spec => BytesStay
<1>1. VectorInv /\ [Next]_vars => [\A i \in 1 .. size : i <= size' => data'[i] = data[i]]_vars
  BY StepKeeps
<1>2. QED
  BY <1>1, VectorInvariantHolds, PTL DEF Spec, BytesStay

(* What the readers of a vector see. *)

\* e tells where the elements in the first s bytes of b end: at every t-th byte, or at the
\* zeros.
Marks(t, s, b, e) ==
  /\ e \in Seq(1 .. s)
  /\ \A j \in 1 .. Len(e) : \A k \in 1 .. Len(e) : j < k => e[j] < e[k]
  /\ s = IF e = <<>> THEN 0 ELSE e[Len(e)]
  /\ IF t = 0 THEN \A p \in 1 .. s : b[p] = 0 <=> \E k \in 1 .. Len(e) : e[k] = p
     ELSE \A k \in 1 .. Len(e) : e[k] = k * t

\* Where the element before the one at k ends.
Before(e, k) == IF k = 1 THEN 0 ELSE e[k - 1]

\* The elements between the marks.
Between(t, b, e) ==
  [k \in 1 .. Len(e) |-> SubSeq(b, Before(e, k) + 1, IF t = 0 THEN e[k] - 1 ELSE e[k])]

\* The bytes in use end with an element.
ArrayInv == VectorInv /\ \E e : Marks(type, size, data, e)

\* An increasing sequence has as many elements as places.
LEMMA IncreasingCount ==
  ASSUME NEW e \in Seq(Nat), NEW j \in 0 .. Len(e),
         \A l \in 1 .. Len(e) : \A k \in 1 .. Len(e) : l < k => e[l] < e[k]
  PROVE  Cardinality({ e[k] : k \in 1 .. j }) = j
<1> DEFINE T == { e[k] : k \in 1 .. j }
           f == [k \in 1 .. j |-> e[k]]
<1>1. Len(e) \in Nat /\ j \in Nat /\ \A k \in 1 .. j : k \in 1 .. Len(e) /\ e[k] \in Nat
  OBVIOUS
<1>2. f \in [1 .. j -> T] /\ \A k \in 1 .. j : f[k] = e[k]
  OBVIOUS
<1>3. \A t \in T : \E k \in 1 .. j : f[k] = t
  OBVIOUS
<1> HIDE DEF f, T
<1>4. \A k \in 1 .. j : \A l \in 1 .. j : f[k] = f[l] => k = l
  <2> SUFFICES ASSUME NEW k \in 1 .. j, NEW l \in 1 .. j, f[k] = f[l] PROVE k = l
    OBVIOUS
  <2>1. e[k] = e[l] /\ e[k] \in Nat /\ ~(k < l) /\ ~(l < k)
    BY <1>1, <1>2
  <2> QED BY <1>1, <2>1
<1>5. f \in Bijection(1 .. j, T)
  BY <1>2, <1>3, <1>4, Zenon DEF Bijection, Injection, Surjection, IsInjective
<1>6. IsFiniteSet(1 .. j) /\ Cardinality(1 .. j) = j
  <2>1. 1 \in Int /\ j \in Int
    BY <1>1
  <2>2. IsFiniteSet(1 .. j) /\ Cardinality(1 .. j) = IF 1 > j THEN 0 ELSE j - 1 + 1
    BY <2>1, FS_Interval, Zenon
  <2> QED BY <1>1, <2>2
<1>7. Cardinality(T) = Cardinality(1 .. j)
  <2>1. ExistsBijection(1 .. j, T)
    BY <1>5, Zenon DEF ExistsBijection
  <2> QED BY <1>6, <2>1, FS_Bijection, Zenon
<1> QED BY <1>6, <1>7 DEF T

\* What marks are made of.
LEMMA MarksAre ==
  ASSUME NEW t, NEW s \in Nat, NEW b, NEW e, Marks(t, s, b, e)
  PROVE  /\ Len(e) \in Nat /\ e \in Seq(1 .. s) /\ e \in Seq(Nat)
         /\ \A k \in 1 .. Len(e) : e[k] \in 1 .. s
         /\ \A k \in 1 .. Len(e) : Before(e, k) \in 0 .. s /\ Before(e, k) < e[k]
         /\ Len(e) = 0 => s = 0
         /\ Len(e) # 0 => s = e[Len(e)]
<1>1. Len(e) \in Nat /\ e \in Seq(1 .. s) /\ \A k \in 1 .. Len(e) : e[k] \in 1 .. s
  BY DEF Marks
<1>2. e \in Seq(Nat)
  BY <1>1
<1>3. (Len(e) = 0 => s = 0) /\ (Len(e) # 0 => s = e[Len(e)])
  BY <1>1 DEF Marks
<1>4. \A k \in 1 .. Len(e) : Before(e, k) \in 0 .. s /\ Before(e, k) < e[k]
  <2> SUFFICES ASSUME NEW k \in 1 .. Len(e) PROVE Before(e, k) \in 0 .. s /\ Before(e, k) < e[k]
    OBVIOUS
  <2>1. CASE k = 1
    BY <1>1, <2>1 DEF Before
  <2>2. CASE k # 1
    <3>1. k - 1 \in 1 .. Len(e) /\ k - 1 < k
      BY <1>1, <2>2
    <3>2. e[k - 1] < e[k] /\ e[k - 1] \in 1 .. s
      BY <1>1, <3>1 DEF Marks
    <3> QED BY <2>2, <3>2 DEF Before
  <2> QED BY <2>1, <2>2
<1> QED BY <1>1, <1>2, <1>3, <1>4

\* Which strings come before the one at i.
LEMMA StringStart ==
  ASSUME VectorInv, type = 0, NEW e, Marks(type, size, data, e), NEW i \in 0 .. Len(e)
  PROVE  /\ Start(i) = IF i = 0 THEN 0 ELSE e[i]
         /\ Cardinality(Ends) = Len(e)
<1> DEFINE n == Len(e)
           P(j) == IF j = 0 THEN 0 ELSE e[j]
           Q(p) == { q \in Ends : q <= p }
<1>1. size \in Nat
  BY DEF VectorInv, TypeOK
<1>2. n \in Nat /\ e \in Seq(Nat) /\ \A k \in 1 .. n : e[k] \in 1 .. size
  BY <1>1, MarksAre
<1>3. \A j \in 1 .. n : \A k \in 1 .. n : j < k => e[j] < e[k]
  BY DEF Marks
<1>4. Ends = { e[k] : k \in 1 .. n }
  <2>1. \A p \in 1 .. size : data[p] = 0 <=> \E k \in 1 .. n : e[k] = p
    BY DEF Marks
  <2> QED BY <1>2, <2>1 DEF Ends
<1>5. Cardinality(Ends) = n
  <2>1. n \in 0 .. n
    BY <1>2
  <2> QED BY <1>2, <1>3, <1>4, <2>1, IncreasingCount
<1>6. ASSUME NEW j \in 0 .. n PROVE Cardinality(Q(P(j))) = j
  <2>1. Q(P(j)) = { e[k] : k \in 1 .. j }
    <3>1. ASSUME NEW k \in 1 .. n PROVE e[k] <= P(j) <=> k \in 1 .. j
      <4>1. CASE j = 0
        BY <1>2, <4>1
      <4>2. CASE j # 0
        <5>1. j \in 1 .. n /\ P(j) = e[j] /\ e[j] \in Nat /\ e[k] \in Nat
          BY <1>2, <4>2
        <5>2. (k < j => e[k] < e[j]) /\ (j < k => e[j] < e[k])
          BY <1>3, <5>1
        <5> HIDE DEF P
        <5> QED BY <1>2, <5>1, <5>2
      <4> QED BY <4>1, <4>2
    <3>2. \A k \in 1 .. j : k \in 1 .. n
      BY <1>2
    <3> HIDE DEF P
    <3> QED BY <1>4, <3>1, <3>2
  <2> QED BY <1>2, <1>3, <2>1, IncreasingCount
<1>7. Start(i) = CHOOSE p \in Ends \cup {0} : Cardinality(Q(p)) = i
  BY Zenon DEF Start
<1>8. P(i) \in Ends \cup {0} /\ Cardinality(Q(P(i))) = i
  <2>1. P(i) \in Ends \cup {0}
    BY <1>2, <1>4
  <2> QED BY <1>6, <2>1
<1>9. ASSUME NEW p \in Ends \cup {0}, Cardinality(Q(p)) = i PROVE p = P(i)
  <2>1. PICK j \in 0 .. n : p = P(j)
    <3>1. CASE p = 0
      BY <1>2, <3>1
    <3>2. CASE p # 0
      <4>1. PICK k \in 1 .. n : p = e[k]
        BY <1>4, <3>2
      <4>2. k \in 0 .. n /\ p = P(k)
        BY <1>2, <4>1
      <4> QED BY <4>2
    <3> QED BY <3>1, <3>2
  <2>2. j = i
    BY <1>6, <1>9, <2>1, Zenon
  <2> QED BY <2>1, <2>2
<1> HIDE DEF Q
<1>10. Start(i) = P(i)
  <2> HIDE DEF P
  <2> QED BY <1>7, <1>8, <1>9, Zenon
<1> QED BY <1>5, <1>10

\* vector_size and vector_get see the elements between the marks.
LEMMA ReadersSeeElements ==
  \A e : VectorInv /\ Marks(type, size, data, e)
           => [k \in 1 .. Count |-> Get(k - 1)] = Between(type, data, e)
<1> SUFFICES ASSUME VectorInv, NEW e, Marks(type, size, data, e)
             PROVE  [k \in 1 .. Count |-> Get(k - 1)] = Between(type, data, e)
  OBVIOUS
<1> DEFINE n == Len(e)
<1>1. size \in Nat /\ type \in Nat
  BY TypeAssumption DEF VectorInv, TypeOK
<1>2. /\ n \in Nat /\ \A k \in 1 .. n : e[k] \in 1 .. size /\ Before(e, k) \in 0 .. size /\ Before(e, k) < e[k]
      /\ (n = 0 => size = 0) /\ (n # 0 => size = e[n])
  BY <1>1, MarksAre
<1>3. ASSUME type = 0, NEW k \in 1 .. n
      PROVE  Get(k - 1) = SubSeq(data, Before(e, k) + 1, e[k] - 1)
  <2> DEFINE from == Start(k - 1)
             T == { p \in Ends : p > from }
  <2>1. k - 1 \in 0 .. n /\ (k - 1 = 0 <=> k = 1)
    BY <1>2
  <2>2. from = Before(e, k)
    BY <1>3, <2>1, StringStart DEF Before
  <2>3. Get(k - 1) = SubSeq(data, from + 1, Min(T) - 1)
    BY <1>3, Zenon DEF Get
  <2> HIDE DEF from
  <2>4. \A p \in 1 .. size : data[p] = 0 <=> \E l \in 1 .. n : e[l] = p
    BY <1>3 DEF Marks
  <2>5. e[k] \in T /\ T \subseteq Nat
    BY <1>1, <1>2, <2>2, <2>4 DEF Ends
  <2>6. ASSUME NEW p \in T PROVE e[k] <= p
    <3>1. PICK l \in 1 .. n : e[l] = p
      BY <2>4, <2>6 DEF Ends
    <3>2. CASE l < k
      <4>1. k # 1 /\ k - 1 \in 1 .. n /\ e[k - 1] < p
        BY <1>2, <2>2, <3>1, <3>2 DEF Before
      <4>2. l = k - 1 \/ l < k - 1
        BY <1>2, <3>2
      <4>3. l < k - 1 => e[l] < e[k - 1]
        BY <4>1 DEF Marks
      <4>4. e[l] \in Nat /\ e[k - 1] \in Nat
        BY <1>1, <1>2, <4>1
      <4> QED BY <3>1, <4>1, <4>2, <4>3, <4>4
    <3>3. CASE k < l
      <4>1. e[k] < e[l] /\ e[k] \in Nat /\ e[l] \in Nat
        BY <1>1, <1>2, <3>3 DEF Marks
      <4> QED BY <3>1, <4>1
    <3>4. CASE k = l
      BY <1>1, <1>2, <3>1, <3>4
    <3> QED BY <1>2, <3>2, <3>3, <3>4
  <2>7. Min(T) = e[k]
    <3> HIDE DEF T
    <3> DEFINE m == CHOOSE x \in T : \A y \in T : x <= y
    <3>1. m \in T /\ \A y \in T : m <= y
      BY <2>5, <2>6
    <3>2. Min(T) = m
      BY Zenon DEF Min
    <3> HIDE DEF m
    <3>3. m <= e[k] /\ e[k] <= m /\ m \in Nat /\ e[k] \in Nat
      BY <2>5, <2>6, <3>1
    <3> QED BY <3>2, <3>3
  <2> QED BY <2>2, <2>3, <2>7
<1>4. ASSUME type = 0 PROVE Count = n
  <2>1. 0 \in 0 .. n
    BY <1>2
  <2> QED BY <1>4, <2>1, StringStart DEF Count
<1>5. ASSUME type # 0, NEW k \in 1 .. n
      PROVE  Get(k - 1) = SubSeq(data, Before(e, k) + 1, e[k])
  <2>1. \A j \in 1 .. n : e[j] = j * type
    BY <1>5 DEF Marks
  <2>2. Before(e, k) = (k - 1) * type
    <3>1. CASE k = 1
      BY <1>1, <3>1 DEF Before
    <3>2. CASE k # 1
      BY <1>2, <2>1, <3>2 DEF Before
    <3> QED BY <3>1, <3>2
  <2>3. e[k] = (k - 1) * type + type
    <3>1. e[k] = k * type
      BY <2>1
    <3> QED BY <1>1, <3>1
  <2>4. Start(k - 1) = (k - 1) * type
    BY <1>5 DEF Start
  <2> QED BY <1>5, <2>2, <2>3, <2>4 DEF Get
<1>6. ASSUME type # 0 PROVE Count = n
  <2>1. size = n * type
    <3>1. CASE n = 0
      BY <1>1, <1>2, <3>1
    <3>2. CASE n # 0
      BY <1>2, <1>6, <3>2 DEF Marks
    <3> QED BY <3>1, <3>2
  <2>2. (n * type + 0) \div type = n
    <3>1. 0 \in 0 .. type - 1 /\ type \in Nat \ {0}
      BY <1>1, <1>6
    <3> QED BY <1>2, <3>1, QuotientIsUnique
  <2>3. n * type + 0 = n * type
    BY <1>1, <1>2
  <2> QED BY <1>6, <2>1, <2>2, <2>3 DEF Count
<1>7. Count = n
  BY <1>4, <1>6
<1>8. \A k \in 1 .. n : Get(k - 1) = SubSeq(data, Before(e, k) + 1, IF type = 0 THEN e[k] - 1 ELSE e[k])
  BY <1>3, <1>5, Zenon
<1> QED BY <1>7, <1>8, Zenon DEF Between

\* A slice of a block.
LEMMA SliceIs ==
  ASSUME NEW l \in Nat, NEW b \in [1 .. l -> Bytes], NEW x \in Nat, NEW y \in Nat, x <= y, y <= l
  PROVE  LET s == SubSeq(b, x + 1, y)
         IN  s \in Seq(Bytes) /\ Len(s) = y - x /\ \A i \in 1 .. y - x : s[i] = b[x + i]
<1>1. x + 1 \in Int /\ y \in Int /\ \A i \in x + 1 .. y : b[i] \in Bytes
  OBVIOUS
<1> DEFINE s == SubSeq(b, x + 1, y)
<1>2. /\ s \in Seq(Bytes) /\ Len(s) = IF x + 1 <= y THEN y - (x + 1) + 1 ELSE 0
      /\ \A i \in 1 .. y - (x + 1) + 1 : s[i] = b[x + 1 + i - 1]
  BY <1>1, SubSeqProperties
<1> HIDE DEF s
<1>3. Len(s) = y - x
  BY <1>2
<1>4. \A i \in 1 .. y - x : i \in 1 .. y - (x + 1) + 1 /\ x + 1 + i - 1 = x + i
  OBVIOUS
<1>5. \A i \in 1 .. y - x : s[i] = b[x + i]
  BY <1>2, <1>4
<1> QED BY <1>2, <1>3, <1>5 DEF s

\* Slices of blocks that agree there are the same.
LEMMA SameSlice ==
  ASSUME NEW l \in Nat, NEW m \in Nat, NEW b \in [1 .. l -> Bytes], NEW c \in [1 .. m -> Bytes],
         NEW x \in Nat, NEW y \in Nat, x <= y, y <= l, y <= m, \A i \in x + 1 .. y : b[i] = c[i]
  PROVE  SubSeq(b, x + 1, y) = SubSeq(c, x + 1, y)
<1> DEFINE s == SubSeq(b, x + 1, y)
           t == SubSeq(c, x + 1, y)
<1>1. s \in Seq(Bytes) /\ Len(s) = y - x /\ \A i \in 1 .. y - x : s[i] = b[x + i]
  BY SliceIs
<1>2. t \in Seq(Bytes) /\ Len(t) = y - x /\ \A i \in 1 .. y - x : t[i] = c[x + i]
  BY SliceIs
<1> HIDE DEF s, t
<1>3. \A i \in 1 .. y - x : x + i \in x + 1 .. y
  OBVIOUS
<1>4. \A i \in 1 .. Len(s) : s[i] = t[i]
  BY <1>1, <1>2, <1>3
<1>5. s = t
  BY <1>1, <1>2, <1>4, SeqEqual
<1> QED BY <1>5 DEF s, t

\* A slice of a block that holds the bytes of d is d.
LEMMA WholeSlice ==
  ASSUME NEW l \in Nat, NEW b \in [1 .. l -> Bytes], NEW d \in Seq(Bytes), NEW x \in Nat,
         NEW y \in Nat, y = x + Len(d), y <= l, \A i \in 1 .. Len(d) : b[x + i] = d[i]
  PROVE  SubSeq(b, x + 1, y) = d
<1> DEFINE s == SubSeq(b, x + 1, y)
<1>1. Len(d) \in Nat
  OBVIOUS
<1>2. s \in Seq(Bytes) /\ Len(s) = y - x /\ \A i \in 1 .. y - x : s[i] = b[x + i]
  <2>1. x <= y
    BY <1>1
  <2> QED BY <2>1, SliceIs
<1> HIDE DEF s
<1>3. Len(s) = Len(d)
  BY <1>1, <1>2
<1>4. \A i \in 1 .. Len(s) : s[i] = d[i]
  BY <1>2, <1>3
<1>5. s = d
  BY <1>2, <1>3, <1>4, SeqEqual
<1> QED BY <1>5 DEF s

\* As long as the bytes in use stay, so do the elements.
LEMMA KeptElements ==
  ASSUME VectorInv, VectorInv', size <= alloc', \A i \in 1 .. size : data'[i] = data[i],
         NEW e, Marks(type, size, data, e), NEW k \in 1 .. Len(e)
  PROVE  LET y == IF type = 0 THEN e[k] - 1 ELSE e[k]
         IN  SubSeq(data', Before(e, k) + 1, y) = SubSeq(data, Before(e, k) + 1, y)
<1>1. /\ size \in Nat /\ alloc \in Nat /\ alloc' \in Nat /\ size <= alloc /\ capacity \in Nat
      /\ data \in [1 .. alloc -> Bytes] /\ data' \in [1 .. alloc' -> Bytes]
  BY DEF VectorInv, TypeOK, FitsBlock
<1>2. e[k] \in 1 .. size /\ Before(e, k) \in 0 .. size /\ Before(e, k) < e[k]
  BY <1>1, MarksAre
<1> DEFINE x == Before(e, k)
           y == IF type = 0 THEN e[k] - 1 ELSE e[k]
<1>3. /\ x \in Nat /\ y \in Nat /\ x <= y /\ y <= size
      /\ \A i \in x + 1 .. y : i \in 1 .. size
  BY <1>1, <1>2
<1> HIDE DEF x, y
<1>4. \A i \in x + 1 .. y : data'[i] = data[i]
  BY <1>3
<1>5. y <= alloc /\ y <= alloc'
  BY <1>1, <1>3
<1>6. SubSeq(data', x + 1, y) = SubSeq(data, x + 1, y)
  BY <1>1, <1>3, <1>4, <1>5, SameSlice
<1> QED BY <1>6 DEF x, y

\* The bytes vector_emplace writes.
LEMMA EmplaceWrites ==
  ASSUME VectorInv, NEW d \in Items, Emplace(d)
  PROVE  /\ size' = size + RealSize(d) /\ type' = type /\ pushes' = pushes + 1
         /\ \A i \in 1 .. RealSize(d) : data'[size + i] = ByteOf(d, i)
<1> DEFINE room == RoomFor(d)
<1>1. room.alloc \in Nat /\ size + RealSize(d) <= room.alloc
  <2>1. /\ room.capacity \in Nat /\ room.alloc \in Nat
        /\ size + RealSize(d) <= room.capacity /\ room.capacity <= room.alloc
    BY RoomIsEnough
  <2>2. RealSize(d) \in Nat /\ size \in Nat
    BY ElementBytes DEF VectorInv, TypeOK
  <2> HIDE DEF room
  <2> QED BY <2>1, <2>2
<1>2. /\ data' = [i \in 1 .. room.alloc |->
                    IF i \in size + 1 .. size + RealSize(d) THEN ByteOf(d, i - size)
                    ELSE room.data[i]]
      /\ size' = size + RealSize(d) /\ pushes' = pushes + 1 /\ type' = type
  BY DEF Emplace
<1> HIDE DEF room
<1>3. ASSUME NEW i \in 1 .. RealSize(d) PROVE data'[size + i] = ByteOf(d, i)
  <2>1. RealSize(d) \in Nat /\ size \in Nat
    BY ElementBytes DEF VectorInv, TypeOK
  <2>2. size + i \in 1 .. room.alloc /\ size + i \in size + 1 .. size + RealSize(d) /\ (size + i) - size = i
    BY <1>1, <2>1
  <2> QED BY <1>2, <2>2
<1> QED BY <1>2, <1>3

\* vector_emplace adds the element at the end.
LEMMA EmplaceReads ==
  ASSUME ArrayInv, NEW d \in Items, Emplace(d)
  PROVE  \E e, f : /\ Marks(type, size, data, e) /\ Marks(type', size', data', f)
                   /\ Between(type', data', f) = Append(Between(type, data, e), d)
<1>1. PICK e : Marks(type, size, data, e)
  BY DEF ArrayInv
<1> DEFINE n == Len(e)
           f == Append(e, size')
           r == RealSize(d)
<1>2. /\ size \in Nat /\ type \in Nat /\ r \in Nat \ {0} /\ type' = type /\ size' = size + r
      /\ VectorInv /\ \A i \in 1 .. r : data'[size + i] = ByteOf(d, i)
  BY TypeAssumption, ElementBytes, EmplaceWrites DEF ArrayInv, VectorInv, TypeOK
<1>3. /\ alloc \in Nat /\ alloc' \in Nat /\ data \in [1 .. alloc -> Bytes] /\ data' \in [1 .. alloc' -> Bytes]
      /\ size <= alloc /\ size' <= alloc' /\ size' \in Nat
      /\ \A i \in 1 .. size : data'[i] = data[i]
  <2>1. VectorInv' /\ \A i \in 1 .. size : data'[i] = data[i]
    BY <1>2, EmplaceKeeps
  <2> QED BY <1>2, <2>1 DEF VectorInv, FitsBlock, TypeOK
<1>4. /\ n \in Nat /\ e \in Seq(1 .. size) /\ \A k \in 1 .. n : e[k] \in 1 .. size
      /\ (n = 0 => size = 0) /\ (n # 0 => size = e[n])
  BY <1>1, <1>2, MarksAre
<1> HIDE DEF r
<1>5. /\ f \in Seq(1 .. size') /\ Len(f) = n + 1 /\ f[n + 1] = size'
      /\ \A k \in 1 .. n : f[k] = e[k]
  <2>1. 1 .. size \subseteq 1 .. size' /\ size' \in 1 .. size'
    BY <1>2
  <2>2. e \in Seq(1 .. size')
    BY <1>4, <2>1, SeqMonotonic
  <2> QED BY <2>1, <2>2
<1> HIDE DEF f
<1>6. Marks(type', size', data', f)
  <2>1. ASSUME NEW j \in 1 .. Len(f), NEW k \in 1 .. Len(f), j < k PROVE f[j] < f[k]
    <3>1. CASE k = n + 1
      <4>1. j \in 1 .. n
        BY <1>4, <1>5, <2>1, <3>1
      <4>2. f[j] = e[j] /\ e[j] \in 1 .. size /\ f[k] = size + r
        BY <1>2, <1>4, <1>5, <3>1, <4>1
      <4> QED BY <1>2, <4>2
    <3>2. CASE k # n + 1
      <4>1. j \in 1 .. n /\ k \in 1 .. n
        BY <1>4, <1>5, <2>1, <3>2
      <4> QED BY <1>1, <1>5, <2>1, <4>1 DEF Marks
    <3> QED BY <3>1, <3>2
  <2>2. size' = IF f = <<>> THEN 0 ELSE f[Len(f)]
    BY <1>4, <1>5
  <2>3. ASSUME type = 0, NEW p \in 1 .. size'
        PROVE  data'[p] = 0 <=> \E k \in 1 .. Len(f) : f[k] = p
    <3>1. \A q \in 1 .. size : data[q] = 0 <=> \E k \in 1 .. n : e[k] = q
      BY <1>1, <2>3 DEF Marks
    <3>2. r = Len(d) + 1 /\ d \in Seq(Bytes \ {0}) /\ Len(d) \in Nat
      BY <2>3, ByteAssumption DEF r, RealSize, Items
    <3>3. CASE p \in 1 .. size
      <4>1. data'[p] = 0 <=> \E k \in 1 .. n : f[k] = p
        BY <1>3, <1>5, <3>1, <3>3
      <4>2. f[n + 1] # p
        BY <1>2, <1>5, <3>3
      <4>3. \A k : k \in 1 .. Len(f) <=> k \in 1 .. n \/ k = n + 1
        BY <1>4, <1>5
      <4> QED BY <4>1, <4>2, <4>3
    <3>4. CASE p = size'
      <4>1. data'[p] = 0
        <5>1. r \in 1 .. r /\ p = size + r
          BY <1>2, <3>4
        <5> QED BY <1>2, <2>3, <5>1 DEF ByteOf, r
      <4>2. n + 1 \in 1 .. Len(f)
        BY <1>4, <1>5
      <4> QED BY <1>5, <3>4, <4>1, <4>2
    <3>5. CASE p \notin 1 .. size /\ p # size'
      <4> DEFINE i == p - size
      <4>1. i \in 1 .. Len(d) /\ i \in 1 .. r /\ i # r /\ p = size + i
        BY <1>2, <3>2, <3>5
      <4> HIDE DEF i
      <4>2. data'[p] = d[i] /\ d[i] # 0
        <5>1. data'[p] = ByteOf(d, i)
          BY <1>2, <4>1
        <5>2. ByteOf(d, i) = d[i]
          BY <4>1 DEF ByteOf, r
        <5> QED BY <3>2, <4>1, <5>1, <5>2
      <4>3. \A k \in 1 .. Len(f) : f[k] # p
        <5>1. \A k \in 1 .. Len(f) : f[k] \in 1 .. size \/ f[k] = size'
          <6>1. \A k \in 1 .. Len(f) : k \in 1 .. n \/ k = n + 1
            BY <1>4, <1>5
          <6> QED BY <1>4, <1>5, <6>1
        <5> QED BY <3>5, <5>1
      <4> QED BY <4>2, <4>3
    <3> QED BY <3>3, <3>4, <3>5
  <2>4. ASSUME type # 0, NEW k \in 1 .. Len(f) PROVE f[k] = k * type
    <3>1. \A j \in 1 .. n : e[j] = j * type
      BY <1>1, <2>4 DEF Marks
    <3>2. size = n * type
      <4>1. CASE n = 0
        BY <1>2, <1>4, <4>1
      <4>2. CASE n # 0
        BY <1>4, <3>1, <4>2
      <4> QED BY <4>1, <4>2
    <3>3. r = type
      BY <2>4 DEF r, RealSize
    <3>4. CASE k = n + 1
      <4>1. n * type + type = (n + 1) * type
        BY <1>2, <1>4
      <4> QED BY <1>2, <1>5, <3>2, <3>3, <3>4, <4>1
    <3>5. CASE k # n + 1
      <4>1. k \in 1 .. n
        BY <1>4, <1>5, <3>5
      <4> QED BY <1>5, <3>1, <4>1
    <3> QED BY <3>4, <3>5
  <2> QED BY <1>2, <1>5, <2>1, <2>2, <2>3, <2>4 DEF Marks
<1>7. Between(type', data', f) = Append(Between(type, data, e), d)
  <2> DEFINE s == Between(type, data, e)
             t == Between(type', data', f)
             u == Append(s, d)
             End(m) == IF type = 0 THEN m - 1 ELSE m
  <2>1. /\ s = [k \in 1 .. n |-> SubSeq(data, Before(e, k) + 1, End(e[k]))]
        /\ t = [k \in 1 .. n + 1 |-> SubSeq(data', Before(f, k) + 1, End(f[k]))]
    BY <1>2, <1>5, Zenon DEF Between
  <2>2. ASSUME NEW k \in 1 .. n PROVE t[k] = s[k]
    <3>1. Before(f, k) = Before(e, k) /\ f[k] = e[k] /\ k \in 1 .. n + 1
      <4>1. k # 1 => k - 1 \in 1 .. n
        BY <1>4
      <4> QED BY <1>4, <1>5, <4>1 DEF Before
    <3>2. SubSeq(data', Before(e, k) + 1, End(e[k])) = SubSeq(data, Before(e, k) + 1, End(e[k]))
      <4>1. VectorInv'
        BY <1>2, EmplaceKeeps
      <4>2. size <= alloc'
        BY <1>2, <1>3
      <4> QED BY <1>1, <1>2, <1>3, <4>1, <4>2, KeptElements
    <3> HIDE DEF s, t, End
    <3> QED BY <2>1, <3>1, <3>2
  <2>3. t[n + 1] = d
    <3>1. Before(f, n + 1) = size
      <4>1. CASE n = 0
        BY <1>4, <4>1 DEF Before
      <4>2. CASE n # 0
        <5>1. n + 1 # 1 /\ (n + 1) - 1 = n /\ n \in 1 .. n
          BY <1>4, <4>2
        <5> QED BY <1>4, <1>5, <4>2, <5>1 DEF Before
      <4> QED BY <4>1, <4>2
    <3>2. d \in Seq(Bytes) /\ Len(d) \in Nat /\ End(size') = size + Len(d)
      <4>1. CASE type = 0
        <5>1. d \in Seq(Bytes \ {0}) /\ Len(d) \in Nat /\ r = Len(d) + 1
          BY <4>1, ByteAssumption DEF Items, r, RealSize
        <5>2. d \in Seq(Bytes)
          <6>1. Bytes \ {0} \subseteq Bytes
            OBVIOUS
          <6> QED BY <5>1, <6>1, SeqMonotonic
        <5> QED BY <1>2, <4>1, <5>1, <5>2
      <4>2. CASE type # 0
        <5>1. d \in [1 .. type -> Bytes] /\ r = type
          BY <4>2 DEF Items, r, RealSize
        <5>2. d \in Seq(Bytes) /\ Len(d) = type
          BY <1>2, <5>1
        <5> QED BY <1>2, <4>2, <5>1, <5>2
      <4> QED BY <4>1, <4>2
    <3>3. \A i \in 1 .. Len(d) : data'[size + i] = d[i]
      <4> TAKE i \in 1 .. Len(d)
      <4>1. i \in 1 .. r /\ ByteOf(d, i) = d[i]
        <5>1. CASE type = 0
          BY <3>2, <5>1 DEF r, RealSize, ByteOf
        <5>2. CASE type # 0
          <6>1. Len(d) = r
            BY <1>2, <3>2, <5>2
          <6> QED BY <5>2, <6>1 DEF ByteOf
        <5> QED BY <5>1, <5>2
      <4> QED BY <1>2, <4>1
    <3>4. size + Len(d) <= alloc'
      <4>1. End(size') <= size'
        <5>1. size' \in Nat /\ \A m \in Nat : m - 1 <= m /\ m <= m
          BY <1>3
        <5> QED BY <5>1, Zenon
      <4> HIDE DEF End
      <4>2. size + Len(d) <= size' /\ size + Len(d) \in Nat
        BY <1>2, <3>2, <4>1
      <4> QED BY <1>3, <4>2
    <3>5. SubSeq(data', size + 1, size + Len(d)) = d
      <4>1. alloc' \in Nat /\ data' \in [1 .. alloc' -> Bytes] /\ size \in Nat /\ d \in Seq(Bytes)
        BY <1>2, <1>3, <3>2
      <4>2. size + Len(d) \in Nat
        BY <1>2, <3>2
      <4> QED BY <3>3, <3>4, <4>1, <4>2, WholeSlice, Zenon
    <3>6. n + 1 \in 1 .. n + 1
      BY <1>4
    <3>7. t[n + 1] = SubSeq(data', Before(f, n + 1) + 1, End(f[n + 1]))
      <4> HIDE DEF t, s, End
      <4> QED BY <2>1, <3>6
    <3> HIDE DEF t, End
    <3> QED BY <1>5, <3>1, <3>2, <3>5, <3>7
  <2>4. DOMAIN t = 1 .. n + 1 /\ t = [k \in 1 .. n + 1 |-> t[k]]
    <3> HIDE DEF s, End
    <3> QED BY <2>1
  <2>5. u = [k \in 1 .. n + 1 |-> IF k = n + 1 THEN d ELSE s[k]]
    <3>1. Len(s) = n /\ s = [k \in 1 .. n |-> s[k]]
      <4>1. DOMAIN s = 1 .. n /\ s = [k \in 1 .. n |-> s[k]]
        <5> HIDE DEF t, s, End
        <5> QED BY <2>1
      <4> HIDE DEF s, t, n
      <4> QED BY <1>4, <4>1
    <3> HIDE DEF s
    <3> QED BY <1>4, <3>1
  <2> HIDE DEF s, t, u
  <2>6. \A k \in 1 .. n + 1 : t[k] = IF k = n + 1 THEN d ELSE s[k]
    BY <1>4, <2>2, <2>3
  <2>7. t = u
    BY <2>4, <2>5, <2>6, Zenon
  <2> QED BY <2>7 DEF s, t, u
<1> QED BY <1>1, <1>6, <1>7

\* vector_setsize cuts the array, or adds elements that are zero.
LEMMA SetSizeReads ==
  ASSUME ArrayInv, NEW n \in Counts, SetSize(n)
  PROVE  \E e, f : /\ Marks(type, size, data, e) /\ Marks(type', size', data', f)
                   /\ LET s == Between(type, data, e)
                      IN  Between(type', data', f) =
                            [k \in 1 .. n |-> IF k <= Len(s) THEN s[k] ELSE [i \in 1 .. type |-> 0]]
<1>1. PICK e : Marks(type, size, data, e)
  BY DEF ArrayInv
<1> DEFINE m == Len(e)
           f == [k \in 1 .. n |-> k * type]
<1>2. VectorInv /\ VectorInv' /\ \A i \in 1 .. size : data'[i] = data[i]
  BY SetSizeKeeps DEF ArrayInv
<1>3. n \in Nat /\ type \in Nat \ {0} /\ type' = type
  BY <1>2, TypeAssumption DEF SetSize, VectorInv, TypeOK
<1>4. /\ size \in Nat /\ size' \in Nat /\ alloc \in Nat /\ alloc' \in Nat
      /\ size <= alloc /\ size' <= alloc'
      /\ data \in [1 .. alloc -> Bytes] /\ data' \in [1 .. alloc' -> Bytes]
  BY <1>2 DEF VectorInv, TypeOK, FitsBlock
<1>5. /\ n * type \in Nat /\ n <= n * type /\ size' = n * type
      /\ IF size < n * type THEN alloc' = n * type /\ data' = Moved(n * type)
         ELSE alloc' = alloc /\ data' = data
  <2>1. Wanted(n) = n * type /\ Wanted(n) \in Nat /\ n <= Wanted(n)
    BY <1>2, <1>3, WantedIsEnough DEF VectorInv, Wanted
  <2> QED BY <2>1 DEF SetSize, Resized
<1>6. size <= alloc'
  BY <1>4, <1>5
<1>7. /\ m \in Nat /\ \A k \in 1 .. m : e[k] \in 1 .. size /\ e[k] = k * type
      /\ size = m * type
  <2>1. /\ m \in Nat /\ \A k \in 1 .. m : e[k] \in 1 .. size
        /\ (m = 0 => size = 0) /\ (m # 0 => size = e[m])
    BY <1>1, <1>4, MarksAre
  <2>2. \A k \in 1 .. m : e[k] = k * type
    BY <1>1, <1>3 DEF Marks
  <2>3. CASE m = 0
    BY <1>3, <2>1, <2>2, <2>3
  <2>4. CASE m # 0
    BY <2>1, <2>2, <2>4
  <2> QED BY <2>1, <2>2, <2>3, <2>4
<1>8. \A k \in 1 .. n : /\ k * type \in 1 .. size' /\ (k - 1) * type \in 0 .. size'
                        /\ (k - 1) * type + type = k * type
  <2> TAKE k \in 1 .. n
  <2>1. k * type \in Nat /\ k * type <= n * type /\ (k - 1) * type \in Nat
    BY <1>3, Products
  <2>2. (k - 1) * type + type = k * type
    BY <1>3
  <2> QED BY <1>3, <1>5, <2>1, <2>2
<1>9. f \in Seq(1 .. size') /\ Len(f) = n /\ \A k \in 1 .. n : f[k] = k * type
  <2>1. f \in [1 .. n -> 1 .. size']
    BY <1>8
  <2> QED BY <1>3, <2>1
<1>10. \A k \in 1 .. n : Before(f, k) = (k - 1) * type
  <2> TAKE k \in 1 .. n
  <2>1. CASE k = 1
    BY <1>3, <2>1 DEF Before
  <2>2. CASE k # 1
    <3>1. k - 1 \in 1 .. n
      BY <1>3, <2>2
    <3> QED BY <1>9, <2>2, <3>1 DEF Before
  <2> QED BY <2>1, <2>2
<1> HIDE DEF f
<1>11. Marks(type', size', data', f)
  <2>1. ASSUME NEW j \in 1 .. Len(f), NEW k \in 1 .. Len(f), j < k PROVE f[j] < f[k]
    <3>1. j \in 1 .. n /\ k \in 1 .. n /\ j \in Nat /\ k - 1 \in Nat /\ j <= k - 1
      BY <1>3, <1>9, <2>1
    <3>2. j * type <= (k - 1) * type /\ j * type \in Nat /\ (k - 1) * type \in Nat
      BY <1>3, <3>1, Products
    <3>3. (k - 1) * type < k * type
      BY <1>3, <1>8, <3>1, <3>2
    <3>4. f[j] = j * type /\ f[k] = k * type
      BY <1>9, <3>1
    <3>5. k * type \in Nat
      BY <1>3, <3>1, Products
    <3> QED BY <3>2, <3>3, <3>4, <3>5
  <2>2. size' = IF f = <<>> THEN 0 ELSE f[Len(f)]
    <3>1. CASE n = 0
      BY <1>3, <1>5, <1>9, <3>1
    <3>2. CASE n # 0
      BY <1>3, <1>5, <1>9, <3>2
    <3> QED BY <3>1, <3>2
  <2> QED BY <1>3, <1>9, <2>1, <2>2 DEF Marks
<1> DEFINE s == Between(type, data, e)
           t == Between(type', data', f)
           blank == [i \in 1 .. type |-> 0]
<1>12. /\ s = [k \in 1 .. m |-> SubSeq(data, Before(e, k) + 1, e[k])]
       /\ t = [k \in 1 .. n |-> SubSeq(data', Before(f, k) + 1, f[k])]
  <2>1. type # 0 /\ type' # 0
    BY <1>3
  <2> QED BY <1>9, <2>1, Zenon DEF Between
<1>13. ASSUME NEW k \in 1 .. n, k <= m PROVE t[k] = s[k]
  <2>1. k \in 1 .. m /\ k \in 1 .. Len(e)
    BY <1>7, <1>13
  <2>2. Before(f, k) = Before(e, k) /\ f[k] = e[k]
    <3>1. k # 1 => k - 1 \in 1 .. m /\ k - 1 \in 1 .. n
      BY <1>3, <1>7, <2>1
    <3> QED BY <1>7, <1>9, <2>1, <3>1 DEF Before
  <2>3. SubSeq(data', Before(e, k) + 1, e[k]) = SubSeq(data, Before(e, k) + 1, e[k])
    BY <1>1, <1>2, <1>3, <1>6, <2>1, KeptElements
  <2> HIDE DEF s, t
  <2> QED BY <1>12, <2>1, <2>2, <2>3
<1>14. ASSUME NEW k \in 1 .. n, k > m PROVE t[k] = blank
  <2> DEFINE x == (k - 1) * type
             y == k * type
  <2>1. x \in Nat /\ y \in Nat /\ x + type = y /\ y <= n * type /\ size <= x
    <3>1. m \in Nat /\ k - 1 \in Nat /\ m <= k - 1
      BY <1>7, <1>14
    <3>2. m * type <= (k - 1) * type
      BY <1>3, <3>1, Products
    <3> QED BY <1>5, <1>7, <1>8, <3>2
  <2>2. SubSeq(data', x + 1, y) = t[k]
    <3> HIDE DEF s, t
    <3> QED BY <1>9, <1>10, <1>12
  <2> HIDE DEF x, y, s, t
  <2>3. size < n * type /\ alloc' = n * type
    BY <1>3, <1>4, <1>5, <2>1
  <2>4. \A i \in 1 .. type : data'[x + i] = 0
    <3> TAKE i \in 1 .. type
    <3>1. x + i \in 1 .. n * type /\ ~(x + i <= size)
      BY <1>3, <1>4, <1>5, <2>1
    <3>2. data' = [j \in 1 .. n * type |-> IF j <= size THEN data[j] ELSE 0]
      BY <1>5, <2>3, Zenon DEF Moved
    <3> QED BY <3>1, <3>2
  <2>5. blank \in Seq(Bytes) /\ Len(blank) = type /\ \A i \in 1 .. type : blank[i] = 0
    BY <1>3, ByteAssumption
  <2> HIDE DEF blank
  <2>6. \A i \in 1 .. Len(blank) : data'[x + i] = blank[i]
    BY <2>4, <2>5
  <2>7. y = x + Len(blank) /\ y <= alloc'
    BY <2>1, <2>3, <2>5
  <2>8. SubSeq(data', x + 1, y) = blank
    <3>1. alloc' \in Nat /\ data' \in [1 .. alloc' -> Bytes] /\ x \in Nat /\ y \in Nat
      BY <1>4, <2>1
    <3>2. blank \in Seq(Bytes)
      BY <2>5
    <3> QED BY <2>6, <2>7, <3>1, <3>2, WholeSlice
  <2> QED BY <2>2, <2>8
<1>15. Len(s) = m
  <2> HIDE DEF t, blank
  <2> DEFINE z == s
  <2>1. DOMAIN z = 1 .. m /\ z = [k \in 1 .. m |-> z[k]]
    <3> HIDE DEF s
    <3> QED BY <1>12
  <2> HIDE DEF z
  <2>2. Len(z) = m
    BY <1>7, <2>1
  <2> QED BY <2>2 DEF z
<1>16. t = [k \in 1 .. n |-> IF k <= Len(s) THEN s[k] ELSE blank]
  <2>1. t = [k \in 1 .. n |-> t[k]]
    <3> HIDE DEF s, t, blank
    <3> QED BY <1>12
  <2>2. \A k \in 1 .. n : t[k] = IF k <= Len(s) THEN s[k] ELSE blank
    <3> HIDE DEF s, t, blank
    <3> QED BY <1>7, <1>13, <1>14, <1>15
  <2> HIDE DEF s, t, blank
  <2> QED BY <2>1, <2>2, Zenon
<1> QED BY <1>1, <1>11, <1>16, Zenon

\* vector_clone copies the elements.
LEMMA CloneReads ==
  ASSUME ArrayInv, Clone
  PROVE  \E e : /\ Marks(type, size, data, e) /\ Marks(type', size', data', e)
                /\ Between(type', data', e) = Between(type, data, e)
<1>1. PICK e : Marks(type, size, data, e)
  BY DEF ArrayInv
<1>2. VectorInv /\ VectorInv' /\ \A i \in 1 .. size : data'[i] = data[i]
  BY CloneKeeps DEF ArrayInv
<1>3. /\ size \in Nat /\ size <= alloc' /\ type' = type /\ size' = size
  BY <1>2 DEF VectorInv, TypeOK, FitsBlock, Clone
<1>4. Marks(type', size', data', e)
  <2>1. ASSUME type = 0, NEW p \in 1 .. size PROVE data'[p] = 0 <=> \E k \in 1 .. Len(e) : e[k] = p
    BY <1>1, <1>2, <2>1 DEF Marks
  <2> QED BY <1>1, <1>3, <2>1, Zenon DEF Marks
<1>5. Between(type', data', e) = Between(type, data, e)
  <2>1. \A k \in 1 .. Len(e) : SubSeq(data', Before(e, k) + 1, IF type = 0 THEN e[k] - 1 ELSE e[k])
                               = SubSeq(data, Before(e, k) + 1, IF type = 0 THEN e[k] - 1 ELSE e[k])
    BY <1>1, <1>2, <1>3, KeptElements
  <2> QED BY <1>3, <2>1, Zenon DEF Between
<1> QED BY <1>1, <1>4, <1>5

\* Read through vector_size and vector_get, a vector is the array of what was emplaced,
\* cut and extended with zeros by vector_setsize.
THEOREM VectorIsAnArray == Spec => IsAnArray
<1> DEFINE Contents == [k \in 1 .. Count |-> Get(k - 1)]
           Blank == [i \in 1 .. type |-> 0]
<1>1. Init => ArrayInv /\ Array!Init
  <2> SUFFICES ASSUME Init PROVE ArrayInv /\ Array!Init
    OBVIOUS
  <2>1. VectorInv /\ size = 0 /\ pushes = 0
    BY InitEstablishes DEF Init
  <2>2. Marks(type, size, data, <<>>)
    BY <2>1 DEF Marks
  <2>3. Contents = Between(type, data, <<>>)
    BY <2>1, <2>2, ReadersSeeElements, Zenon
  <2> DEFINE b == Between(type, data, <<>>)
  <2>4. b = <<>>
    <3>1. Len(<<>>) = 0
      OBVIOUS
    <3>2. b = [k \in 1 .. 0 |-> SubSeq(data, Before(<<>>, k) + 1, IF type = 0 THEN <<>>[k] - 1 ELSE <<>>[k])]
      BY <3>1, Zenon DEF Between
    <3>3. DOMAIN b = 1 .. 0 /\ b = [k \in 1 .. 0 |-> b[k]]
      <4> HIDE DEF b
      <4> QED BY <3>2
    <3> HIDE DEF b
    <3>4. b \in Seq(Nat) /\ Len(b) = 0
      BY <3>3
    <3> QED BY <3>4
  <2> QED BY <2>1, <2>2, <2>3, <2>4 DEF ArrayInv, Array!Init
<1>2. ArrayInv /\ [Next]_vars => ArrayInv' /\ [Array!Next]_Array!vars
  <2> SUFFICES ASSUME ArrayInv, [Next]_vars PROVE ArrayInv' /\ [Array!Next]_Array!vars
    OBVIOUS
  <2>1. \A e : VectorInv /\ Marks(type, size, data, e) => Contents = Between(type, data, e)
    BY ReadersSeeElements
  <2>2. \A e : VectorInv' /\ Marks(type', size', data', e) => Contents' = Between(type', data', e)
    <3>1. (\A e : VectorInv /\ Marks(type, size, data, e) => Contents = Between(type, data, e))'
      BY ReadersSeeElements, PTL
    <3> QED BY <3>1 DEF Marks, Between
  <2>3. VectorInv /\ VectorInv'
    BY StepKeeps DEF ArrayInv
  <2> HIDE DEF Contents
  <2>4. ASSUME NEW d \in Items, Emplace(d) PROVE ArrayInv' /\ Array!Next
    <3>1. PICK e, f : /\ Marks(type, size, data, e) /\ Marks(type', size', data', f)
                      /\ Between(type', data', f) = Append(Between(type, data, e), d)
      BY <2>4, EmplaceReads
    <3>2. Contents' = Append(Contents, d)
      BY <2>1, <2>2, <2>3, <3>1
    <3>3. type' = type /\ pushes' = pushes + 1
      BY <2>4 DEF Emplace
    <3>4. d \in Strings \cup UNION { [1 .. t -> Bytes] : t \in Types \ {0} }
      BY <2>3 DEF Items, VectorInv, TypeOK
    <3>5. Array!Push(d)
      BY <3>2, <3>3, Zenon DEF Array!Push, Contents
    <3>6. Blank' = Blank
      BY <3>3
    <3>7. ArrayInv'
      BY <2>3, <3>1 DEF ArrayInv, Marks
    <3> QED BY <3>4, <3>5, <3>6, <3>7, Zenon DEF Array!Next
  <2>5. ASSUME NEW n \in Counts, SetSize(n) PROVE ArrayInv' /\ Array!Next
    <3>1. PICK e, f : /\ Marks(type, size, data, e) /\ Marks(type', size', data', f)
                      /\ LET s == Between(type, data, e)
                         IN  Between(type', data', f) =
                               [k \in 1 .. n |-> IF k <= Len(s) THEN s[k] ELSE Blank]
      BY <2>5, SetSizeReads
    <3>2. Contents' = [k \in 1 .. n |-> IF k <= Len(Contents) THEN Contents[k] ELSE Blank]
      BY <2>1, <2>2, <2>3, <3>1, Zenon
    <3>3. type' = type /\ pushes' = pushes
      BY <2>5 DEF SetSize
    <3>4. n \in Nat
      BY TypeAssumption
    <3>5. Len(Contents') = n
      <4> DEFINE z == Contents'
      <4>1. DOMAIN z = 1 .. n /\ z = [k \in 1 .. n |-> z[k]]
        BY <3>2
      <4> HIDE DEF z
      <4>2. Len(z) = n
        BY <3>4, <4>1
      <4> QED BY <4>2 DEF z
    <3>6. Array!Resize
      BY <3>2, <3>3, <3>5, Zenon DEF Array!Resize, Contents
    <3>7. Blank' = Blank
      BY <3>3
    <3>8. ArrayInv'
      BY <2>3, <3>1 DEF ArrayInv, Marks
    <3> QED BY <3>6, <3>7, <3>8, Zenon DEF Array!Next
  <2>6. CASE Clone
    <3>1. PICK e : /\ Marks(type, size, data, e) /\ Marks(type', size', data', e)
                   /\ Between(type', data', e) = Between(type, data, e)
      BY <2>6, CloneReads
    <3>2. Contents' = Contents
      BY <2>1, <2>2, <2>3, <3>1
    <3>3. type' = type /\ pushes' = pushes
      BY <2>6 DEF Clone
    <3>4. Blank' = Blank
      BY <3>3
    <3>5. ArrayInv'
      BY <2>3, <3>1 DEF ArrayInv, Marks
    <3> QED BY <3>2, <3>3, <3>4, <3>5, Zenon DEF Array!vars, Contents
  <2>7. CASE UNCHANGED vars
    <3>1. type' = type /\ size' = size /\ data' = data /\ pushes' = pushes
      BY <2>7 DEF vars
    <3>2. PICK e : Marks(type, size, data, e)
      BY DEF ArrayInv
    <3>3. Marks(type', size', data', e) /\ Between(type', data', e) = Between(type, data, e)
      BY <3>1, <3>2, Zenon
    <3>4. Contents' = Contents
      BY <2>1, <2>2, <2>3, <3>2, <3>3
    <3>5. Blank' = Blank
      BY <3>1
    <3>6. ArrayInv'
      BY <2>3, <3>3 DEF ArrayInv, Marks
    <3> QED BY <3>1, <3>4, <3>5, <3>6, Zenon DEF Array!vars, Contents
  <2> QED BY <2>4, <2>5, <2>6, <2>7 DEF Next
<1>3. ArrayInv /\ [Next]_vars => [Array!Next]_Array!vars
  BY <1>2
<1> QED BY <1>1, <1>2, PTL DEF Spec, IsAnArray

----------------------------------------------------------------------------
(* The tree. *)

\* A node as udir_create and udir_addfile fill it in.
Inode == [type : {"dir", "file"}, path : Seq(Names), parent : Nat, children : Seq(Nat)]

\* The first node is the mount point; a node is in the list of children of one directory,
\* its parent, once, and was made after it.
Tree(t) ==
  /\ t \in Seq(Inode) /\ Len(t) >= 1
  /\ t[1].type = "dir" /\ t[1].path = <<>> /\ t[1].parent = 0
  /\ \A n \in 1 .. Len(t) : \A k \in 1 .. Len(t[n].children) :
       t[n].children[k] \in n + 1 .. Len(t) /\ t[t[n].children[k]].parent = n
  /\ \A n \in 1 .. Len(t) : \A k, l \in 1 .. Len(t[n].children) :
       t[n].children[k] = t[n].children[l] => k = l
  /\ \A n \in 2 .. Len(t) :
       /\ t[n].parent \in 1 .. n - 1 /\ t[t[n].parent].type = "dir"
       /\ \E k \in 1 .. Len(t[t[n].parent].children) : t[t[n].parent].children[k] = n
  /\ \A n \in 1 .. Len(t) : t[n].type = "file" => t[n].path \in Paths

\* A call of userfs_mountfile in progress: from the second turn on it has a directory.
Mounting ==
  /\ phase = "online" /\ call.path \in Paths /\ call.level \in 0 .. Len(call.path)
  /\ call.target \in 0 .. Len(node)
  /\ call.level >= 1 => call.target \in 1 .. Len(node) /\ node[call.target].type = "dir"

TreeInv ==
  /\ phase \in {"none", "online", "exiting"} /\ loop \in {"absent", "waiting", "walking"}
  /\ calls \in 0 .. MaxMounts
  /\ phase = "none" => loop = "absent" /\ node = <<>>
  /\ phase # "none" => Tree(node)
  /\ call = NoCall \/ (call \in [path : Seq(Names), level : Nat, target : Nat] /\ Mounting)

(* The walk of a request. *)

\* Each frame stands at a directory, which is the child the frame below has come to.
Frames(t, s) ==
  /\ s \in Seq([dir : Nat, next : Nat])
  /\ \A i \in 1 .. Len(s) :
       /\ s[i].dir \in 1 .. Len(t) /\ t[s[i].dir].type = "dir"
       /\ s[i].next \in 1 .. Len(t[s[i].dir].children) + 1
  /\ Len(s) >= 1 => s[1].dir = 1
  /\ \A i \in 1 .. Len(s) - 1 :
       /\ s[i].next <= Len(t[s[i].dir].children)
       /\ s[i + 1].dir = t[s[i].dir].children[s[i].next]
  /\ \A i, j \in 1 .. Len(s) : i < j => s[i].dir < s[j].dir

\* D is what the walk is done with: of each frame's directory the children before the
\* next one, and with a node all that was below it when the request came.
Scan(t, s, D, seen) ==
  /\ D \subseteq 2 .. Len(t)
  /\ \A i \in 1 .. Len(s) : s[i].dir \notin D
  /\ \A i \in 1 .. Len(s) : \A k \in 1 .. Len(t[s[i].dir].children) :
       t[s[i].dir].children[k] \in D <=> k < s[i].next
  /\ \A n \in D : t[n].parent \in D \/ t[n].parent = 1 \/ \E i \in 1 .. Len(s) : s[i].dir = t[n].parent
  /\ \A n \in 2 .. seen : t[n].parent \in D => n \in D
  /\ Len(s) = 0 => 2 .. seen \subseteq D

\* Whether request r ends at node n of t.
EndsAt(t, r, n) ==
  \/ r.op \in {"open", "opendir", "read", "getattr"} /\ n = r.ino
  \/ /\ r.op = "lookup"
     /\ (IF t[n].path = <<>> THEN RootName ELSE Last(t[n].path)) = r.name \/ t[n].parent = r.ino

\* None of the nodes in D ends the request, and those of them a listing should have it has.
Passed(t, r, D, l) ==
  /\ \A n \in D : ~EndsAt(t, r, n) /\ (r.op = "readdir" /\ t[n].parent = r.ino => \E k \in 1 .. Len(l) : l[k] = n)
  /\ \A k \in 1 .. Len(l) : l[k] \in D

Requests == [op : Ops, ino : Nat, name : Names \cup {RootName}, seen : Nat]

\* A request userfs_getattr answers without the tree.
Known(r) == r.op = "getattr" /\ r.ino < 3

Walking(t, r, s, f, l) ==
  /\ r \in Requests /\ r.seen \in 1 .. Len(t) /\ r.ino \in 1 .. r.seen
  /\ Frames(t, s) /\ f \in 0 .. Len(t)
  /\ l \in Seq(Nat) /\ \A j, k \in 1 .. Len(l) : l[j] = l[k] => j = k
  /\ r.op = "readdir" => f = 0
  /\ r.op # "readdir" => l = <<>>
  /\ f = 0 /\ r.op \in {"open", "opendir", "read"} => r.ino # 1
  /\ f = 0 /\ ~Known(r) => \E D \in SUBSET Nat : Scan(t, s, D, r.seen) /\ Passed(t, r, D, l)

WalkInv ==
  /\ loop = "walking" => Walking(node, req, stack, found, listed)
  /\ loop # "walking" => stack = <<>> /\ found = 0

\* What NothingIsMissed says, of a reply p and the tree t.
Complete(t, p) ==
  /\ p.req.seen \in 0 .. Len(t)
  /\ p.kind # "EBADF"
  /\ p.req.op = "getattr" => p.kind # "none"
  /\ \A j, k \in DOMAIN p.listed : p.listed[j] = p.listed[k] => j = k
  /\ \A n \in 1 .. p.req.seen :
       /\ p.kind = "ENOENT" =>
            ~(t[n].parent = p.req.ino /\ (IF t[n].path = <<>> THEN RootName ELSE Last(t[n].path)) = p.req.name)
       /\ p.kind = "entries" /\ t[n].parent = p.req.ino => \E k \in DOMAIN p.listed : p.listed[k] = n

UserfsInv == TreeInv /\ WalkInv /\ Complete(node, reply)

\* t has become u by a new last node, with the type and path of x, in p.
Added(t, u, p, x) ==
  /\ u \in Seq(Inode) /\ Len(u) = Len(t) + 1
  /\ \A n \in 1 .. Len(t) : /\ u[n].type = t[n].type /\ u[n].path = t[n].path
                            /\ u[n].parent = t[n].parent
                            /\ n # p => Len(u[n].children) = Len(t[n].children)
                            /\ \A k \in 1 .. Len(t[n].children) : u[n].children[k] = t[n].children[k]
  /\ Len(u[p].children) = Len(t[p].children) + 1
  /\ u[p].children[Len(t[p].children) + 1] = Len(t) + 1
  /\ u[Len(t) + 1].type = x.type /\ u[Len(t) + 1].path = x.path
  /\ u[Len(t) + 1].parent = p /\ u[Len(t) + 1].children = <<>>

\* What a node of a sequence of nodes is made of.
LEMMA NodeTypes ==
  ASSUME NEW t \in Seq(Inode), NEW n \in 1 .. Len(t)
  PROVE  /\ t[n] \in Inode /\ t[n].type \in {"dir", "file"} /\ t[n].path \in Seq(Names)
         /\ t[n].parent \in Nat /\ t[n].children \in Seq(Nat) /\ Len(t[n].children) \in Nat
         /\ Len(t) \in Nat
<1>1. t[n] \in Inode /\ Len(t) \in Nat
  OBVIOUS
<1> QED BY <1>1, SMTT(30) DEF Inode

\* list_push in the parent's children, after the node was filled in.
LEMMA AddNodeAdds ==
  ASSUME node \in Seq(Inode), NEW p \in 1 .. Len(node), NEW x \in Inode, x.children = <<>>, AddNode(x, p)
  PROVE  Added(node, node', p, x)
<1> DEFINE c == Append(node[p].children, Len(node) + 1)
           parent == [node[p] EXCEPT !.children = c]
           t == [node EXCEPT ![p] = parent]
           last == [x EXCEPT !.parent = p]
<1>1. node[p] \in Inode /\ node[p].children \in Seq(Nat) /\ Len(node) \in Nat
  BY NodeTypes
<1>2. c \in Seq(Nat) /\ Len(c) = Len(node[p].children) + 1 /\ c[Len(c)] = Len(node) + 1
      /\ \A k \in 1 .. Len(node[p].children) : c[k] = node[p].children[k]
  BY <1>1
<1>3. node' = Append(t, last)
  BY DEF AddNode
<1> HIDE DEF c
<1>4. parent \in Inode /\ parent.children = c /\ parent.type = node[p].type
      /\ parent.path = node[p].path /\ parent.parent = node[p].parent
  BY <1>1, <1>2 DEF Inode
<1>5. last \in Inode /\ last.type = x.type /\ last.path = x.path /\ last.parent = p /\ last.children = <<>>
  <2>1. p \in Nat
    BY <1>1
  <2> QED BY <2>1 DEF Inode
<1> HIDE DEF parent, last
<1>6. t \in Seq(Inode) /\ Len(t) = Len(node) /\ t[p] = parent
      /\ \A n \in 1 .. Len(node) : n # p => t[n] = node[n]
  BY <1>4
<1> HIDE DEF t
<1>7. node' \in Seq(Inode) /\ Len(node') = Len(node) + 1 /\ node'[Len(node) + 1] = last
      /\ \A n \in 1 .. Len(node) : node'[n] = t[n]
  <2>1. last \in Inode /\ t \in Seq(Inode)
    BY <1>5, <1>6
  <2> HIDE DEF Inode
  <2> QED BY <1>3, <1>6, <2>1, AppendProperties, SMTT(30)
<1>8. ASSUME NEW n \in 1 .. Len(node)
      PROVE  /\ node'[n].type = node[n].type /\ node'[n].path = node[n].path
             /\ node'[n].parent = node[n].parent
             /\ n # p => Len(node'[n].children) = Len(node[n].children)
             /\ \A k \in 1 .. Len(node[n].children) : node'[n].children[k] = node[n].children[k]
  <2>1. CASE n = p
    BY <1>2, <1>4, <1>6, <1>7, <2>1
  <2>2. CASE n # p
    <3>1. node'[n] = node[n] /\ node[n] \in Inode
      BY <1>6, <1>7, <2>2
    <3> QED BY <2>2, <3>1
  <2> QED BY <2>1, <2>2
<1>9. node'[p].children = c
  BY <1>4, <1>6, <1>7
<1> QED BY <1>2, <1>5, <1>7, <1>8, <1>9 DEF Added

\* A node added to a directory makes a tree of a tree.
LEMMA AddedIsTree ==
  ASSUME NEW t, NEW u, NEW p \in 1 .. Len(t), NEW x, Tree(t), Added(t, u, p, x),
         t[p].type = "dir", x.type = "file" => x.path \in Paths
  PROVE  Tree(u)
<1> DEFINE N == Len(t)
<1>1. u \in Seq(Inode) /\ Len(u) = N + 1 /\ N \in Nat /\ N >= 1
  BY DEF Added, Tree
<1>2. \A n \in 1 .. N : Len(t[n].children) \in Nat
  BY NodeTypes DEF Tree
<1>3. u[1].type = "dir" /\ u[1].path = <<>> /\ u[1].parent = 0
  <2>1. 1 \in 1 .. N
    BY <1>1
  <2> QED BY <2>1 DEF Added, Tree
<1>4. ASSUME NEW n \in 1 .. N + 1, NEW k \in 1 .. Len(u[n].children)
      PROVE  \/ n \in 1 .. N /\ k \in 1 .. Len(t[n].children) /\ u[n].children[k] = t[n].children[k]
             \/ n = p /\ k = Len(t[p].children) + 1 /\ u[n].children[k] = N + 1
  <2>1. CASE n = N + 1
    BY <1>1, <2>1 DEF Added
  <2>2. CASE n # N + 1
    <3>1. n \in 1 .. N
      BY <1>1, <2>2
    <3>2. CASE n = p
      BY <1>2, <3>1, <3>2, SMTT(30) DEF Added
    <3>3. CASE n # p
      BY <1>2, <3>1, <3>3 DEF Added
    <3> QED BY <3>2, <3>3
  <2> QED BY <2>1, <2>2
<1>5. ASSUME NEW n \in 1 .. N + 1, NEW k \in 1 .. Len(u[n].children)
      PROVE  u[n].children[k] \in n + 1 .. N + 1 /\ u[u[n].children[k]].parent = n
  <2>1. CASE n \in 1 .. N /\ k \in 1 .. Len(t[n].children) /\ u[n].children[k] = t[n].children[k]
    <3>1. t[n].children[k] \in n + 1 .. N /\ t[t[n].children[k]].parent = n
      BY <2>1 DEF Tree
    <3>2. t[n].children[k] \in 1 .. N /\ t[n].children[k] \in n + 1 .. N + 1
      BY <1>1, <2>1, <3>1
    <3>3. u[t[n].children[k]].parent = n
      BY <3>1, <3>2 DEF Added
    <3> QED BY <2>1, <3>2, <3>3
  <2>2. CASE n = p /\ k = Len(t[p].children) + 1 /\ u[n].children[k] = N + 1
    BY <1>1, <2>2 DEF Added
  <2> QED BY <1>4, <2>1, <2>2
<1>6. ASSUME NEW n \in 1 .. N + 1, NEW k \in 1 .. Len(u[n].children), NEW l \in 1 .. Len(u[n].children),
             u[n].children[k] = u[n].children[l]
      PROVE  k = l
  <2>1. ASSUME NEW j \in 1 .. Len(u[n].children), n \in 1 .. N, j \in 1 .. Len(t[n].children),
               u[n].children[j] = t[n].children[j]
        PROVE  u[n].children[j] # N + 1
    <3>1. t[n].children[j] \in n + 1 .. N
      BY <2>1 DEF Tree
    <3> QED BY <1>1, <2>1, <3>1
  <2>2. ASSUME n \in 1 .. N, k \in 1 .. Len(t[n].children), l \in 1 .. Len(t[n].children)
        PROVE  k = l
    <3>1. t[n].children[k] = t[n].children[l]
      BY <1>6, <2>2 DEF Added
    <3> QED BY <2>2, <3>1 DEF Tree
  <2> QED BY <1>4, <1>6, <2>1, <2>2
<1>7. ASSUME NEW n \in 2 .. N + 1
      PROVE  /\ u[n].parent \in 1 .. n - 1 /\ u[u[n].parent].type = "dir"
             /\ \E k \in 1 .. Len(u[u[n].parent].children) : u[u[n].parent].children[k] = n
  <2>1. CASE n = N + 1
    <3>1. /\ u[n].parent = p /\ u[p].type = "dir" /\ u[p].children[Len(t[p].children) + 1] = n
          /\ Len(u[p].children) = Len(t[p].children) + 1
      BY <2>1 DEF Added
    <3>2. Len(t[p].children) + 1 \in 1 .. Len(u[p].children)
      BY <1>2, <3>1
    <3> QED BY <2>1, <3>1, <3>2
  <2>2. CASE n # N + 1
    <3>1. n \in 2 .. N /\ n \in 1 .. N
      BY <1>1, <2>2
    <3>2. t[n].parent \in 1 .. n - 1 /\ t[n].parent \in 1 .. N /\ t[t[n].parent].type = "dir"
      BY <1>1, <3>1 DEF Tree
    <3>3. PICK k \in 1 .. Len(t[t[n].parent].children) : t[t[n].parent].children[k] = n
      BY <3>1 DEF Tree
    <3>4. u[n].parent = t[n].parent
      BY <3>1 DEF Added
    <3>5. u[t[n].parent].type = "dir" /\ u[t[n].parent].children[k] = n
      BY <3>2, <3>3 DEF Added
    <3>6. k \in 1 .. Len(u[t[n].parent].children)
      <4>1. \/ Len(u[t[n].parent].children) = Len(t[t[n].parent].children)
            \/ Len(u[t[n].parent].children) = Len(t[t[n].parent].children) + 1
        <5> DEFINE q == t[n].parent
        <5>1. q \in 1 .. N
          BY <3>2
        <5> HIDE DEF q
        <5>2. q # p => Len(u[q].children) = Len(t[q].children)
          BY <5>1 DEF Added
        <5>3. Len(u[p].children) = Len(t[p].children) + 1
          BY DEF Added
        <5>4. CASE q = p
          BY <5>3, <5>4 DEF q
        <5>5. CASE q # p
          BY <5>2, <5>5 DEF q
        <5> QED BY <5>4, <5>5
      <4>2. Len(t[t[n].parent].children) \in Nat
        BY <1>2, <3>2
      <4> DEFINE v == Len(t[t[n].parent].children)
                 w == Len(u[t[n].parent].children)
      <4>3. k \in 1 .. v /\ v \in Nat /\ (w = v \/ w = v + 1)
        BY <3>3, <4>1, <4>2
      <4> HIDE DEF v, w
      <4>4. k \in 1 .. w
        BY <4>3
      <4> QED BY <4>4 DEF w
    <3> QED BY <3>2, <3>4, <3>5, <3>6
  <2> QED BY <2>1, <2>2
<1>8. ASSUME NEW n \in 1 .. N + 1, u[n].type = "file" PROVE u[n].path \in Paths
  <2>1. CASE n = N + 1
    BY <1>8, <2>1 DEF Added
  <2>2. CASE n # N + 1
    <3>1. n \in 1 .. N
      BY <1>1, <2>2
    <3>2. u[n].type = t[n].type /\ u[n].path = t[n].path
      BY <3>1 DEF Added
    <3> QED BY <1>8, <3>1, <3>2 DEF Tree
  <2> QED BY <2>1, <2>2
<1> QED BY <1>1, <1>3, <1>5, <1>6, <1>7, <1>8 DEF Tree

(* udir_mkdir. *)

\* The least element of a nonempty set of naturals is one of its elements.
LEMMA MinIsIn ==
  ASSUME NEW S, S \subseteq Nat, S # {}
  PROVE  Min(S) \in S /\ \A k \in S : Min(S) <= k
<1>1. \E x \in S : \A y \in S : x <= y
  BY LeastNatural
<1> QED BY <1>1 DEF Min

\* The next directory on the way to where q is to be created.
Below(d, q) == node[d].children[Min(Into(d, q))]

\* udir_mkdir goes from a directory to one of its subdirectories whose path begins q.
LEMMA BelowIs ==
  ASSUME Tree(node), NEW q, NEW d \in 1 .. Len(node), Into(d, q) # {}
  PROVE  /\ Below(d, q) \in d + 1 .. Len(node) /\ node[Below(d, q)].type = "dir"
         /\ StringPrefix(node[Below(d, q)].path, q)
<1>1. node[d].children \in Seq(Nat)
  BY NodeTypes DEF Tree
<1>2. Into(d, q) \subseteq 1 .. Len(node[d].children)
  BY <1>1 DEF Into
<1>3. Into(d, q) \subseteq Nat
  BY <1>1, <1>2
<1>4. Min(Into(d, q)) \in Into(d, q)
  BY <1>3, MinIsIn
<1> DEFINE k == Min(Into(d, q))
<1>5. k \in 1 .. Len(node[d].children) /\ IsDir(node[d].children[k])
      /\ StringPrefix(node[node[d].children[k]].path, q)
  BY <1>2, <1>4 DEF Into
<1> QED BY <1>5 DEF Tree, Below, IsDir

\* The recursion of udir_mkdir.
Descends(b, q) ==
  /\ DOMAIN b = 1 .. Len(node)
  /\ \A d \in 1 .. Len(node) : b[d] = IF Into(d, q) = {} THEN d ELSE b[Below(d, q)]

\* It comes to an end, since a subdirectory was made after its parent.
LEMMA DescentExists ==
  ASSUME Tree(node), NEW q
  PROVE  \E b : Descends(b, q)
<1> DEFINE N == Len(node)
           Partly(b, m) == DOMAIN b = m + 1 .. N /\ \A d \in m + 1 .. N : b[d] = IF Into(d, q) = {} THEN d ELSE b[Below(d, q)]
           S == { k \in 0 .. N : \E b : Partly(b, N - k) }
<1>1. N \in Nat
  BY DEF Tree
<1>2. 0 \in S
  <2>1. Partly([d \in N + 1 .. N |-> d], N - 0)
    BY <1>1
  <2> HIDE DEF Partly
  <2> QED BY <1>1, <2>1
<1>3. ASSUME NEW k \in 0 .. N - 1, k \in S
      PROVE  k + 1 \in S
  <2>1. PICK b : Partly(b, N - k)
    BY <1>3
  <2> DEFINE m == N - k
             v == IF Into(m, q) = {} THEN m ELSE b[Below(m, q)]
             c == [d \in m .. N |-> IF d = m THEN v ELSE b[d]]
  <2>2. m \in 1 .. N /\ N - (k + 1) = m - 1 /\ m - 1 + 1 = m /\ m \in m .. N
        /\ \A d \in m + 1 .. N : d \in m .. N /\ d # m
    BY <1>1
  <2> HIDE DEF m, v
  <2>3. DOMAIN c = m .. N /\ c[m] = v /\ \A d \in m + 1 .. N : c[d] = b[d]
    BY <2>2
  <2> HIDE DEF c
  <2>4. ASSUME NEW d \in m .. N PROVE c[d] = IF Into(d, q) = {} THEN d ELSE c[Below(d, q)]
    <3>1. d \in 1 .. N
      BY <1>1, <2>2
    <3>2. Into(d, q) # {} => Below(d, q) \in m + 1 .. N
      <4>1. Into(d, q) # {} => Below(d, q) \in d + 1 .. N
        BY <3>1, BelowIs
      <4> QED BY <1>1, <2>2, <3>1, <4>1
    <3>3. Into(d, q) # {} => c[Below(d, q)] = b[Below(d, q)]
      BY <2>3, <3>2
    <3>4. CASE d = m
      BY <2>3, <3>3, <3>4 DEF v
    <3>5. CASE d # m
      <4>1. d \in m + 1 .. N
        BY <1>1, <2>2, <3>5
      <4>2. b[d] = IF Into(d, q) = {} THEN d ELSE b[Below(d, q)]
        BY <2>1, <4>1 DEF m
      <4> QED BY <2>3, <3>3, <4>1, <4>2
    <3> QED BY <3>4, <3>5
  <2>5. Partly(c, N - (k + 1))
    BY <2>2, <2>3, <2>4
  <2> HIDE DEF Partly
  <2>6. k + 1 \in 0 .. N
    BY <1>1
  <2> QED BY <2>5, <2>6
<1> HIDE DEF S
<1>4. 0 .. N \subseteq S
  BY <1>1, <1>2, <1>3, AllNaturals
<1>5. N \in S
  BY <1>1, <1>4
<1>6. PICK b : Partly(b, N - N)
  BY <1>5 DEF S
<1>7. N - N + 1 = 1
  BY <1>1
<1>8. Descends(b, q)
  BY <1>6, <1>7 DEF Descends
<1> QED BY <1>8

\* udir_mkdir creates q in a directory from which it would not go on: the mount point or
\* one whose path begins q.
LEMMA MkdirInIs ==
  ASSUME Tree(node), NEW q
  PROVE  /\ MkdirIn(q) \in 1 .. Len(node) /\ node[MkdirIn(q)].type = "dir"
         /\ Into(MkdirIn(q), q) = {}
         /\ MkdirIn(q) = 1 \/ StringPrefix(node[MkdirIn(q)].path, q)
<1> DEFINE N == Len(node)
<1>1. N \in Nat /\ N >= 1 /\ DOMAIN node = 1 .. N /\ node[1].type = "dir"
  BY DEF Tree
<1>2. PICK b : Descends(b, q) /\ MkdirIn(q) = b[1]
  <2> DEFINE B(f) == [d \in 1 .. N |-> IF Into(d, q) = {} THEN d ELSE f[Below(d, q)]]
             g == CHOOSE f : f = B(f)
  <2>1. PICK b : Descends(b, q)
    BY DescentExists
  <2> DEFINE c == [d \in 1 .. N |-> b[d]]
  <2>2. c = B(c)
    <3>1. ASSUME NEW d \in 1 .. N
          PROVE  c[d] = IF Into(d, q) = {} THEN d ELSE c[Below(d, q)]
      <4>1. CASE Into(d, q) = {}
        BY <2>1, <4>1 DEF Descends
      <4>2. CASE Into(d, q) # {}
        <5>1. Below(d, q) \in 1 .. N
          <6>1. Below(d, q) \in d + 1 .. N
            BY <4>2, BelowIs
          <6> QED BY <1>1, <6>1
        <5> QED BY <2>1, <4>2, <5>1 DEF Descends
      <4> QED BY <4>1, <4>2
    <3>2. c = [d \in 1 .. N |-> c[d]]
      OBVIOUS
    <3> HIDE DEF c
    <3> QED BY <3>1, <3>2
  <2>3. g = B(g)
    <3> HIDE DEF B
    <3> HIDE DEF c
    <3> QED BY <2>2
  <2>4. MkdirIn(q) = g[1]
    BY <1>1 DEF MkdirIn, Below, Inodes
  <2> HIDE DEF g
  <2>5. Descends(g, q)
    BY <2>3 DEF Descends
  <2> QED BY <2>4, <2>5
<1> DEFINE Fits(r, d) == /\ r \in 1 .. N /\ node[r].type = "dir" /\ Into(r, q) = {}
                         /\ r = d \/ StringPrefix(node[r].path, q)
           S == { k \in 0 .. N : \A d \in N - k + 1 .. N : node[d].type = "dir" => Fits(b[d], d) }
<1>3. 0 \in S
  BY <1>1
<1>4. ASSUME NEW k \in 0 .. N - 1, k \in S
      PROVE  k + 1 \in S
  <2>1. \A d \in N - k + 1 .. N : node[d].type = "dir" => Fits(b[d], d)
    BY <1>4
  <2>2. ASSUME NEW d \in N - (k + 1) + 1 .. N, node[d].type = "dir"
        PROVE  Fits(b[d], d)
    <3>1. d \in 1 .. N /\ (d \in N - k + 1 .. N \/ d = N - k)
      <4>1. k \in Nat /\ k < N /\ d \in Int /\ N - (k + 1) + 1 <= d /\ d <= N
        BY <1>1
      <4>2. N \in Nat
        BY <1>1
      <4> HIDE DEF N
      <4>3. N - k <= d
        BY <4>1, <4>2
      <4> QED BY <4>1, <4>2, <4>3
    <3>2. CASE d \in N - k + 1 .. N
      BY <2>1, <2>2, <3>2
    <3>3. CASE d = N - k /\ Into(d, q) = {}
      <4>1. b[d] = d
        BY <1>2, <3>1, <3>3 DEF Descends
      <4> QED BY <2>2, <3>1, <3>3, <4>1
    <3>4. CASE d = N - k /\ Into(d, q) # {}
      <4> DEFINE e == Below(d, q)
      <4>1. b[d] = b[e]
        BY <1>2, <3>1, <3>4 DEF Descends
      <4>2. e \in d + 1 .. N /\ node[e].type = "dir" /\ StringPrefix(node[e].path, q)
        BY <3>1, <3>4, BelowIs
      <4>3. e \in N - k + 1 .. N
        BY <3>4, <4>2
      <4> HIDE DEF e
      <4>4. Fits(b[e], e)
        BY <2>1, <4>2, <4>3
      <4> QED BY <4>1, <4>2, <4>4
    <3> QED BY <3>1, <3>2, <3>3, <3>4
  <2>3. k + 1 \in 0 .. N
    BY <1>1
  <2> HIDE DEF Fits
  <2> QED BY <2>2, <2>3
<1> HIDE DEF S
<1>5. 0 .. N \subseteq S
  BY <1>1, <1>3, <1>4, AllNaturals
<1>6. N \in S /\ 1 \in N - N + 1 .. N
  BY <1>1, <1>5
<1>7. Fits(b[1], 1)
  <2> HIDE DEF Fits
  <2> QED BY <1>1, <1>6 DEF S
<1> QED BY <1>2, <1>7

(* A walk while nodes are added. *)

\* The frames stay where they are.
LEMMA FramesStay ==
  ASSUME NEW t, NEW u, NEW p \in 1 .. Len(t), NEW x, NEW s, Tree(t), Added(t, u, p, x), Frames(t, s)
  PROVE  Frames(u, s)
<1>1. /\ Len(u) = Len(t) + 1 /\ Len(t) \in Nat
      /\ \A n \in 1 .. Len(t) : Len(t[n].children) \in Nat /\ Len(u[n].children) \in Nat
                                /\ Len(u[n].children) >= Len(t[n].children)
  <2>1. ASSUME NEW n \in 1 .. Len(t)
        PROVE  /\ Len(t[n].children) \in Nat /\ Len(u[n].children) \in Nat
               /\ Len(u[n].children) >= Len(t[n].children)
    <3>1. Len(t[n].children) \in Nat
      BY NodeTypes DEF Tree
    <3>2. CASE n = p
      BY <3>1, <3>2 DEF Added
    <3>3. CASE n # p
      BY <3>1, <3>3 DEF Added
    <3> QED BY <3>1, <3>2, <3>3
  <2> QED BY <2>1 DEF Added, Tree
<1>2. s \in Seq([dir : Nat, next : Nat]) /\ Len(s) \in Nat
  BY DEF Frames
<1>3. ASSUME NEW i \in 1 .. Len(s)
      PROVE  /\ s[i].dir \in 1 .. Len(u) /\ u[s[i].dir].type = "dir"
             /\ s[i].next \in 1 .. Len(u[s[i].dir].children) + 1
  <2> DEFINE d == s[i].dir
             k == s[i].next
  <2>1. d \in 1 .. Len(t) /\ t[d].type = "dir" /\ k \in 1 .. Len(t[d].children) + 1
    BY <1>3 DEF Frames
  <2> HIDE DEF d, k
  <2>2. d \in 1 .. Len(u) /\ u[d].type = "dir"
    BY <1>1, <2>1 DEF Added
  <2>3. k \in 1 .. Len(u[d].children) + 1
    BY <1>1, <2>1
  <2> QED BY <2>2, <2>3 DEF d, k
<1>4. ASSUME NEW i \in 1 .. Len(s) - 1
      PROVE  /\ s[i].next <= Len(u[s[i].dir].children)
             /\ s[i + 1].dir = u[s[i].dir].children[s[i].next]
  <2> DEFINE d == s[i].dir
             k == s[i].next
  <2>1. i \in 1 .. Len(s)
    BY <1>2
  <2>2. d \in 1 .. Len(t) /\ k \in 1 .. Len(t[d].children) + 1 /\ k <= Len(t[d].children)
        /\ s[i + 1].dir = t[d].children[k]
    BY <1>4, <2>1 DEF Frames
  <2> HIDE DEF d, k
  <2>3. k \in 1 .. Len(t[d].children) /\ k <= Len(u[d].children)
    BY <1>1, <2>2
  <2>4. u[d].children[k] = t[d].children[k]
    BY <2>2, <2>3 DEF Added
  <2> QED BY <2>2, <2>3, <2>4 DEF d, k
<1> QED BY <1>2, <1>3, <1>4 DEF Frames

\* What the walk is done with stays done, and a new node is still to come wherever it is.
LEMMA ScanStays ==
  ASSUME NEW t, NEW u, NEW p \in 1 .. Len(t), NEW x, NEW s, NEW D, NEW seen \in 1 .. Len(t),
         Tree(t), Added(t, u, p, x), Frames(t, s), Scan(t, s, D, seen)
  PROVE  Scan(u, s, D, seen)
<1>1. Len(u) = Len(t) + 1 /\ Len(t) \in Nat /\ Len(s) \in Nat
  BY SMTT(30) DEF Added, Tree, Frames
<1>2. D \subseteq 2 .. Len(t) /\ D \subseteq 2 .. Len(u) /\ D \subseteq 1 .. Len(t)
  BY <1>1 DEF Scan
<1>3. ASSUME NEW i \in 1 .. Len(s), NEW k \in 1 .. Len(u[s[i].dir].children)
      PROVE  u[s[i].dir].children[k] \in D <=> k < s[i].next
  <2> DEFINE d == s[i].dir
             e == s[i].next
  <2>1. d \in 1 .. Len(t) /\ e \in 1 .. Len(t[d].children) + 1
    BY <1>3 DEF Frames
  <2>2. \A j \in 1 .. Len(t[d].children) : t[d].children[j] \in D <=> j < e
    BY <1>3 DEF Scan
  <2> HIDE DEF d, e
  <2>3. Len(t[d].children) \in Nat
    BY <2>1, NodeTypes DEF Tree
  <2>4. k \in 1 .. Len(u[d].children)
    BY <1>3 DEF d
  <2>5. CASE k \in 1 .. Len(t[d].children)
    <3>1. u[d].children[k] = t[d].children[k]
      BY <2>1, <2>5 DEF Added
    <3> QED BY <2>2, <2>5, <3>1 DEF d, e
  <2>6. CASE k \notin 1 .. Len(t[d].children)
    <3>1. d = p /\ k = Len(t[d].children) + 1
      <4>1. d # p => Len(u[d].children) = Len(t[d].children)
        BY <2>1 DEF Added
      <4>2. d = p
        BY <2>4, <2>6, <4>1
      <4>3. Len(u[d].children) = Len(t[d].children) + 1
        BY <4>2 DEF Added
      <4> QED BY <2>3, <2>4, <2>6, <4>2, <4>3, SMTT(30)
    <3>2. u[d].children[k] = Len(t) + 1
      BY <3>1 DEF Added
    <3>3. Len(t) + 1 \notin D
      BY <1>1, <1>2
    <3>4. ~(k < e)
      BY <2>1, <2>3, <3>1
    <3> QED BY <3>2, <3>3, <3>4 DEF d, e
  <2> QED BY <2>5, <2>6
<1>4. \A n \in 1 .. Len(t) : u[n].parent = t[n].parent
  BY DEF Added
<1>5. 2 .. seen \subseteq 1 .. Len(t)
  BY <1>1
<1>6. ASSUME NEW n \in D
      PROVE  u[n].parent \in D \/ u[n].parent = 1 \/ \E i \in 1 .. Len(s) : s[i].dir = u[n].parent
  <2>1. u[n].parent = t[n].parent
    BY <1>2, <1>4
  <2> QED BY <2>1 DEF Scan
<1>7. ASSUME NEW n \in 2 .. seen, u[n].parent \in D PROVE n \in D
  <2>1. u[n].parent = t[n].parent
    BY <1>4, <1>5
  <2> QED BY <1>7, <2>1 DEF Scan
<1>8. (\A i \in 1 .. Len(s) : s[i].dir \notin D) /\ (Len(s) = 0 => 2 .. seen \subseteq D)
  BY DEF Scan
<1> QED BY <1>2, <1>3, <1>6, <1>7, <1>8 DEF Scan

\* So does what was passed.
LEMMA PassedStays ==
  ASSUME NEW t, NEW u, NEW p, NEW x, NEW r, NEW D, NEW l, Added(t, u, p, x),
         D \subseteq 1 .. Len(t), Passed(t, r, D, l)
  PROVE  Passed(u, r, D, l)
<1>1. \A n \in 1 .. Len(t) : u[n].parent = t[n].parent /\ u[n].path = t[n].path
  BY DEF Added
<1>2. ASSUME NEW n \in 1 .. Len(t), ~EndsAt(t, r, n) PROVE ~EndsAt(u, r, n)
  BY <1>1, <1>2 DEF EndsAt
<1> QED BY <1>1, <1>2 DEF Passed

\* A node may be added at any time of a walk.
LEMMA WalkStays ==
  ASSUME NEW t, NEW u, NEW p \in 1 .. Len(t), NEW x, NEW r, NEW s, NEW f, NEW l,
         Tree(t), Added(t, u, p, x), Walking(t, r, s, f, l)
  PROVE  Walking(u, r, s, f, l)
<1>1. Len(u) = Len(t) + 1 /\ Len(t) \in Nat
  BY DEF Added, Tree
<1>2. r \in Requests /\ r.seen \in 1 .. Len(t) /\ r.seen \in 1 .. Len(u) /\ f \in 0 .. Len(u)
  BY <1>1 DEF Walking
<1>3. Frames(t, s) /\ Frames(u, s)
  BY FramesStay DEF Walking
<1>4. ASSUME f = 0, ~Known(r)
      PROVE  \E D \in SUBSET Nat : Scan(u, s, D, r.seen) /\ Passed(u, r, D, l)
  <2>1. PICK D \in SUBSET Nat : Scan(t, s, D, r.seen) /\ Passed(t, r, D, l)
    BY <1>4 DEF Walking
  <2>2. Scan(u, s, D, r.seen)
    BY <1>2, <1>3, <2>1, ScanStays
  <2>3. D \subseteq 1 .. Len(t)
    BY <1>1, <2>1 DEF Scan
  <2>4. Passed(u, r, D, l)
    BY <2>1, <2>3, PassedStays
  <2> QED BY <2>2, <2>4
<1> QED BY <1>2, <1>3, <1>4 DEF Walking

\* What was complete when it was answered stays so.
LEMMA CompleteStays ==
  ASSUME NEW t, NEW u, NEW p, NEW x, NEW rep, Len(t) \in Nat, Added(t, u, p, x), Complete(t, rep)
  PROVE  Complete(u, rep)
<1>1. \A n \in 1 .. Len(t) : u[n].parent = t[n].parent /\ u[n].path = t[n].path
  BY DEF Added
<1>2. Len(u) = Len(t) + 1
  BY DEF Added
<1>3. rep.req.seen \in 0 .. Len(u) /\ 1 .. rep.req.seen \subseteq 1 .. Len(t)
  BY <1>2 DEF Complete
<1> QED BY <1>1, <1>3 DEF Complete

(* The steps of a walk, on a stack s that becomes u. *)

Frame == [dir : Nat, next : Nat]

\* A frame for directory c is put on s.
Pushed(s, u, c) ==
  /\ u \in Seq(Frame) /\ Len(u) = Len(s) + 1 /\ u[Len(u)].dir = c /\ u[Len(u)].next = 1
  /\ \A i \in 1 .. Len(s) : u[i] = s[i]

\* Of s the first m frames are left, the last of them a child further.
MovedOn(s, u, m) ==
  /\ u \in Seq(Frame) /\ Len(u) = m /\ m \in 1 .. Len(s)
  /\ u[m].dir = s[m].dir /\ u[m].next = s[m].next + 1
  /\ \A i \in 1 .. m - 1 : u[i] = s[i]

\* What Front gives.
LEMMA FrontIs ==
  ASSUME NEW S, NEW s \in Seq(S), Len(s) >= 1
  PROVE  /\ Front(s) \in Seq(S) /\ Len(Front(s)) = Len(s) - 1
         /\ \A i \in 1 .. Len(s) - 1 : Front(s)[i] = s[i]
<1> DEFINE n == Len(s) - 1
<1>1. 1 \in Int /\ n \in Nat /\ n \in Int /\ \A i \in 1 .. n : s[i] \in S
  OBVIOUS
<1> HIDE DEF n
<1>2. /\ SubSeq(s, 1, n) \in Seq(S) /\ Len(SubSeq(s, 1, n)) = IF 1 <= n THEN n - 1 + 1 ELSE 0
      /\ \A i \in 1 .. n - 1 + 1 : SubSeq(s, 1, n)[i] = s[1 + i - 1]
  BY <1>1, SubSeqProperties
<1>3. n - 1 + 1 = n /\ \A i \in 1 .. n : 1 + i - 1 = i
  BY <1>1
<1>4. Len(SubSeq(s, 1, n)) = n /\ \A i \in 1 .. n : SubSeq(s, 1, n)[i] = s[i]
  BY <1>1, <1>2, <1>3
<1> QED BY <1>2, <1>4 DEF Front, n

\* What Advance does to the last frame.
LEMMA AdvanceMoves ==
  ASSUME NEW s \in Seq(Frame), Len(s) >= 1
  PROVE  MovedOn(s, Advance(s), Len(s))
<1>1. s[Len(s)] \in Frame /\ Len(s) \in 1 .. Len(s)
  OBVIOUS
<1>2. s[Len(s)].next + 1 \in Nat
  BY <1>1 DEF Frame
<1> DEFINE e == [s[Len(s)] EXCEPT !.next = s[Len(s)].next + 1]
<1>3. e \in Frame /\ e.dir = s[Len(s)].dir /\ e.next = s[Len(s)].next + 1
  BY <1>1, <1>2 DEF Frame
<1>4. Advance(s) = [s EXCEPT ![Len(s)] = e]
  BY DEF Advance
<1> HIDE DEF e
<1>5. Advance(s) \in Seq(Frame) /\ Len(Advance(s)) = Len(s) /\ Advance(s)[Len(s)] = e
      /\ \A i \in 1 .. Len(s) - 1 : Advance(s)[i] = s[i]
  BY <1>1, <1>3, <1>4
<1> QED BY <1>1, <1>3, <1>5 DEF MovedOn

\* The frame below the last one is the one that moves when a directory is left.
LEMMA AscendMoves ==
  ASSUME NEW s \in Seq(Frame), Len(s) >= 2
  PROVE  MovedOn(s, Advance(Front(s)), Len(s) - 1)
<1>1. Front(s) \in Seq(Frame) /\ Len(Front(s)) = Len(s) - 1 /\ Len(s) - 1 \in 1 .. Len(s)
      /\ \A i \in 1 .. Len(s) - 1 : Front(s)[i] = s[i]
  BY FrontIs
<1>2. MovedOn(Front(s), Advance(Front(s)), Len(s) - 1)
  BY <1>1, AdvanceMoves
<1> QED BY <1>1, <1>2 DEF MovedOn

\* The child frame m of stack s has come to.
NextChild(t, s, m) == t[s[m].dir].children[s[m].next]

\* The child a frame has come to is a child of no other frame's directory, and none itself.
LEMMA ChildIs ==
  ASSUME NEW t, NEW s, Tree(t), Frames(t, s), NEW m \in 1 .. Len(s), s[m].next <= Len(t[s[m].dir].children)
  PROVE  /\ NextChild(t, s, m) \in 2 .. Len(t) /\ t[NextChild(t, s, m)].parent = s[m].dir
         /\ s[m].dir < NextChild(t, s, m)
         /\ s[m].dir \in 1 .. Len(t) /\ s[m].next \in 1 .. Len(t[s[m].dir].children)
         /\ \A i \in 1 .. Len(s) : \A k \in 1 .. Len(t[s[i].dir].children) :
              t[s[i].dir].children[k] = NextChild(t, s, m) => i = m /\ k = s[m].next
<1> DEFINE d == s[m].dir
           c == t[d].children[s[m].next]
<1>1. /\ Len(s) \in Nat /\ d \in 1 .. Len(t) /\ Len(t) \in Nat
      /\ s[m].next \in 1 .. Len(t[d].children) + 1
  BY DEF Frames, Tree
<1>2. Len(t[d].children) \in Nat
  BY <1>1, NodeTypes DEF Tree
<1>3. s[m].next \in 1 .. Len(t[d].children)
  BY <1>1, <1>2
<1>4. c \in d + 1 .. Len(t) /\ t[c].parent = d
  BY <1>1, <1>3 DEF Tree
<1>5. ASSUME NEW i \in 1 .. Len(s), NEW k \in 1 .. Len(t[s[i].dir].children),
             t[s[i].dir].children[k] = c
      PROVE  i = m /\ k = s[m].next
  <2> DEFINE e == s[i].dir
  <2>1. e \in 1 .. Len(t) /\ k \in 1 .. Len(t[e].children) /\ t[e].children[k] = c
    BY <1>5 DEF Frames
  <2>2. (i < m => e < d) /\ (m < i => d < e)
    BY DEF Frames
  <2> HIDE DEF e
  <2>3. t[t[e].children[k]].parent = e
    BY <2>1 DEF Tree
  <2>4. e = d
    BY <1>4, <2>1, <2>3
  <2>5. i = m
    BY <1>1, <2>1, <2>2, <2>4
  <2> HIDE DEF d, c
  <2> DEFINE f == s[m].next
  <2>6. /\ k \in 1 .. Len(t[d].children) /\ t[d].children[k] = t[d].children[f]
        /\ f \in 1 .. Len(t[d].children)
    BY <1>3, <2>1, <2>4 DEF c
  <2> HIDE DEF f
  <2>7. k = f
    BY <1>1, <2>6 DEF Tree
  <2> QED BY <2>5, <2>7 DEF f
<1>6. c \in 2 .. Len(t) /\ d < c
  <2> HIDE DEF c, d
  <2> QED BY <1>1, <1>4
<1> QED BY <1>1, <1>3, <1>4, <1>5, <1>6 DEF NextChild

\* Into a subdirectory.
LEMMA PushedFrames ==
  ASSUME NEW t, NEW s, NEW u, Tree(t), Frames(t, s), Len(s) >= 1,
         Pushed(s, u, NextChild(t, s, Len(s))), t[NextChild(t, s, Len(s))].type = "dir",
         s[Len(s)].next <= Len(t[s[Len(s)].dir].children)
  PROVE  Frames(t, u)
<1> DEFINE m == Len(s)
           c == NextChild(t, s, m)
<1>1. m \in Nat /\ m \in 1 .. Len(s) /\ Len(u) = m + 1
  BY DEF Frames, Pushed
<1>2. /\ c \in 2 .. Len(t) /\ t[c].parent = s[m].dir /\ s[m].dir < c
      /\ s[m].dir \in 1 .. Len(t)
  <2> HIDE DEF m
  <2>1. s[m].next <= Len(t[s[m].dir].children)
    BY DEF m
  <2> QED BY <1>1, <2>1, ChildIs
<1>3. Len(t) \in Nat /\ c \in 1 .. Len(t) /\ Len(t[c].children) \in Nat
  <2>1. Len(t) \in Nat /\ t \in Seq(Inode)
    BY DEF Tree
  <2> HIDE DEF c
  <2>2. c \in 1 .. Len(t)
    BY <1>2, <2>1
  <2> QED BY <2>1, <2>2, NodeTypes
<1>4. c = t[s[m].dir].children[s[m].next] /\ t[c].type = "dir"
  BY DEF NextChild
<1>5. /\ u[m + 1].dir = c /\ u[m + 1].next = 1
      /\ \A i \in 1 .. m : u[i] = s[i] /\ s[i].dir \in 1 .. Len(t) /\ t[s[i].dir].type = "dir"
                          /\ s[i].next \in 1 .. Len(t[s[i].dir].children) + 1
      /\ u \in Seq([dir : Nat, next : Nat])
  BY <1>1 DEF Pushed, Frames, Frame
<1> HIDE DEF c, m
<1>6. \A i \in 1 .. m + 1 : i \in 1 .. m \/ i = m + 1
  BY <1>1
<1>7. ASSUME NEW i \in 1 .. m + 1
      PROVE  /\ u[i].dir \in 1 .. Len(t) /\ t[u[i].dir].type = "dir"
             /\ u[i].next \in 1 .. Len(t[u[i].dir].children) + 1
  <2>1. CASE i = m + 1
    <3>1. 1 \in 1 .. Len(t[c].children) + 1
      BY <1>3
    <3> QED BY <1>3, <1>4, <1>5, <2>1, <3>1
  <2>2. CASE i \in 1 .. m
    BY <1>5, <2>2
  <2> QED BY <1>6, <2>1, <2>2
<1>8. u[1].dir = 1
  <2>1. 1 \in 1 .. m
    BY <1>1 DEF m
  <2> QED BY <1>1, <1>5, <2>1 DEF Frames
<1>9. ASSUME NEW i \in 1 .. m
      PROVE  /\ u[i].next <= Len(t[u[i].dir].children)
             /\ u[i + 1].dir = t[u[i].dir].children[u[i].next]
  <2>1. CASE i = m
    BY <1>1, <1>4, <1>5, <2>1 DEF m
  <2>2. CASE i # m
    <3>1. i \in 1 .. m - 1 /\ i \in 1 .. m /\ i + 1 \in 1 .. m
      BY <1>1, <2>2
    <3>2. u[i] = s[i] /\ u[i + 1] = s[i + 1]
      BY <1>5, <3>1
    <3> QED BY <3>1, <3>2 DEF Frames, m
  <2> QED BY <2>1, <2>2
<1>10. ASSUME NEW i \in 1 .. m + 1, NEW j \in 1 .. m + 1, i < j
      PROVE  u[i].dir < u[j].dir
  <2>1. i \in 1 .. m
    BY <1>1, <1>10
  <2>2. CASE j = m + 1
    <3>1. i = m \/ s[i].dir < s[m].dir
      <4>1. i = m \/ i < m
        BY <1>1, <2>1
      <4> QED BY <1>1, <2>1, <4>1 DEF Frames, m
    <3>2. u[i].dir = s[i].dir /\ u[j].dir = c
      BY <1>5, <2>1, <2>2
    <3>3. s[i].dir \in Nat /\ s[m].dir \in Nat /\ c \in Nat
      <4>1. s[i].dir \in 1 .. Len(t) /\ s[m].dir \in 1 .. Len(t)
        <5>1. m \in 1 .. m
          BY <1>1
        <5> QED BY <1>5, <2>1, <5>1
      <4>2. c \in Nat
        BY <1>3
      <4> QED BY <4>1, <4>2
    <3> QED BY <1>2, <3>1, <3>2, <3>3
  <2>3. CASE j \in 1 .. m
    <3>1. s[i].dir < s[j].dir
      BY <1>10, <2>1, <2>3 DEF Frames, m
    <3> QED BY <1>5, <2>1, <2>3, <3>1
  <2> QED BY <1>6, <2>2, <2>3
<1>11. \A i \in 1 .. Len(u) - 1 : i \in 1 .. m
  BY <1>1
<1> QED BY <1>1, <1>5, <1>7, <1>8, <1>9, <1>10, <1>11 DEF Frames

\* On from a child, or back out of a directory.
LEMMA MovedFrames ==
  ASSUME NEW t, NEW s, NEW u, NEW m, Tree(t), Frames(t, s), MovedOn(s, u, m),
         s[m].next <= Len(t[s[m].dir].children)
  PROVE  Frames(t, u)
<1>1. m \in Nat /\ m \in 1 .. Len(s) /\ Len(s) \in Nat /\ Len(u) = m /\ m >= 1
  BY DEF Frames, MovedOn
<1>2. /\ \A i \in 1 .. m : i \in 1 .. Len(s) /\ u[i].dir = s[i].dir
      /\ \A i \in 1 .. m - 1 : i \in 1 .. Len(s) - 1 /\ i \in 1 .. Len(s) /\ u[i] = s[i]
      /\ u[m].next = s[m].next + 1
  <2>1. ASSUME NEW i \in 1 .. m PROVE i \in 1 .. Len(s) /\ u[i].dir = s[i].dir
    <3>1. CASE i = m
      BY <1>1, <3>1 DEF MovedOn
    <3>2. CASE i # m
      BY <1>1, <3>2 DEF MovedOn
    <3> QED BY <3>1, <3>2
  <2> QED BY <1>1, <2>1 DEF MovedOn
<1>3. ASSUME NEW i \in 1 .. m
      PROVE  /\ u[i].dir \in 1 .. Len(t) /\ t[u[i].dir].type = "dir"
             /\ u[i].next \in 1 .. Len(t[u[i].dir].children) + 1
  <2>1. /\ s[i].dir \in 1 .. Len(t) /\ t[s[i].dir].type = "dir"
        /\ s[i].next \in 1 .. Len(t[s[i].dir].children) + 1
    BY <1>2 DEF Frames
  <2>2. Len(t[s[i].dir].children) \in Nat
    BY <2>1, NodeTypes DEF Tree
  <2>3. CASE i = m
    <3>1. s[i].next + 1 \in 1 .. Len(t[s[i].dir].children) + 1
      BY <2>1, <2>2, <2>3
    <3> QED BY <1>2, <2>1, <2>3, <3>1
  <2>4. CASE i # m
    <3>1. i \in 1 .. m - 1
      BY <1>1, <2>4
    <3>2. u[i] = s[i]
      BY <1>2, <3>1
    <3> QED BY <2>1, <3>2
  <2> QED BY <2>3, <2>4
<1>4. u[1].dir = 1
  BY <1>1, <1>2, SMTT(30) DEF Frames
<1>5. ASSUME NEW i \in 1 .. m - 1
      PROVE  /\ u[i].next <= Len(t[u[i].dir].children)
             /\ u[i + 1].dir = t[u[i].dir].children[u[i].next]
  <2>1. i + 1 \in 1 .. m
    BY <1>1
  <2> QED BY <1>2, <2>1 DEF Frames
<1>6. ASSUME NEW i \in 1 .. m, NEW j \in 1 .. m, i < j PROVE u[i].dir < u[j].dir
  BY <1>2, <1>6 DEF Frames
<1>7. u \in Seq([dir : Nat, next : Nat])
  BY DEF MovedOn, Frame
<1> QED BY <1>1, <1>3, <1>4, <1>5, <1>6, <1>7 DEF Frames

\* The frames a move leaves are those there were.
LEMMA MovedIs ==
  ASSUME NEW s, NEW u, NEW m, MovedOn(s, u, m), Len(s) \in Nat
  PROVE  /\ m \in Nat /\ m >= 1 /\ Len(u) = m /\ u[m].next = s[m].next + 1
         /\ \A i \in 1 .. m : i \in 1 .. Len(s) /\ u[i].dir = s[i].dir
         /\ \A i \in 1 .. m : i # m => u[i].next = s[i].next
<1>1. m \in Nat /\ m >= 1 /\ m \in 1 .. Len(s) /\ Len(u) = m /\ u[m].next = s[m].next + 1
  BY DEF MovedOn
<1>2. ASSUME NEW i \in 1 .. m PROVE i \in 1 .. Len(s) /\ u[i].dir = s[i].dir /\ (i # m => u[i].next = s[i].next)
  <2>1. i = m \/ i \in 1 .. m - 1
    BY <1>1
  <2>2. i \in 1 .. Len(s)
    BY <1>1
  <2> QED BY <2>1, <2>2 DEF MovedOn
<1> QED BY <1>1, <1>2

\* No frame stands at the child another one has come to, unless it came from there.
LEMMA ChildIsNew ==
  ASSUME NEW t, NEW s, Tree(t), Frames(t, s), NEW m \in 1 .. Len(s), s[m].next <= Len(t[s[m].dir].children)
  PROVE  \A i \in 1 .. m : s[i].dir # NextChild(t, s, m)
<1> DEFINE c == NextChild(t, s, m)
<1>1. c \in 2 .. Len(t) /\ s[m].dir < c /\ s[m].dir \in 1 .. Len(t)
  BY ChildIs
<1>2. Len(t) \in Nat /\ Len(s) \in Nat
  BY SMTT(30) DEF Tree, Frames
<1> HIDE DEF c
<1>3. ASSUME NEW i \in 1 .. m PROVE s[i].dir < c
  <2>1. i \in 1 .. Len(s) /\ (i = m \/ i < m)
    BY <1>2
  <2>2. s[i].dir = s[m].dir \/ s[i].dir < s[m].dir
    BY <2>1 DEF Frames
  <2>3. s[i].dir \in 1 .. Len(t)
    BY <2>1 DEF Frames
  <2> QED BY <1>1, <1>2, <2>2, <2>3
<1>4. \A i \in 1 .. m : s[i].dir \in Int
  <2>1. ASSUME NEW i \in 1 .. m PROVE s[i].dir \in Int
    <3>1. i \in 1 .. Len(s)
      BY <1>2
    <3>2. s[i].dir \in 1 .. Len(t)
      BY <3>1 DEF Frames
    <3> QED BY <1>2, <3>2
  <2> QED BY <2>1
<1>5. \A i \in 1 .. m : s[i].dir # c
  BY <1>3, <1>4
<1> QED BY <1>5 DEF c

\* Nothing below a directory is done when the walk goes into it.
LEMMA PushedScan ==
  ASSUME NEW t, NEW s, NEW u, NEW D, NEW seen, Tree(t), Frames(t, s), Scan(t, s, D, seen),
         Len(s) >= 1, Pushed(s, u, NextChild(t, s, Len(s))),
         s[Len(s)].next <= Len(t[s[Len(s)].dir].children)
  PROVE  Scan(t, u, D, seen)
<1> DEFINE m == Len(s)
           c == NextChild(t, s, m)
<1>1. m \in Nat /\ m \in 1 .. Len(s) /\ Len(u) = m + 1 /\ Len(t) \in Nat
  BY DEF Frames, Pushed, Tree
<1>2. c \in 2 .. Len(t) /\ s[m].next \in 1 .. Len(t[s[m].dir].children) /\ s[m].dir \in 1 .. Len(t)
  BY <1>1, ChildIs
<1>3. \A i \in 1 .. m : s[i].dir # c
  BY <1>1, ChildIsNew
<1>4. c = t[s[m].dir].children[s[m].next]
  BY DEF NextChild
<1>5. u[m + 1].dir = c /\ u[m + 1].next = 1 /\ \A i \in 1 .. m : u[i] = s[i]
  BY <1>1 DEF Pushed
<1>6. Len(s) = m
  OBVIOUS
<1> HIDE DEF c, m
<1>7. c \notin D
  <2>1. c \in D <=> s[m].next < s[m].next
    BY <1>1, <1>2, <1>4 DEF Scan
  <2>2. s[m].next \in Nat
    BY <1>1 DEF Frames
  <2> QED BY <2>1, <2>2
<1>8. ASSUME NEW k \in 1 .. Len(t[c].children) PROVE t[c].children[k] \notin D /\ ~(k < 1)
  <2>1. t[t[c].children[k]].parent = c
    BY <1>1, <1>2 DEF Tree
  <2>2. c # 1
    BY <1>1, <1>2
  <2> DEFINE e == t[c].children[k]
  <2>3. t[e].parent = c
    BY <2>1
  <2> HIDE DEF e
  <2>4. e \notin D
    BY <1>3, <1>6, <1>7, <2>2, <2>3 DEF Scan
  <2> QED BY <2>4 DEF e
<1>9. \A i \in 1 .. m + 1 : i \in 1 .. m \/ i = m + 1
  BY <1>1
<1>10. ASSUME NEW i \in 1 .. m + 1
       PROVE  /\ u[i].dir \notin D
              /\ \A k \in 1 .. Len(t[u[i].dir].children) : t[u[i].dir].children[k] \in D <=> k < u[i].next
  <2>1. CASE i = m + 1
    BY <1>5, <1>7, <1>8, <2>1
  <2>2. CASE i \in 1 .. m
    BY <1>5, <1>6, <2>2 DEF Scan
  <2> QED BY <1>9, <2>1, <2>2
<1>11. ASSUME NEW n \in D
       PROVE  t[n].parent \in D \/ t[n].parent = 1 \/ \E i \in 1 .. Len(u) : u[i].dir = t[n].parent
  <2>1. \A i \in 1 .. Len(s) : i \in 1 .. Len(u) /\ u[i].dir = s[i].dir
    BY <1>1, <1>5, <1>6
  <2> QED BY <2>1 DEF Scan
<1>12. Len(u) # 0
  BY <1>1
<1> QED BY <1>1, <1>10, <1>11, <1>12 DEF Scan

\* A child is done when all that was below it is.
LEMMA MovedScan ==
  ASSUME NEW t, NEW s, NEW u, NEW m, NEW D, NEW seen, Tree(t), Frames(t, s), Scan(t, s, D, seen),
         MovedOn(s, u, m), s[m].next <= Len(t[s[m].dir].children),
         \A i \in 1 .. Len(s) : i <= m \/ s[i].dir = NextChild(t, s, m),
         \A n \in 2 .. seen : t[n].parent = NextChild(t, s, m) => n \in D
  PROVE  Scan(t, u, D \cup {NextChild(t, s, m)}, seen)
<1> DEFINE c == NextChild(t, s, m)
<1>1. Len(s) \in Nat /\ m \in 1 .. Len(s) /\ Len(t) \in Nat
  <2>1. Len(s) \in Nat
    BY DEF Frames
  <2>2. m \in 1 .. Len(s)
    BY DEF MovedOn
  <2>3. Len(t) \in Nat
    BY DEF Tree
  <2> QED BY <2>1, <2>2, <2>3
<1>2. /\ c \in 2 .. Len(t) /\ t[c].parent = s[m].dir /\ s[m].next \in 1 .. Len(t[s[m].dir].children)
      /\ \A i \in 1 .. Len(s) : \A k \in 1 .. Len(t[s[i].dir].children) :
           t[s[i].dir].children[k] = c => i = m /\ k = s[m].next
  BY <1>1, ChildIs
<1>3. \A i \in 1 .. m : s[i].dir # c
  BY <1>1, ChildIsNew
<1>4. c = t[s[m].dir].children[s[m].next]
  BY DEF NextChild
<1>5. /\ m \in Nat /\ m >= 1 /\ Len(u) = m /\ u[m].next = s[m].next + 1
      /\ \A i \in 1 .. m : i \in 1 .. Len(s) /\ u[i].dir = s[i].dir
      /\ \A i \in 1 .. m : i # m => u[i].next = s[i].next
  BY <1>1, MovedIs
<1>6. /\ \A i \in 1 .. Len(s) : i <= m \/ s[i].dir = c
      /\ \A n \in 2 .. seen : t[n].parent = c => n \in D
  OBVIOUS
<1> HIDE DEF c
<1>7. ASSUME NEW i \in 1 .. m, NEW k \in 1 .. Len(t[u[i].dir].children)
      PROVE  t[u[i].dir].children[k] \in D \cup {c} <=> k < u[i].next
  <2> DEFINE d == s[i].dir
  <2>1. u[i].dir = d /\ k \in 1 .. Len(t[d].children) /\ i \in 1 .. Len(s)
    BY <1>5
  <2>2. t[d].children[k] \in D <=> k < s[i].next
    BY <2>1 DEF Scan
  <2>3. t[d].children[k] = c <=> i = m /\ k = s[m].next
    BY <1>2, <1>4, <2>1
  <2>4. s[i].next \in Nat /\ k \in Nat
    BY <2>1 DEF Frames
  <2> HIDE DEF d
  <2>5. CASE i = m
    <3>1. u[i].next = s[i].next + 1
      BY <1>5, <2>5
    <3>2. k < u[i].next <=> k < s[i].next \/ k = s[i].next
      BY <2>4, <3>1
    <3> QED BY <2>1, <2>2, <2>3, <2>5, <3>2
  <2>6. CASE i # m
    BY <1>5, <2>1, <2>2, <2>3, <2>6
  <2> QED BY <2>5, <2>6
<1>8. ASSUME NEW i \in 1 .. m PROVE u[i].dir \notin D \cup {c}
  <2>1. u[i].dir = s[i].dir /\ i \in 1 .. Len(s)
    BY <1>5
  <2> QED BY <1>3, <2>1 DEF Scan
<1>9. ASSUME NEW n \in D \cup {c}
      PROVE  t[n].parent \in D \cup {c} \/ t[n].parent = 1 \/ \E i \in 1 .. Len(u) : u[i].dir = t[n].parent
  <2>1. CASE n = c
    <3>1. m \in 1 .. Len(u) /\ u[m].dir = t[n].parent
      BY <1>2, <1>5, <2>1
    <3> QED BY <3>1
  <2>2. CASE n \in D
    <3>1. CASE \E i \in 1 .. Len(s) : s[i].dir = t[n].parent
      <4>1. PICK i \in 1 .. Len(s) : s[i].dir = t[n].parent
        BY <3>1
      <4>2. i \in 1 .. m \/ s[i].dir = c
        BY <1>1, <1>6
      <4> QED BY <1>5, <4>1, <4>2
    <3> QED BY <2>2, <3>1 DEF Scan
  <2> QED BY <2>1, <2>2
<1>10. ASSUME NEW n \in 2 .. seen, t[n].parent \in D \cup {c} PROVE n \in D \cup {c}
  BY <1>6, <1>10 DEF Scan
<1>11. D \cup {c} \subseteq 2 .. Len(t)
  BY <1>2 DEF Scan
<1>12. Len(u) # 0
  BY <1>5
<1>13. Scan(t, u, D \cup {c}, seen)
  BY <1>5, <1>7, <1>8, <1>9, <1>10, <1>11, <1>12 DEF Scan
<1> QED BY <1>13 DEF c

\* At the end of the first directory all is done that was there when the request came.
LEMMA EndScan ==
  ASSUME NEW t, NEW s, NEW D, NEW seen \in 1 .. Len(t), Tree(t), Frames(t, s), Scan(t, s, D, seen),
         Len(s) = 1, s[1].next > Len(t[1].children)
  PROVE  Scan(t, <<>>, D, seen)
<1>1. Len(t) \in Nat /\ seen \in Nat /\ s[1].dir = 1 /\ s[1].next \in 1 .. Len(t[1].children) + 1
  BY DEF Tree, Frames
<1>2. ASSUME NEW n \in 2 .. seen, n \notin D PROVE FALSE
  <2> DEFINE T == { j \in 2 .. seen : j \notin D }
  <2>1. T \subseteq Nat /\ n \in T
    BY <1>2
  <2>2. PICK j \in T : \A i \in T : j <= i
    BY <2>1, LeastNatural, Zenon
  <2>3. j \in 2 .. seen /\ j \in 2 .. Len(t) /\ j \notin D
    BY <1>1
  <2>4. t[j].parent \in 1 .. j - 1 /\ \E k \in 1 .. Len(t[t[j].parent].children) : t[t[j].parent].children[k] = j
    BY <2>3 DEF Tree
  <2>5. CASE t[j].parent = 1
    <3>1. PICK k \in 1 .. Len(t[1].children) : t[1].children[k] = j
      BY <2>4, <2>5
    <3>2. k < s[1].next
      <4>1. Len(t[1].children) \in Nat
        <5>1. 1 \in 1 .. Len(t)
          BY <1>1
        <5> QED BY <5>1, NodeTypes DEF Tree
      <4> QED BY <1>1, <4>1
    <3>3. j \in D
      BY <1>1, <3>1, <3>2 DEF Scan
    <3> QED BY <2>3, <3>3
  <2>6. CASE t[j].parent # 1
    <3>1. t[j].parent \in 2 .. seen /\ ~(j <= t[j].parent)
      <4> DEFINE w == t[j].parent
      <4>1. w \in 1 .. j - 1 /\ w # 1 /\ j \in 2 .. seen /\ seen \in Nat
        BY <1>1, <2>3, <2>4, <2>6
      <4> HIDE DEF w
      <4>2. w \in 2 .. seen /\ ~(j <= w)
        BY <4>1
      <4> QED BY <4>2 DEF w
    <3>2. t[j].parent \in D
      BY <2>2, <3>1
    <3> QED BY <2>3, <3>2 DEF Scan
  <2> QED BY <2>5, <2>6
<1>3. ASSUME NEW n \in D PROVE t[n].parent \in D \/ t[n].parent = 1
  <2>1. \A i \in 1 .. Len(s) : s[i].dir = 1
    BY <1>1
  <2> QED BY <2>1 DEF Scan
<1> QED BY <1>2, <1>3 DEF Scan

(* The actions of the loop. *)

\* The callbacks of a request end its walk where EndsAt says.
LEMMA MatchesIs ==
  ASSUME req \in Requests, NEW n \in Nat
  PROVE  Matches(n) <=> EndsAt(node, req, n)
<1>1. req.op \in Ops
  BY DEF Requests
<1>2. CASE req.op \in {"open", "opendir", "read", "getattr"}
  BY <1>2 DEF Matches, EndsAt
<1>3. CASE req.op = "lookup"
  BY <1>3 DEF Matches, EndsAt, NameOf
<1>4. CASE req.op = "readdir"
  BY <1>4 DEF Matches, EndsAt
<1> QED BY <1>1, <1>2, <1>3, <1>4 DEF Ops

\* What a listing l has become, l2, when node c was looked at.
Listing(t, r, l, c, l2) ==
  IF r.op = "readdir" /\ t[c].parent = r.ino THEN l2 = Append(l, c) ELSE l2 = l

\* With c the nodes in D are passed, and l2 has none of them twice.
PassesOn(t, r, D, c, l, l2) ==
  /\ Passed(t, r, D \cup {c}, l2) /\ l2 \in Seq(Nat)
  /\ \A j, k \in 1 .. Len(l2) : l2[j] = l2[k] => j = k

\* A node that does not end the request can be added to what was passed.
LEMMA PassedOn ==
  ASSUME NEW t, NEW r, NEW D, NEW c \in Nat, NEW l \in Seq(Nat), NEW l2, Passed(t, r, D, l),
         ~EndsAt(t, r, c), c \notin D, Listing(t, r, l, c, l2),
         \A j, k \in 1 .. Len(l) : l[j] = l[k] => j = k
  PROVE  PassesOn(t, r, D, c, l, l2)
<1> SUFFICES /\ Passed(t, r, D \cup {c}, l2) /\ l2 \in Seq(Nat)
             /\ \A j, k \in 1 .. Len(l2) : l2[j] = l2[k] => j = k
  BY DEF PassesOn
<1>1. CASE ~(r.op = "readdir" /\ t[c].parent = r.ino)
  <2>1. l2 = l
    BY <1>1 DEF Listing
  <2>2. ASSUME NEW n \in D \cup {c}
        PROVE ~EndsAt(t, r, n) /\ (r.op = "readdir" /\ t[n].parent = r.ino => \E k \in 1 .. Len(l) : l[k] = n)
    BY <1>1 DEF Passed
  <2>3. \A k \in 1 .. Len(l) : l[k] \in D \cup {c}
    BY DEF Passed
  <2> QED BY <2>1, <2>2, <2>3 DEF Passed
<1>2. CASE r.op = "readdir" /\ t[c].parent = r.ino
  <2>1. /\ l2 \in Seq(Nat) /\ Len(l2) = Len(l) + 1 /\ l2[Len(l) + 1] = c /\ Len(l) \in Nat
        /\ \A k \in 1 .. Len(l) : l2[k] = l[k]
    <3>1. l2 = Append(l, c)
      BY <1>2 DEF Listing
    <3> QED BY <3>1, AppendProperties
  <2>2. \A k \in 1 .. Len(l2) : k \in 1 .. Len(l) \/ k = Len(l) + 1
    BY <2>1
  <2>3. \A k \in 1 .. Len(l) : l[k] \in D /\ k \in 1 .. Len(l2)
    BY <2>1 DEF Passed
  <2>4. ASSUME NEW n \in D \cup {c}
        PROVE  ~EndsAt(t, r, n) /\ (t[n].parent = r.ino => \E k \in 1 .. Len(l2) : l2[k] = n)
    <3>1. CASE n = c
      <4>1. Len(l) + 1 \in 1 .. Len(l2)
        BY <2>1
      <4> QED BY <2>1, <3>1, <4>1
    <3>2. CASE n \in D
      <4>1. ~EndsAt(t, r, n) /\ (t[n].parent = r.ino => \E k \in 1 .. Len(l) : l[k] = n)
        BY <1>2, <3>2 DEF Passed
      <4>2. \A k \in 1 .. Len(l) : k \in 1 .. Len(l2) /\ l2[k] = l[k]
        BY <2>1, <2>3
      <4> QED BY <4>1, <4>2
    <3> QED BY <3>1, <3>2
  <2>5. \A k \in 1 .. Len(l2) : l2[k] \in D \cup {c}
    BY <2>1, <2>2, <2>3
  <2>6. \A j, k \in 1 .. Len(l2) : l2[j] = l2[k] => j = k
    BY <2>1, <2>2, <2>3
  <2> QED BY <2>1, <2>4, <2>5, <2>6 DEF Passed
<1> QED BY <1>1, <1>2

\* What is known of a walk that stands on a stack of frames.
LEMMA StackIs ==
  ASSUME Tree(node), Walking(node, req, stack, found, listed), stack # <<>>
  PROVE  /\ stack \in Seq(Frame) /\ Len(stack) \in Nat /\ Len(stack) >= 1 /\ Frames(node, stack)
         /\ Top = stack[Len(stack)] /\ Child = NextChild(node, stack, Len(stack))
         /\ Top.dir \in 1 .. Len(node) /\ node[Top.dir].type = "dir" /\ Top.next \in Nat
         /\ Len(node[Top.dir].children) \in Nat
         /\ node \in Seq(Inode) /\ Len(node) \in Nat
<1>1. stack \in Seq(Frame) /\ Frames(node, stack)
  BY DEF Walking, Frames, Frame
<1>2. Len(stack) \in Nat /\ Len(stack) >= 1 /\ Top = stack[Len(stack)]
  BY <1>1, EmptySeq DEF Top, Last
<1>3. Len(stack) \in 1 .. Len(stack)
  BY <1>2
<1>4. Top.dir \in 1 .. Len(node) /\ node[Top.dir].type = "dir" /\ Top.next \in Nat
  <2>1. stack[Len(stack)] \in Frame
    BY <1>1, <1>3
  <2> QED BY <1>1, <1>2, <1>3, <2>1 DEF Frames, Frame
<1>5. node \in Seq(Inode) /\ Len(node) \in Nat
  BY DEF Tree
<1>6. Len(node[Top.dir].children) \in Nat
  BY <1>4, <1>5, NodeTypes
<1> QED BY <1>1, <1>2, <1>4, <1>5, <1>6 DEF Child, NextChild

\* Into a subdirectory nothing is passed.
LEMMA DescendWalks ==
  ASSUME Tree(node), Walking(node, req, stack, found, listed), Descend
  PROVE  Walking(node, req, stack', found, listed)
<1> DEFINE c == NextChild(node, stack, Len(stack))
<1>1. /\ stack # <<>> /\ found = 0 /\ MoreChildren /\ IsDir(Child)
      /\ stack' = Append(stack, [dir |-> Child, next |-> 1])
  BY DEF Descend
<1>2. /\ stack \in Seq(Frame) /\ Len(stack) \in Nat /\ Len(stack) >= 1 /\ Frames(node, stack)
      /\ Top = stack[Len(stack)] /\ Child = c
  BY <1>1, StackIs
<1>3. stack[Len(stack)].next <= Len(node[stack[Len(stack)].dir].children) /\ node[c].type = "dir"
  BY <1>1, <1>2 DEF MoreChildren, IsDir
<1>4. c \in 2 .. Len(node) /\ Len(node) \in Nat
  <2>1. Len(stack) \in 1 .. Len(stack)
    BY <1>2
  <2>2. Len(node) \in Nat
    BY <1>1, StackIs
  <2> QED BY <1>2, <1>3, <2>1, <2>2, ChildIs
<1> HIDE DEF c
<1>5. Pushed(stack, stack', c)
  <2> DEFINE f == [dir |-> c, next |-> 1]
  <2>1. f \in Frame /\ f.dir = c /\ f.next = 1 /\ stack' = Append(stack, f)
    BY <1>1, <1>2, <1>4 DEF Frame
  <2> HIDE DEF f
  <2>2. /\ stack' \in Seq(Frame) /\ Len(stack') = Len(stack) + 1 /\ stack'[Len(stack) + 1] = f
        /\ \A i \in 1 .. Len(stack) : stack'[i] = stack[i]
    BY <1>2, <2>1, AppendProperties
  <2> QED BY <2>1, <2>2 DEF Pushed
<1>6. Frames(node, stack')
  BY <1>2, <1>3, <1>5, PushedFrames DEF c
<1>7. ASSUME ~Known(req)
      PROVE  \E D \in SUBSET Nat : Scan(node, stack', D, req.seen) /\ Passed(node, req, D, listed)
  <2>1. PICK D \in SUBSET Nat : Scan(node, stack, D, req.seen) /\ Passed(node, req, D, listed)
    BY <1>1, <1>7 DEF Walking
  <2>2. Scan(node, stack', D, req.seen)
    BY <1>2, <1>3, <1>5, <2>1, PushedScan DEF c
  <2> QED BY <2>1, <2>2
<1> QED BY <1>6, <1>7 DEF Walking

\* After a node was looked at: the walk ends there or it was passed.
LEMMA VisitWalks ==
  ASSUME Tree(node), Walking(node, req, stack, found, listed), NEW m \in 1 .. Len(stack), found = 0,
         stack[m].next <= Len(node[stack[m].dir].children),
         MovedOn(stack, stack', m), Visit(NextChild(node, stack, m)),
         \A i \in 1 .. Len(stack) : i <= m \/ stack[i].dir = NextChild(node, stack, m),
         \A D \in SUBSET Nat : Scan(node, stack, D, req.seen) =>
             /\ NextChild(node, stack, m) \notin D
             /\ \A n \in 2 .. req.seen : node[n].parent = NextChild(node, stack, m) => n \in D
  PROVE  Walking(node, req, stack', found', listed')
<1> DEFINE c == NextChild(node, stack, m)
<1>1. Frames(node, stack) /\ req \in Requests /\ Len(node) \in Nat
  BY DEF Walking, Tree
<1>2. c \in 2 .. Len(node)
  BY <1>1, ChildIs
<1>3. Frames(node, stack')
  BY <1>1, MovedFrames
<1>4. /\ listed \in Seq(Nat) /\ \A j, k \in 1 .. Len(listed) : listed[j] = listed[k] => j = k
      /\ (req.op # "readdir" => listed = <<>>)
  BY DEF Walking
<1>5. Matches(c) <=> EndsAt(node, req, c)
  BY <1>1, <1>2, MatchesIs
<1>6. /\ found' = IF Matches(c) THEN c ELSE found
      /\ listed' = IF req.op = "readdir" /\ node[c].parent = req.ino THEN Append(listed, c) ELSE listed
  BY DEF Visit
<1>7. \A D \in SUBSET Nat : Scan(node, stack, D, req.seen) => c \notin D
  OBVIOUS
<1>8. \A D \in SUBSET Nat : Scan(node, stack, D, req.seen) => Scan(node, stack', D \cup {c}, req.seen)
  BY <1>1, MovedScan
<1>9. /\ req.seen \in 1 .. Len(node) /\ req.ino \in 1 .. req.seen
      /\ (req.op \in {"open", "opendir", "read"} => req.ino # 1)
      /\ (~Known(req) => \E D \in SUBSET Nat : Scan(node, stack, D, req.seen) /\ Passed(node, req, D, listed))
      /\ found = 0
  BY DEF Walking
<1> HIDE DEF c
<1>10. req.op # "readdir" => listed' = <<>>
  BY <1>4, <1>6
<1>11. Listing(node, req, listed, c, listed')
  BY <1>6 DEF Listing
<1>12. CASE EndsAt(node, req, c)
  <2>1. found' = c /\ found' # 0 /\ found' \in 0 .. Len(node) /\ req.op # "readdir"
    BY <1>1, <1>2, <1>5, <1>6, <1>12 DEF EndsAt
  <2> QED BY <1>1, <1>3, <1>9, <1>10, <2>1, EmptySeq DEF Walking
<1>13. CASE ~EndsAt(node, req, c)
  <2>1. found' = 0 /\ found' \in 0 .. Len(node)
    BY <1>1, <1>5, <1>6, <1>9, <1>13
  <2>2. ASSUME ~Known(req)
        PROVE  /\ \E D \in SUBSET Nat : Scan(node, stack', D, req.seen) /\ Passed(node, req, D, listed')
               /\ listed' \in Seq(Nat) /\ \A j, k \in 1 .. Len(listed') : listed'[j] = listed'[k] => j = k
    <3>1. PICK D \in SUBSET Nat : Scan(node, stack, D, req.seen) /\ Passed(node, req, D, listed)
      BY <1>9, <2>2
    <3>2. c \in Nat /\ c \notin D /\ D \cup {c} \in SUBSET Nat
      BY <1>1, <1>2, <1>7, <3>1
    <3>3. Scan(node, stack', D \cup {c}, req.seen)
      BY <1>8, <3>1
    <3>4. PassesOn(node, req, D, c, listed, listed')
      BY <1>4, <1>11, <1>13, <3>1, <3>2, PassedOn
    <3>5. /\ Passed(node, req, D \cup {c}, listed') /\ listed' \in Seq(Nat)
          /\ \A j, k \in 1 .. Len(listed') : listed'[j] = listed'[k] => j = k
      BY <3>4 DEF PassesOn
    <3> QED BY <3>2, <3>3, <3>5
  <2>3. CASE Known(req)
    <3>1. listed' = <<>>
      BY <1>10, <2>3 DEF Known
    <3> QED BY <1>1, <1>3, <1>9, <1>10, <2>1, <2>3, <3>1, EmptySeq DEF Walking
  <2>4. CASE ~Known(req)
    BY <1>1, <1>3, <1>9, <1>10, <2>1, <2>2, <2>4 DEF Walking
  <2> QED BY <2>3, <2>4
<1> QED BY <1>12, <1>13

\* A file is passed, or ends the walk.
LEMMA VisitFileWalks ==
  ASSUME Tree(node), Walking(node, req, stack, found, listed), VisitFile
  PROVE  Walking(node, req, stack', found', listed')
<1> DEFINE m == Len(stack)
           c == NextChild(node, stack, m)
<1>1. /\ stack # <<>> /\ found = 0 /\ MoreChildren /\ ~IsDir(Child) /\ Visit(Child)
      /\ stack' = Advance(stack)
  BY DEF VisitFile
<1>2. /\ stack \in Seq(Frame) /\ m \in Nat /\ m >= 1 /\ Frames(node, stack)
      /\ Top = stack[m] /\ Child = c /\ Len(node) \in Nat
  BY <1>1, StackIs
<1>3. m \in 1 .. Len(stack) /\ \A i \in 1 .. Len(stack) : i <= m
  BY <1>2
<1>4. MovedOn(stack, stack', m)
  BY <1>1, <1>2, AdvanceMoves
<1>5. stack[m].next <= Len(node[stack[m].dir].children) /\ node[c].type # "dir" /\ Visit(c)
  BY <1>1, <1>2 DEF MoreChildren, IsDir
<1> HIDE DEF m
<1>6. /\ c \in 2 .. Len(node) /\ c = node[stack[m].dir].children[stack[m].next]
      /\ stack[m].next \in 1 .. Len(node[stack[m].dir].children) /\ stack[m].next \in Nat
  <2>1. /\ c \in 2 .. Len(node) /\ stack[m].next \in 1 .. Len(node[stack[m].dir].children)
    BY <1>2, <1>3, <1>5, ChildIs
  <2>2. stack[m].next \in Nat
    BY <1>2, <1>3 DEF Frames
  <2> QED BY <2>1, <2>2 DEF NextChild
<1>7. req.seen \in 1 .. Len(node)
  BY DEF Walking
<1> HIDE DEF c
<1>8. ASSUME NEW D \in SUBSET Nat, Scan(node, stack, D, req.seen)
      PROVE  c \notin D /\ \A n \in 2 .. req.seen : node[n].parent = c => n \in D
  <2>1. c \in D <=> stack[m].next < stack[m].next
    BY <1>3, <1>6, <1>8 DEF Scan
  <2>2. c \notin D
    BY <1>6, <2>1
  <2>3. ASSUME NEW n \in 2 .. req.seen PROVE node[n].parent # c
    <3>1. n \in 2 .. Len(node)
      BY <1>2, <1>7
    <3>2. node[node[n].parent].type = "dir"
      BY <3>1 DEF Tree
    <3> QED BY <1>5, <3>2
  <2> QED BY <2>2, <2>3
<1> QED BY <1>1, <1>3, <1>4, <1>5, <1>8, VisitWalks DEF c

\* The way back out of a directory.
LEMMA AscendWalks ==
  ASSUME Tree(node), Walking(node, req, stack, found, listed), Ascend
  PROVE  Walking(node, req, stack', found', listed')
<1> DEFINE m == Len(stack)
<1>1. stack # <<>> /\ (found # 0 \/ ~MoreChildren)
  BY DEF Ascend
<1>2. /\ stack \in Seq(Frame) /\ m \in Nat /\ m >= 1 /\ Frames(node, stack)
      /\ Top = stack[m] /\ Len(node) \in Nat /\ Top.next \in Nat
      /\ Len(node[Top.dir].children) \in Nat /\ Top.dir \in 1 .. Len(node)
  BY <1>1, StackIs
<1>8. Len(stack) = m
  OBVIOUS
<1> HIDE DEF m
<1>9. m \in Nat /\ m >= 1
  BY <1>2
<1>3. m = 1 <=> stack[m].dir = 1
  <2>1. stack[1].dir = 1
    BY <1>2, <1>8, <1>9 DEF Frames
  <2>2. m # 1 => stack[1].dir < stack[m].dir
    <3>1. 1 \in 1 .. m /\ m \in 1 .. m /\ (m # 1 => 1 < m)
      BY <1>9
    <3> QED BY <1>2, <1>8, <3>1 DEF Frames
  <2>3. stack[1].dir \in Nat
    <3>1. 1 \in 1 .. Len(stack)
      BY <1>8, <1>9
    <3>2. stack[1].dir \in 1 .. Len(node)
      BY <1>2, <3>1 DEF Frames
    <3> QED BY <1>2, <3>2
  <2>4. CASE m = 1
    BY <2>1, <2>4
  <2>5. CASE m # 1
    <3>1. 1 < stack[m].dir
      BY <2>1, <2>2, <2>5
    <3> QED BY <2>5, <3>1
  <2> QED BY <2>4, <2>5
<1>4. ASSUME found = 0 PROVE Top.next > Len(node[Top.dir].children)
  BY <1>1, <1>2, <1>4, SMTT(30) DEF MoreChildren
<1>5. req.seen \in 1 .. Len(node)
  BY DEF Walking
<1>6. CASE Top.dir = 1
  <2>1. stack' = <<>> /\ found' = found /\ listed' = listed
    BY <1>6 DEF Ascend
  <2>2. Frames(node, <<>>)
    <3>1. <<>> \in Seq([dir : Nat, next : Nat]) /\ Len(<<>>) = 0
      OBVIOUS
    <3> QED BY <3>1 DEF Frames
  <2>3. ASSUME found = 0, ~Known(req)
        PROVE  \E D \in SUBSET Nat : Scan(node, <<>>, D, req.seen) /\ Passed(node, req, D, listed)
    <3>1. PICK D \in SUBSET Nat : Scan(node, stack, D, req.seen) /\ Passed(node, req, D, listed)
      BY <2>3 DEF Walking
    <3>2. Len(stack) = 1 /\ stack[1].next > Len(node[1].children)
      BY <1>2, <1>3, <1>4, <1>6, <1>8, <2>3
    <3>3. Scan(node, <<>>, D, req.seen)
      BY <1>2, <1>5, <3>1, <3>2, EndScan
    <3> QED BY <3>1, <3>3
  <2> QED BY <2>1, <2>2, <2>3 DEF Walking
<1>7. CASE Top.dir # 1
  <2> DEFINE c == NextChild(node, stack, m - 1)
  <2>1. stack' = Advance(Front(stack)) /\ Visit(Top.dir)
    BY <1>7 DEF Ascend
  <2>2. /\ m >= 2 /\ m - 1 \in 1 .. Len(stack) /\ m - 1 \in 1 .. Len(stack) - 1
        /\ m - 1 + 1 = m /\ m \in 1 .. Len(stack)
    <3>1. m # 1
      BY <1>2, <1>3, <1>7
    <3> QED BY <1>8, <1>9, <3>1
  <2>3. MovedOn(stack, stack', m - 1)
    BY <1>2, <1>8, <2>1, <2>2, AscendMoves
  <2>4. stack[m - 1].next <= Len(node[stack[m - 1].dir].children) /\ Top.dir = c
    BY <1>2, <2>2 DEF Frames, NextChild
  <2>5. \A i \in 1 .. Len(stack) : i <= m - 1 \/ stack[i].dir = c
    <3>1. \A i \in 1 .. Len(stack) : i <= m - 1 \/ i = m
      BY <1>8, <1>9
    <3> QED BY <1>2, <2>4, <3>1
  <2>6. CASE found = 0
    <3>1. ASSUME NEW D \in SUBSET Nat, Scan(node, stack, D, req.seen)
          PROVE  c \notin D /\ \A n \in 2 .. req.seen : node[n].parent = c => n \in D
      <4> DEFINE d == Top.dir
      <4>1. d \notin D
        BY <1>2, <2>2, <3>1 DEF Scan
      <4>2. ASSUME NEW n \in 2 .. req.seen, node[n].parent = d PROVE n \in D
        <5>1. n \in 2 .. Len(node)
          BY <1>2, <1>5
        <5>2. PICK k \in 1 .. Len(node[d].children) : node[d].children[k] = n
          BY <4>2, <5>1, SMTT(30) DEF Tree
        <5>3. k < Top.next
          BY <1>2, <1>4, <2>6
        <5>4. node[d].children[k] \in D <=> k < Top.next
          BY <1>2, <2>2, <3>1 DEF Scan
        <5> QED BY <5>2, <5>3, <5>4
      <4> QED BY <2>4, <4>1, <4>2
    <3>2. Visit(c)
      BY <2>1, <2>4
    <3> QED BY <2>2, <2>3, <2>4, <2>5, <2>6, <3>1, <3>2, VisitWalks
  <2>7. CASE found # 0
    <3>1. Frames(node, stack')
      BY <1>2, <2>3, <2>4, MovedFrames
    <3>2. req.op # "readdir" /\ listed' = listed
      BY <2>1, <2>7 DEF Visit, Walking
    <3>3. found' # 0 /\ found' \in 0 .. Len(node)
      <4>1. Top.dir # 0 /\ Top.dir \in 0 .. Len(node)
        BY <1>2
      <4> QED BY <2>1, <2>7, <4>1 DEF Visit, Walking
    <3> QED BY <3>1, <3>2, <3>3 DEF Walking
  <2> QED BY <2>6, <2>7
<1> QED BY <1>6, <1>7

\* A request is about something that is there, and nothing is passed yet.
LEMMA RequestWalks ==
  ASSUME Tree(node), NEW op \in Ops, NEW ino \in Inodes, NEW name \in Names \cup {RootName},
         Request(op, ino, name)
  PROVE  Walking(node, req', stack', found', listed')
<1> DEFINE ends == \/ op \in {"open", "opendir", "read"} /\ ino = 1
                   \/ op = "lookup" /\ name = RootName
           first == <<[dir |-> 1, next |-> 1]>>
<1>1. /\ req' = [op |-> op, ino |-> ino, name |-> name, seen |-> Len(node)]
      /\ found' = IF ends THEN 1 ELSE 0
      /\ stack' = IF ends \/ (op = "getattr" /\ ino < 3) THEN <<>> ELSE first
      /\ listed' = <<>>
  BY DEF Request
<1>2. Len(node) \in Nat /\ Len(node) >= 1 /\ node \in Seq(Inode) /\ ino \in 1 .. Len(node)
  BY DEF Tree, Inodes
<1>3. /\ req' \in Requests /\ req'.op = op /\ req'.ino = ino /\ req'.seen = Len(node)
  BY <1>1, <1>2 DEF Requests
<1>4. Len(node[1].children) \in Nat
  <2>1. 1 \in 1 .. Len(node)
    BY <1>2
  <2> QED BY <1>2, <2>1, NodeTypes
<1>5. first \in Seq([dir : Nat, next : Nat]) /\ Len(first) = 1 /\ first[1].dir = 1 /\ first[1].next = 1
  OBVIOUS
<1> HIDE DEF first, ends
<1>6. Frames(node, first)
  <2>1. \A i \in 1 .. Len(first) : i = 1
    BY <1>5
  <2>2. 1 \in 1 .. Len(node[1].children) + 1 /\ 1 \in 1 .. Len(node)
    BY <1>2, <1>4
  <2>3. node[1].type = "dir"
    BY DEF Tree
  <2>4. /\ \A i \in 1 .. Len(first) - 1 : FALSE
        /\ \A i, j \in 1 .. Len(first) : ~(i < j)
    BY <1>5
  <2> QED BY <1>5, <2>1, <2>2, <2>3, <2>4 DEF Frames
<1>7. Frames(node, <<>>)
  <2>1. <<>> \in Seq([dir : Nat, next : Nat]) /\ Len(<<>>) = 0
    OBVIOUS
  <2> QED BY <2>1 DEF Frames
<1>8. Scan(node, first, {}, Len(node))
  <2>1. \A i \in 1 .. Len(first) : i = 1
    BY <1>5
  <2>2. \A k \in 1 .. Len(node[1].children) : ~(k < 1)
    BY <1>4
  <2> QED BY <1>5, <2>1, <2>2 DEF Scan
<1>9. Passed(node, req', {}, <<>>)
  BY EmptySeq DEF Passed
<1>10. CASE ends
  <2>1. found' = 1 /\ stack' = <<>> /\ found' \in 0 .. Len(node) /\ req'.op # "readdir"
    BY <1>1, <1>2, <1>3, <1>10 DEF ends
  <2> QED BY <1>1, <1>2, <1>3, <1>7, <2>1, EmptySeq DEF Walking
<1>11. CASE ~ends
  <2>1. found' = 0 /\ found' \in 0 .. Len(node) /\ (req'.op \in {"open", "opendir", "read"} => req'.ino # 1)
    BY <1>1, <1>2, <1>3, <1>11 DEF ends
  <2>2. CASE Known(req')
    <3>1. stack' = <<>>
      BY <1>1, <1>3, <2>2 DEF Known
    <3> QED BY <1>1, <1>2, <1>3, <1>7, <2>1, <2>2, <3>1, EmptySeq DEF Walking
  <2>3. CASE ~Known(req')
    <3>1. stack' = first
      BY <1>1, <1>3, <1>11, <2>3 DEF Known
    <3>2. Scan(node, stack', {}, req'.seen) /\ Passed(node, req', {}, listed') /\ {} \in SUBSET Nat
      BY <1>1, <1>3, <1>8, <1>9, <3>1
    <3> QED BY <1>1, <1>2, <1>3, <1>6, <2>1, <3>1, <3>2, EmptySeq DEF Walking
  <2> QED BY <2>2, <2>3
<1> QED BY <1>10, <1>11

\* The answer to a walk that has come to its end is complete.
LEMMA ReplyIsComplete ==
  ASSUME Tree(node), Walking(node, req, stack, found, listed), Reply
  PROVE  Complete(node, reply')
<1>1. stack = <<>> /\ reply' = [req |-> req, kind |-> Answer, ino |-> found, listed |-> listed]
  BY DEF Reply
<1>2. /\ reply'.req = req /\ reply'.kind = Answer /\ reply'.listed = listed
  BY <1>1
<1>3. /\ req \in Requests /\ req.op \in Ops /\ req.seen \in 1 .. Len(node) /\ req.ino \in 1 .. req.seen
      /\ found \in 0 .. Len(node) /\ Len(node) \in Nat /\ node \in Seq(Inode)
      /\ listed \in Seq(Nat)
      /\ \A j, k \in 1 .. Len(listed) : listed[j] = listed[k] => j = k
      /\ (req.op = "readdir" => found = 0)
      /\ (found = 0 /\ req.op \in {"open", "opendir", "read"} => req.ino # 1)
  BY DEF Walking, Requests, Tree
<1>4. ASSUME found = 0, ~Known(req)
      PROVE  \A n \in 2 .. req.seen :
               /\ ~EndsAt(node, req, n)
               /\ req.op = "readdir" /\ node[n].parent = req.ino => \E k \in 1 .. Len(listed) : listed[k] = n
  <2>1. PICK D \in SUBSET Nat : Scan(node, stack, D, req.seen) /\ Passed(node, req, D, listed)
    BY <1>4 DEF Walking
  <2>2. 2 .. req.seen \subseteq D
    BY <1>1, <2>1, EmptySeq DEF Scan
  <2> QED BY <2>1, <2>2 DEF Passed
<1>5. found # 0 => node[found].type \in {"dir", "file"}
  <2>1. found # 0 => found \in 1 .. Len(node)
    BY <1>3
  <2> QED BY <1>3, <2>1, NodeTypes
<1>6. ASSUME req.op \in {"open", "opendir", "read"} \/ (req.op = "getattr" /\ req.ino >= 3)
      PROVE  found # 0
  <2> SUFFICES ASSUME found = 0 PROVE FALSE
    OBVIOUS
  <2>1. ~Known(req)
    BY <1>3, <1>6 DEF Known
  <2>2. req.ino \in 2 .. req.seen
    BY <1>3, <1>6
  <2>3. EndsAt(node, req, req.ino)
    BY <1>6 DEF EndsAt
  <2> QED BY <1>4, <2>1, <2>2, <2>3
<1>7. reply'.kind # "EBADF"
  <2>1. CASE req.op \in {"open", "opendir", "read"}
    BY <1>2, <1>5, <1>6, <2>1 DEF Answer
  <2>2. CASE req.op \notin {"open", "opendir", "read"}
    BY <1>2, <1>3, <1>5, <2>2 DEF Answer, Ops
  <2> QED BY <2>1, <2>2
<1>8. req.op = "getattr" => reply'.kind # "none"
  <2> SUFFICES ASSUME req.op = "getattr" PROVE reply'.kind # "none"
    OBVIOUS
  <2>1. CASE req.ino < 3
    BY <1>2, <2>1 DEF Answer
  <2>2. CASE req.ino >= 3
    BY <1>2, <1>3, <1>5, <1>6, <2>2 DEF Answer
  <2> QED BY <1>3, <2>1, <2>2
<1>9. ASSUME NEW n \in 1 .. req.seen, Answer = "ENOENT", node[n].parent = req.ino
      PROVE  FALSE
  <2>1. req.op = "lookup" /\ found = 0
    BY <1>3, <1>5, <1>9 DEF Answer, Ops
  <2>2. n # 1
    BY <1>3, <1>9 DEF Tree
  <2>3. n \in 2 .. req.seen
    BY <1>3, <2>2
  <2>4. ~Known(req) /\ EndsAt(node, req, n)
    BY <1>9, <2>1 DEF Known, EndsAt
  <2> QED BY <1>4, <2>1, <2>3, <2>4
<1>10. ASSUME NEW n \in 1 .. req.seen, Answer = "entries", node[n].parent = req.ino
       PROVE  \E k \in DOMAIN listed : listed[k] = n
  <2>1. req.op = "readdir" /\ found = 0
    BY <1>3, <1>5, <1>10 DEF Answer, Ops
  <2>2. n # 1
    BY <1>3, <1>10 DEF Tree
  <2>3. n \in 2 .. req.seen
    BY <1>3, <2>2
  <2>4. ~Known(req)
    BY <2>1 DEF Known
  <2>5. DOMAIN listed = 1 .. Len(listed)
    BY <1>3
  <2> QED BY <1>4, <1>10, <2>1, <2>3, <2>4, <2>5
<1>11. \A j, k \in DOMAIN listed : listed[j] = listed[k] => j = k
  BY <1>3
<1>12. req.seen \in 0 .. Len(node)
  BY <1>3
<1> QED BY <1>2, <1>7, <1>8, <1>9, <1>10, <1>11, <1>12 DEF Complete

(* The main thread. *)

\* The beginning of a path.
LEMMA PrefixIs ==
  ASSUME NEW p \in Seq(Names), NEW k \in 0 .. Len(p)
  PROVE  /\ SubSeq(p, 1, k) \in Seq(Names) /\ Len(SubSeq(p, 1, k)) = k
         /\ \A i \in 1 .. k : SubSeq(p, 1, k)[i] = p[i]
<1>1. 1 \in Int /\ k \in Nat /\ k \in Int /\ \A i \in 1 .. k : p[i] \in Names
  OBVIOUS
<1>2. /\ SubSeq(p, 1, k) \in Seq(Names) /\ Len(SubSeq(p, 1, k)) = IF 1 <= k THEN k - 1 + 1 ELSE 0
      /\ \A i \in 1 .. k - 1 + 1 : SubSeq(p, 1, k)[i] = p[1 + i - 1]
  BY <1>1, SubSeqProperties
<1>3. k - 1 + 1 = k /\ \A i \in 1 .. k : 1 + i - 1 = i
  BY <1>1
<1> QED BY <1>1, <1>2, <1>3

\* walk with exists_cb finds a node with the path if there is one.
LEMMA FindPathIs ==
  ASSUME Tree(node), NEW q
  PROVE  /\ FindPath(q) # 0 => FindPath(q) \in 1 .. Len(node) /\ node[FindPath(q)].path = q
         /\ FindPath(q) = 0 => \A n \in 1 .. Len(node) : node[n].path # q
         /\ FindPath(q) \in 0 .. Len(node)
<1> DEFINE hits == { n \in 1 .. Len(node) : node[n].path = q }
<1>1. Inodes = 1 .. Len(node) /\ Len(node) \in Nat
  BY DEF Inodes, Tree
<1>2. FindPath(q) = IF hits = {} THEN 0 ELSE Min(hits)
  BY <1>1 DEF FindPath
<1>3. hits \subseteq Nat
  OBVIOUS
<1>4. CASE hits = {}
  <2>1. FindPath(q) = 0
    BY <1>2, <1>4
  <2>2. \A n \in 1 .. Len(node) : node[n].path # q
    BY <1>4
  <2>3. 0 \in 0 .. Len(node)
    BY <1>1
  <2> QED BY <2>1, <2>2, <2>3
<1>5. CASE hits # {}
  <2>1. FindPath(q) = Min(hits)
    BY <1>2, <1>5
  <2>2. Min(hits) \in hits
    <3> HIDE DEF hits
    <3> QED BY <1>3, <1>5, MinIsIn
  <2>3. FindPath(q) \in 1 .. Len(node) /\ node[FindPath(q)].path = q
    BY <2>1, <2>2
  <2>4. FindPath(q) # 0 /\ FindPath(q) \in 0 .. Len(node)
    BY <1>1, <2>3
  <2> QED BY <2>3, <2>4
<1> QED BY <1>4, <1>5

\* A directory as udir_create makes it, and a file as udir_addfile does.
LEMMA NewNodes ==
  ASSUME NEW q \in Seq(Names)
  PROVE  /\ Root \in Inode /\ Root.children = <<>> /\ Root.type = "dir" /\ Root.path = <<>> /\ Root.parent = 0
         /\ [Root EXCEPT !.path = q] \in Inode /\ [Root EXCEPT !.path = q].children = <<>>
         /\ [Root EXCEPT !.path = q].type = "dir" /\ [Root EXCEPT !.path = q].path = q
         /\ [Root EXCEPT !.type = "file", !.path = q] \in Inode
         /\ [Root EXCEPT !.type = "file", !.path = q].children = <<>>
         /\ [Root EXCEPT !.type = "file", !.path = q].type = "file"
         /\ [Root EXCEPT !.type = "file", !.path = q].path = q
<1>1. <<>> \in Seq(Names) /\ <<>> \in Seq(Nat) /\ 0 \in Nat
  OBVIOUS
<1> QED BY <1>1 DEF Root, Inode

\* What holds while a call of userfs_mountfile is in progress.
LEMMA CallIs ==
  ASSUME TreeInv, call # NoCall
  PROVE  /\ Tree(node) /\ phase = "online" /\ call.path \in Paths /\ call.path \in Seq(Names)
         /\ call.level \in 0 .. Len(call.path) /\ Len(call.path) \in Nat /\ call.level \in Nat
         /\ call.target \in 0 .. Len(node) /\ Len(node) \in Nat /\ node \in Seq(Inode)
         /\ call \in [path : Seq(Names), level : Nat, target : Nat] /\ Mounting
<1>1. call \in [path : Seq(Names), level : Nat, target : Nat] /\ Mounting
  BY DEF TreeInv
<1>2. phase = "online" /\ call.path \in Paths /\ call.level \in 0 .. Len(call.path) /\ call.target \in 0 .. Len(node)
  BY <1>1 DEF Mounting
<1>3. Tree(node)
  BY <1>2 DEF TreeInv
<1>4. call.path \in Seq(Names) /\ call.level \in Nat
  BY <1>1
<1>5. Len(call.path) \in Nat
  BY <1>4
<1>6. Len(node) \in Nat /\ node \in Seq(Inode)
  BY <1>3 DEF Tree
<1> QED BY <1>1, <1>2, <1>3, <1>4, <1>5, <1>6

\* A turn of the loop over the directories finds a directory or adds one to a directory.
LEMMA MountDirIs ==
  ASSUME TreeInv, MountDir
  PROVE  LET q == SubSeq(call.path, 1, call.level)
             parent == MkdirIn(q)
             x == [Root EXCEPT !.path = Append(node[parent].path, Last(q))]
         IN  \/ /\ FindPath(q) \in 1 .. Len(node) /\ node[FindPath(q)].path = q
                /\ node[FindPath(q)].type = "dir"
                /\ call' = [path |-> call.path, level |-> call.level + 1, target |-> FindPath(q)]
                /\ node' = node
             \/ /\ \A n \in 1 .. Len(node) : node[n].path # q
                /\ call.level >= 1
                /\ call' = [path |-> call.path, level |-> call.level + 1, target |-> Len(node) + 1]
                /\ parent \in 1 .. Len(node) /\ node[parent].type = "dir"
                /\ x.type = "dir" /\ x.path = Append(node[parent].path, Last(q))
                /\ x.path \in Seq(Names)
                /\ Added(node, node', parent, x)
<1> DEFINE q == SubSeq(call.path, 1, call.level)
           there == FindPath(q)
           parent == MkdirIn(q)
           path == Append(node[parent].path, Last(q))
           x == [Root EXCEPT !.path = path]
<1>1. call # NoCall /\ call.level < Len(call.path)
  BY DEF MountDir
<1>2. /\ Tree(node) /\ call.path \in Paths /\ call.path \in Seq(Names) /\ Len(call.path) \in Nat
      /\ call.level \in 0 .. Len(call.path) /\ call.level \in Nat /\ Len(node) \in Nat /\ node \in Seq(Inode)
      /\ call \in [path : Seq(Names), level : Nat, target : Nat]
  BY <1>1, CallIs
<1>3. q \in Seq(Names) /\ Len(q) = call.level
  BY <1>2, PrefixIs
<1>4. q \notin Paths
  <2>1. call.level \in 0 .. Len(call.path) - 1
    BY <1>1, <1>2
  <2> QED BY <1>2, <2>1, PathAssumption
<1>5. \/ there # 0 /\ call' = [call EXCEPT !.level = @ + 1, !.target = there] /\ node' = node
      \/ there = 0 /\ call' = [call EXCEPT !.level = @ + 1, !.target = Len(node) + 1] /\ AddNode(x, parent)
  BY DEF MountDir
<1> HIDE DEF q
<1>6. CASE there # 0
  <2>1. there \in 1 .. Len(node) /\ node[there].path = q
    BY <1>2, <1>6, FindPathIs
  <2>2. node[there].type = "dir"
    <3>1. node[there].type \in {"dir", "file"}
      BY <1>2, <2>1, NodeTypes
    <3>2. node[there].type # "file"
      BY <1>2, <1>4, <2>1 DEF Tree
    <3> QED BY <3>1, <3>2
  <2>3. call' = [path |-> call.path, level |-> call.level + 1, target |-> there] /\ node' = node
    BY <1>2, <1>5, <1>6
  <2> QED BY <2>1, <2>2, <2>3 DEF q
<1>7. CASE there = 0
  <2>1. \A n \in 1 .. Len(node) : node[n].path # q
    BY <1>2, <1>7, FindPathIs
  <2>2. parent \in 1 .. Len(node) /\ node[parent].type = "dir"
    BY <1>2, MkdirInIs
  <2>3. call.level >= 1
    <3>1. 1 \in 1 .. Len(node) /\ node[1].path = <<>>
      BY <1>2 DEF Tree
    <3>2. q # <<>>
      BY <2>1, <3>1
    <3>3. Len(q) # 0
      BY <1>3, <3>2, EmptySeq
    <3> QED BY <1>2, <1>3, <3>3
  <2> HIDE DEF parent
  <2>4. path \in Seq(Names)
    <3>1. Last(q) \in Names
      BY <1>2, <1>3, <2>3 DEF Last
    <3>2. node[parent].path \in Seq(Names)
      BY <1>2, <2>2, NodeTypes
    <3> QED BY <3>1, <3>2, AppendProperties
  <2> HIDE DEF path
  <2>5. x \in Inode /\ x.children = <<>> /\ x.type = "dir" /\ x.path = path
    BY <2>4, NewNodes
  <2>6. call' = [path |-> call.path, level |-> call.level + 1, target |-> Len(node) + 1] /\ AddNode(x, parent)
    BY <1>2, <1>5, <1>7
  <2> HIDE DEF x
  <2>7. Added(node, node', parent, x)
    BY <1>2, <2>2, <2>5, <2>6, AddNodeAdds
  <2> QED BY <2>1, <2>2, <2>3, <2>4, <2>5, <2>6, <2>7 DEF q, parent, path, x
<1> QED BY <1>6, <1>7

(* The invariant. *)

\* Before the first answer to a request nothing is missing from it.
LEMMA NoReplyIsComplete ==
  ASSUME NEW t, Len(t) \in Nat
  PROVE  Complete(t, NoReply)
<1>1. /\ NoReply.req.seen = 0 /\ NoReply.kind = "none" /\ NoReply.listed = <<>>
      /\ NoReply.req.op = "none"
  BY DEF NoReply, NoReq
<1>2. 0 \in 0 .. Len(t) /\ 1 .. 0 = {} /\ DOMAIN <<>> = {}
  OBVIOUS
<1> QED BY <1>1, <1>2 DEF Complete

\* Nothing has begun.
LEMMA UserfsInitHolds == UserfsInit => UserfsInv
<1> SUFFICES ASSUME UserfsInit PROVE UserfsInv
  OBVIOUS
<1>1. node = <<>> /\ stack = <<>> /\ found = 0 /\ call = NoCall /\ calls = 0 /\ phase = "none" /\ loop = "absent" /\ reply = NoReply
  BY DEF UserfsInit
<1>2. TreeInv
  BY <1>1, MountAssumption DEF TreeInv
<1>3. WalkInv
  BY <1>1 DEF WalkInv
<1>4. Complete(node, reply)
  <2>1. Len(node) \in Nat
    BY <1>1
  <2> QED BY <1>1, <2>1, NoReplyIsComplete
<1> QED BY <1>2, <1>3, <1>4 DEF UserfsInv

\* The mount point alone is a tree.
LEMMA RootIsTree == Tree(<<Root>>)
<1>1. Root \in Inode /\ Root.children = <<>> /\ Root.type = "dir" /\ Root.path = <<>> /\ Root.parent = 0
  <2>1. <<>> \in Seq(Names)
    OBVIOUS
  <2> QED BY <2>1, NewNodes
<1> HIDE DEF Root, Inode
<1>2. <<Root>> \in Seq(Inode) /\ Len(<<Root>>) = 1 /\ <<Root>>[1] = Root
  BY <1>1
<1> DEFINE t == <<Root>>
<1>3. t \in Seq(Inode) /\ Len(t) = 1 /\ t[1] = Root
  BY <1>2
<1> HIDE DEF t
<1>4. \A n \in 1 .. Len(t) : n = 1 /\ Len(t[n].children) = 0 /\ t[n].type # "file"
  BY <1>1, <1>3
<1>5. Tree(t)
  BY <1>1, <1>3, <1>4 DEF Tree
<1> QED BY <1>5 DEF t

\* The life of a userfs: what is known before its actions.
LEMMA LifeKeeps ==
  ASSUME UserfsInv, Create \/ Exit \/ UserfsDestroy
  PROVE  UserfsInv'
<1>1. CASE Create
  <2>1. /\ phase = "none" /\ phase' = "online" /\ loop' = "waiting" /\ node' = <<Root>>
        /\ UNCHANGED <<call, calls, req, stack, found, listed, reply>>
    BY <1>1 DEF Create, walk
  <2>2. loop = "absent" /\ node = <<>> /\ call = NoCall /\ calls \in 0 .. MaxMounts
    BY <2>1 DEF UserfsInv, TreeInv, Mounting
  <2>3. TreeInv'
    BY <2>1, <2>2, RootIsTree DEF TreeInv
  <2>4. WalkInv'
    BY <2>1, <2>2 DEF UserfsInv, WalkInv
  <2>5. Complete(node', reply')
    <3>1. reply.req.seen \in 0 .. 0
      BY <2>2, EmptySeq DEF UserfsInv, Complete
    <3>2. Len(node') = 1
      BY <2>1
    <3>3. reply.req.seen = 0 /\ 0 \in 0 .. 1
      BY <3>1
    <3> QED BY <2>1, <3>2, <3>3 DEF UserfsInv, Complete
  <2> QED BY <2>3, <2>4, <2>5 DEF UserfsInv
<1>2. CASE Exit
  <2>1. /\ phase = "online" /\ call = NoCall /\ phase' = "exiting"
        /\ UNCHANGED <<node, call, calls, loop, req, stack, found, listed, reply>>
    BY <1>2 DEF Exit, walk, tree
  <2>2. TreeInv'
    BY <2>1 DEF UserfsInv, TreeInv
  <2>3. WalkInv' /\ Complete(node', reply')
    BY <2>1 DEF UserfsInv, WalkInv
  <2> QED BY <2>2, <2>3 DEF UserfsInv
<1>3. CASE UserfsDestroy
  <2>1. /\ phase = "exiting" /\ loop = "absent" /\ phase' = "none" /\ node' = <<>> /\ calls' = 0 /\ reply' = NoReply
        /\ UNCHANGED <<call, loop, req, stack, found, listed>>
    BY <1>3 DEF UserfsDestroy, walk
  <2>2. call = NoCall
    BY <2>1 DEF UserfsInv, TreeInv, Mounting
  <2>3. TreeInv'
    BY <2>1, <2>2, MountAssumption DEF TreeInv
  <2>4. WalkInv'
    BY <2>1 DEF UserfsInv, WalkInv
  <2>5. Complete(node', reply')
    <3>1. Len(node') \in Nat
      BY <2>1
    <3> QED BY <2>1, <3>1, NoReplyIsComplete
  <2> QED BY <2>3, <2>4, <2>5 DEF UserfsInv
<1> QED BY <1>1, <1>2, <1>3

\* A call of userfs_mountfile begins.
LEMMA MountFileKeeps ==
  ASSUME UserfsInv, NEW p \in Paths, MountFile(p)
  PROVE  UserfsInv'
<1>1. /\ phase = "online" /\ calls < MaxMounts /\ calls' = calls + 1
      /\ call' = NoCall \/ call' = [path |-> p, level |-> 0, target |-> 0]
      /\ UNCHANGED <<phase, node, loop, req, stack, found, listed, reply>>
  BY DEF MountFile, walk
<1>2. p \in Seq(Names) /\ Len(p) \in Nat
  BY PathAssumption
<1>3. calls' \in 0 .. MaxMounts
  BY <1>1, MountAssumption DEF UserfsInv, TreeInv
<1>4. Tree(node) /\ Len(node) \in Nat
  BY <1>1 DEF UserfsInv, TreeInv, Tree
<1>5. call' = NoCall \/ (call' \in [path : Seq(Names), level : Nat, target : Nat] /\ Mounting')
  <2>1. CASE call' = [path |-> p, level |-> 0, target |-> 0]
    <3>1. call'.path = p /\ call'.level = 0 /\ call'.target = 0
      BY <2>1
    <3>2. 0 \in 0 .. Len(p) /\ 0 \in 0 .. Len(node) /\ ~(0 >= 1)
      BY <1>2, <1>4
    <3> QED BY <1>1, <1>2, <2>1, <3>1, <3>2 DEF Mounting
  <2> QED BY <1>1, <2>1
<1>6. TreeInv'
  BY <1>1, <1>3, <1>4, <1>5 DEF UserfsInv, TreeInv
<1>7. WalkInv' /\ Complete(node', reply')
  BY <1>1 DEF UserfsInv, WalkInv
<1> QED BY <1>6, <1>7 DEF UserfsInv

\* A node may be added whatever the loop does.
LEMMA AddedKeeps ==
  ASSUME UserfsInv, NEW p \in 1 .. Len(node), NEW x, Tree(node), node[p].type = "dir",
         Added(node, node', p, x), x.type = "file" => x.path \in Paths,
         UNCHANGED <<loop, req, stack, found, listed, reply>>
  PROVE  Tree(node') /\ WalkInv' /\ Complete(node', reply')
<1>1. Tree(node')
  BY AddedIsTree
<1>2. WalkInv'
  BY WalkStays DEF UserfsInv, WalkInv
<1>3. Complete(node', reply')
  <2>1. Len(node) \in Nat
    BY DEF Tree
  <2> QED BY <2>1, CompleteStays DEF UserfsInv
<1> QED BY <1>1, <1>2, <1>3

\* A turn of the loop over the directories.
LEMMA MountDirKeeps ==
  ASSUME UserfsInv, MountDir
  PROVE  UserfsInv'
<1> DEFINE q == SubSeq(call.path, 1, call.level)
           parent == MkdirIn(q)
           x == [Root EXCEPT !.path = Append(node[parent].path, Last(q))]
           below(there) == [path |-> call.path, level |-> call.level + 1, target |-> there]
<1>1. call # NoCall /\ call.level < Len(call.path) /\ UNCHANGED <<phase, calls, loop, req, stack, found, listed, reply>>
  BY DEF MountDir, walk
<1>2. /\ Tree(node) /\ phase = "online" /\ call.path \in Paths /\ call.path \in Seq(Names)
      /\ Len(call.path) \in Nat /\ call.level \in Nat /\ Len(node) \in Nat
  BY <1>1, CallIs DEF UserfsInv
<1>3. \/ /\ FindPath(q) \in 1 .. Len(node) /\ node[FindPath(q)].type = "dir"
         /\ call' = below(FindPath(q)) /\ node' = node
      \/ /\ call' = below(Len(node) + 1)
         /\ parent \in 1 .. Len(node) /\ node[parent].type = "dir" /\ x.type = "dir"
         /\ Added(node, node', parent, x)
  BY MountDirIs DEF UserfsInv
<1> HIDE DEF q, parent, x
<1>4. ASSUME NEW there \in 1 .. Len(node'), node'[there].type = "dir", Len(node') \in Nat, call' = below(there), Tree(node')
      PROVE  TreeInv'
  <2>1. /\ call'.path = call.path /\ call'.level = call.level + 1 /\ call'.target = there
        /\ call' \in [path : Seq(Names), level : Nat, target : Nat]
    <3>1. there \in Nat
      BY <1>4
    <3> QED BY <1>2, <1>4, <3>1
  <2>2. call.level + 1 \in 0 .. Len(call.path) /\ there \in 0 .. Len(node')
    BY <1>1, <1>2, <1>4
  <2>3. Mounting'
    BY <1>1, <1>2, <1>4, <2>1, <2>2 DEF Mounting
  <2> QED BY <1>1, <1>2, <1>4, <2>1, <2>3 DEF UserfsInv, TreeInv
<1>5. CASE /\ FindPath(q) \in 1 .. Len(node) /\ node[FindPath(q)].type = "dir"
           /\ call' = below(FindPath(q)) /\ node' = node
  <2>1. TreeInv'
    BY <1>2, <1>4, <1>5
  <2>2. WalkInv' /\ Complete(node', reply')
    BY <1>1, <1>5 DEF UserfsInv, WalkInv
  <2> QED BY <2>1, <2>2 DEF UserfsInv
<1>6. CASE /\ call' = below(Len(node) + 1)
           /\ parent \in 1 .. Len(node) /\ node[parent].type = "dir" /\ x.type = "dir"
           /\ Added(node, node', parent, x)
  <2>1. Tree(node') /\ WalkInv' /\ Complete(node', reply')
    <3>1. x.type = "file" => x.path \in Paths
      BY <1>6
    <3> QED BY <1>1, <1>2, <1>6, <3>1, AddedKeeps
  <2>2. Len(node') = Len(node) + 1 /\ node'[Len(node) + 1].type = "dir"
    BY <1>6 DEF Added
  <2>3. Len(node) + 1 \in 1 .. Len(node') /\ Len(node') \in Nat
    BY <1>2, <2>2
  <2>4. TreeInv'
    BY <1>4, <1>6, <2>1, <2>2, <2>3
  <2> QED BY <2>1, <2>4 DEF UserfsInv
<1> QED BY <1>3, <1>5, <1>6

\* The file is added to the last directory.
LEMMA MountAddIs ==
  ASSUME TreeInv, MountAdd
  PROVE  LET x == [Root EXCEPT !.type = "file", !.path = call.path]
         IN  /\ Tree(node) /\ call.target \in 1 .. Len(node) /\ node[call.target].type = "dir"
             /\ call.path \in Paths /\ call.level = Len(call.path) /\ call.level >= 1
             /\ x.type = "file" /\ x.path = call.path
             /\ Added(node, node', call.target, x)
<1> DEFINE x == [Root EXCEPT !.type = "file", !.path = call.path]
<1>1. call # NoCall /\ call.level = Len(call.path) /\ AddNode(x, call.target)
  BY DEF MountAdd
<1>2. Tree(node) /\ node \in Seq(Inode) /\ call.path \in Paths /\ call.path \in Seq(Names) /\ Mounting
  BY <1>1, CallIs
<1>3. call.level >= 1
  BY <1>1, <1>2, PathAssumption
<1>4. call.target \in 1 .. Len(node) /\ node[call.target].type = "dir"
  BY <1>2, <1>3 DEF Mounting
<1>5. x \in Inode /\ x.children = <<>> /\ x.type = "file" /\ x.path = call.path
  BY <1>2, NewNodes
<1> HIDE DEF x
<1>6. Added(node, node', call.target, x)
  BY <1>1, <1>2, <1>4, <1>5, AddNodeAdds
<1> QED BY <1>1, <1>2, <1>3, <1>4, <1>5, <1>6 DEF x

\* The call ends with its file in the tree.
LEMMA MountAddKeeps ==
  ASSUME UserfsInv, MountAdd
  PROVE  UserfsInv'
<1> DEFINE x == [Root EXCEPT !.type = "file", !.path = call.path]
<1>1. call' = NoCall /\ call # NoCall /\ UNCHANGED <<phase, calls, loop, req, stack, found, listed, reply>>
  BY DEF MountAdd, walk
<1>2. /\ Tree(node) /\ call.target \in 1 .. Len(node) /\ node[call.target].type = "dir"
      /\ call.path \in Paths /\ x.path = call.path /\ Added(node, node', call.target, x)
  BY MountAddIs DEF UserfsInv
<1> HIDE DEF x
<1>3. Tree(node') /\ WalkInv' /\ Complete(node', reply')
  BY <1>1, <1>2, AddedKeeps
<1>4. phase = "online"
  BY <1>1, CallIs DEF UserfsInv
<1>5. TreeInv'
  BY <1>1, <1>3, <1>4 DEF UserfsInv, TreeInv
<1> QED BY <1>3, <1>5 DEF UserfsInv

\* A walk, or a request to come, is on the tree of a userfs that exists.
LEMMA LoopIs ==
  ASSUME UserfsInv, loop # "absent"
  PROVE  phase # "none" /\ Tree(node) /\ Len(node) \in Nat
<1>1. phase # "none"
  BY DEF UserfsInv, TreeInv
<1> QED BY <1>1 DEF UserfsInv, TreeInv, Tree

\* The tree is as before, and what is known of the loop follows from its walk.
LEMMA LoopKeeps ==
  ASSUME UserfsInv, loop # "absent", UNCHANGED <<phase, node, call, calls>>, Complete(node, reply'),
         \/ loop' = "walking" /\ Walking(node, req', stack', found', listed')
         \/ loop' \in {"absent", "waiting"} /\ stack' = <<>> /\ found' = 0
  PROVE  UserfsInv'
<1>1. phase # "none"
  BY LoopIs
<1>2. TreeInv'
  BY <1>1 DEF UserfsInv, TreeInv, Mounting
<1>3. WalkInv'
  BY DEF WalkInv
<1> QED BY <1>2, <1>3 DEF UserfsInv

\* The kernel asks.
LEMMA RequestKeeps ==
  ASSUME UserfsInv, NEW op \in Ops, NEW ino \in Inodes, NEW name \in Names \cup {RootName},
         Request(op, ino, name)
  PROVE  UserfsInv'
<1>1. loop = "waiting" /\ loop' = "walking" /\ reply' = NoReply /\ UNCHANGED <<phase, node, call, calls>>
  BY DEF Request, tree
<1>2. loop # "absent"
  BY <1>1
<1>3. Tree(node) /\ Len(node) \in Nat
  BY <1>2, LoopIs
<1>4. Walking(node, req', stack', found', listed')
  BY <1>3, RequestWalks
<1>5. Complete(node, reply')
  BY <1>1, <1>3, NoReplyIsComplete
<1> QED BY <1>1, <1>2, <1>4, <1>5, LoopKeeps

\* The loop goes on with its walk, or answers.
LEMMA LoopStepKeeps ==
  ASSUME UserfsInv, LoopStep
  PROVE  UserfsInv'
<1>1. loop = "walking" /\ loop # "absent" /\ UNCHANGED <<phase, node, call, calls>>
  BY DEF LoopStep, Descend, VisitFile, Ascend, Reply, tree
<1>2. Tree(node)
  BY <1>1, LoopIs
<1>3. Walking(node, req, stack, found, listed) /\ Complete(node, reply)
  BY <1>1 DEF UserfsInv, WalkInv
<1>4. CASE Descend
  <2>1. Walking(node, req, stack', found, listed)
    BY <1>2, <1>3, <1>4, DescendWalks
  <2>2. UNCHANGED <<loop, req, found, listed, reply>>
    BY <1>4 DEF Descend
  <2> QED BY <1>1, <1>3, <2>1, <2>2, LoopKeeps
<1>5. CASE VisitFile
  <2>1. Walking(node, req, stack', found', listed')
    BY <1>2, <1>3, <1>5, VisitFileWalks
  <2>2. UNCHANGED <<loop, req, reply>>
    BY <1>5 DEF VisitFile
  <2> QED BY <1>1, <1>3, <2>1, <2>2, LoopKeeps
<1>6. CASE Ascend
  <2>1. Walking(node, req, stack', found', listed')
    BY <1>2, <1>3, <1>6, AscendWalks
  <2>2. UNCHANGED <<loop, req, reply>>
    BY <1>6 DEF Ascend
  <2> QED BY <1>1, <1>3, <2>1, <2>2, LoopKeeps
<1>7. CASE Reply
  <2>1. Complete(node, reply')
    BY <1>2, <1>3, <1>7, ReplyIsComplete
  <2>2. loop' \in {"absent", "waiting"} /\ stack' = <<>> /\ found' = 0
    BY <1>7 DEF Reply
  <2> QED BY <1>1, <2>1, <2>2, LoopKeeps
<1> QED BY <1>4, <1>5, <1>6, <1>7 DEF LoopStep

\* Every step of either thread keeps the invariant.
LEMMA UserfsNextKeeps ==
  ASSUME UserfsInv, [UserfsNext]_userfsVars
  PROVE  UserfsInv'
<1>1. CASE Create \/ Exit \/ UserfsDestroy
  BY <1>1, LifeKeeps
<1>2. CASE \E p \in Paths : MountFile(p)
  BY <1>2, MountFileKeeps
<1>3. CASE MountDir
  BY <1>3, MountDirKeeps
<1>4. CASE MountAdd
  BY <1>4, MountAddKeeps
<1>5. CASE AnyRequest
  BY <1>5, RequestKeeps DEF AnyRequest
<1>6. CASE LoopStep
  BY <1>6, LoopStepKeeps
<1>7. CASE UNCHANGED userfsVars
  <2>1. UNCHANGED <<phase, node, call, calls, loop, req, stack, found, listed, reply>>
    BY <1>7 DEF userfsVars, tree, walk
  <2> QED BY <2>1 DEF UserfsInv, TreeInv, Mounting, WalkInv
<1> QED BY <1>1, <1>2, <1>3, <1>4, <1>5, <1>6, <1>7 DEF UserfsNext

\* The tree, the walk over it and the answers are right at every moment.
THEOREM UserfsInvHolds == UserfsSpec => []UserfsInv
<1>1. UserfsInit => UserfsInv
  BY UserfsInitHolds
<1>2. UserfsInv /\ [UserfsNext]_userfsVars => UserfsInv'
  BY UserfsNextKeeps
<1> QED BY <1>1, <1>2, PTL DEF UserfsSpec

\* Every variable has its type, and the tree's links are as they should be.
LEMMA TypesAre == UserfsInv => UserfsTypeOK
<1> SUFFICES ASSUME UserfsInv PROVE UserfsTypeOK
  OBVIOUS
<1>1. phase \in {"none", "online", "exiting"} /\ loop \in {"absent", "waiting", "walking"} /\ calls \in 0 .. MaxMounts
  BY DEF UserfsInv, TreeInv
<1>2. call.target \in 0 .. Len(node)
  <2>1. CASE call = NoCall
    <3>1. call.target = 0
      BY <2>1 DEF NoCall
    <3>2. Len(node) \in Nat
      <4>1. CASE phase = "none"
        BY <4>1 DEF UserfsInv, TreeInv
      <4>2. CASE phase # "none"
        BY <4>2 DEF UserfsInv, TreeInv, Tree
      <4> QED BY <4>1, <4>2
    <3> QED BY <3>1, <3>2
  <2>2. CASE call # NoCall
    BY <2>2, CallIs DEF UserfsInv
  <2> QED BY <2>1, <2>2
<1>3. ASSUME NEW n \in Inodes
      PROVE  /\ node[n].type \in {"dir", "file"}
             /\ ToSet(node[n].children) \subseteq Inodes
             /\ n # 1 => /\ node[n].parent \in 1 .. n - 1
                         /\ n \in ToSet(node[node[n].parent].children)
  <2>1. Tree(node)
    <3>1. phase # "none"
      BY <1>3 DEF Inodes, UserfsInv, TreeInv
    <3> QED BY <3>1 DEF UserfsInv, TreeInv
  <2>2. Inodes = 1 .. Len(node) /\ Len(node) \in Nat
    BY <2>1 DEF Inodes, Tree
  <2>3. n \in 1 .. Len(node)
    BY <1>3, <2>2
  <2>4. \A m \in 1 .. Len(node) : DOMAIN node[m].children = 1 .. Len(node[m].children)
    <3>1. ASSUME NEW m \in 1 .. Len(node)
          PROVE  DOMAIN node[m].children = 1 .. Len(node[m].children)
      <4>1. node[m].children \in Seq(Nat)
        BY <2>1, NodeTypes DEF Tree
      <4> QED BY <4>1
    <3> QED BY <3>1
  <2>5. node[n].type \in {"dir", "file"}
    BY <2>1, <2>3, NodeTypes DEF Tree
  <2>6. ToSet(node[n].children) \subseteq Inodes
    <3>1. ASSUME NEW k \in 1 .. Len(node[n].children)
          PROVE  node[n].children[k] \in 1 .. Len(node)
      <4>1. node[n].children[k] \in n + 1 .. Len(node)
        BY <2>1, <2>3 DEF Tree
      <4> QED BY <2>2, <2>3, <4>1
    <3> QED BY <2>2, <2>3, <2>4, <3>1 DEF ToSet
  <2>7. ASSUME n # 1
        PROVE  node[n].parent \in 1 .. n - 1 /\ n \in ToSet(node[node[n].parent].children)
    <3>1. n \in 2 .. Len(node)
      BY <2>2, <2>3, <2>7
    <3>2. /\ node[n].parent \in 1 .. n - 1
          /\ \E k \in 1 .. Len(node[node[n].parent].children) : node[node[n].parent].children[k] = n
      BY <2>1, <3>1 DEF Tree
    <3>3. node[n].parent \in 1 .. Len(node)
      BY <2>2, <3>1, <3>2
    <3> QED BY <2>4, <3>2, <3>3 DEF ToSet
  <2> QED BY <2>5, <2>6, <2>7
<1>4. found \in Nat /\ \A i \in DOMAIN stack : stack[i].next \in Nat \ {0}
  <2>1. CASE loop = "walking"
    <3>1. /\ found \in 0 .. Len(node) /\ Frames(node, stack)
      BY <2>1 DEF UserfsInv, WalkInv, Walking
    <3>2. ASSUME NEW i \in DOMAIN stack PROVE stack[i].next \in Nat \ {0}
      <4>1. stack \in Seq(Frame) /\ i \in 1 .. Len(stack)
        BY <3>1, <3>2 DEF Frames, Frame
      <4>2. stack[i] \in Frame
        BY <4>1
      <4>3. stack[i].next \in Nat
        BY <4>2 DEF Frame
      <4>4. stack[i].next \in 1 .. Len(node[stack[i].dir].children) + 1
        BY <3>1, <4>1 DEF Frames
      <4> QED BY <4>3, <4>4
    <3> QED BY <3>1, <3>2
  <2>2. CASE loop # "walking"
    BY <2>2 DEF UserfsInv, WalkInv
  <2> QED BY <2>1, <2>2
<1> QED BY <1>1, <1>2, <1>3, <1>4 DEF UserfsTypeOK

\* Wherever the loop's walk stands, it stands on directories that exist, and what it has found
\* exists, however the two threads interleave: userfs_destroy waits for the walk's end, and
\* list_push shows the walk only finished nodes.
THEOREM WalkIsOnLiveTree == UserfsSpec => []WalkOnLiveTree
<1>1. UserfsInv => WalkOnLiveTree
  <2> SUFFICES ASSUME UserfsInv PROVE WalkOnLiveTree
    OBVIOUS
  <2>1. UserfsTypeOK
    BY TypesAre
  <2>2. ASSUME loop = "walking"
        PROVE  /\ phase # "none"
               /\ \A i \in DOMAIN stack : stack[i].dir \in Inodes /\ IsDir(stack[i].dir)
               /\ found \in Inodes \cup {0}
    <3>1. loop # "absent"
      BY <2>2
    <3>2. phase # "none" /\ Tree(node) /\ Len(node) \in Nat
      BY <3>1, LoopIs
    <3>3. Inodes = 1 .. Len(node)
      BY <3>2 DEF Inodes, Tree
    <3>4. found \in 0 .. Len(node) /\ Frames(node, stack)
      BY <2>2 DEF UserfsInv, WalkInv, Walking
    <3>5. DOMAIN stack = 1 .. Len(stack)
      BY <3>4 DEF Frames
    <3>6. \A i \in DOMAIN stack : stack[i].dir \in Inodes /\ IsDir(stack[i].dir)
      BY <3>3, <3>4, <3>5 DEF Frames, IsDir
    <3> QED BY <3>2, <3>3, <3>4, <3>6
  <2> QED BY <2>1, <2>2 DEF WalkOnLiveTree
<1> QED BY <1>1, UserfsInvHolds, PTL

\* A node that was in the tree when its request came is found by it, and listed once, however
\* many nodes userfs_mountfile adds while the request walks.
THEOREM NothingGoesMissing == UserfsSpec => []NothingIsMissed
<1>1. UserfsInv => NothingIsMissed
  <2> SUFFICES ASSUME UserfsInv PROVE NothingIsMissed
    OBVIOUS
  <2>1. Complete(node, reply)
    BY DEF UserfsInv
  <2>2. IsInjective(reply.listed)
    BY <2>1 DEF Complete, IsInjective
  <2>3. ASSUME NEW n \in 1 .. reply.req.seen
        PROVE  /\ reply.kind = "ENOENT" => ~(node[n].parent = reply.req.ino /\ NameOf(n) = reply.req.name)
               /\ reply.kind = "entries" /\ node[n].parent = reply.req.ino => n \in ToSet(reply.listed)
    BY <2>1 DEF Complete, NameOf, ToSet
  <2>4. reply.kind # "EBADF" /\ (reply.req.op = "getattr" => reply.kind # "none")
    BY <2>1 DEF Complete
  <2> QED BY <2>2, <2>3, <2>4 DEF NothingIsMissed
<1> QED BY <1>1, UserfsInvHolds, PTL

(* Where the nodes are put, with names none of which begins another. *)

\* Each path is that of one node, in the directory with all of it but the last name.
Placed(t) ==
  /\ \A m, n \in 1 .. Len(t) : t[m].path = t[n].path => m = n
  /\ \A n \in 2 .. Len(t) : t[n].path # <<>> /\ Front(t[n].path) = t[t[n].parent].path

\* The directories above the turn the call has come to exist; its target is the last of them.
Prepared ==
  /\ \A n \in 1 .. Len(node) : node[n].path # call.path
  /\ \A j \in 0 .. call.level - 1 : \E n \in 1 .. Len(node) :
       node[n].type = "dir" /\ node[n].path = SubSeq(call.path, 1, j)
  /\ call.level >= 1 => node[call.target].path = SubSeq(call.path, 1, call.level - 1)

PathInv == Placed(node) /\ (call # NoCall => Prepared)

\* A beginning of a beginning.
LEMMA PrefixesAre ==
  ASSUME NEW p \in Seq(Names), NEW k \in 0 .. Len(p), NEW j \in 0 .. k
  PROVE  SubSeq(SubSeq(p, 1, k), 1, j) = SubSeq(p, 1, j)
<1> DEFINE q == SubSeq(p, 1, k)
           s == SubSeq(q, 1, j)
           r == SubSeq(p, 1, j)
<1>1. Len(p) \in Nat /\ k \in Nat /\ j \in Nat /\ j \in 0 .. Len(p)
  OBVIOUS
<1>2. q \in Seq(Names) /\ Len(q) = k /\ \A i \in 1 .. k : q[i] = p[i]
  BY <1>1, PrefixIs
<1> HIDE DEF q
<1>3. s \in Seq(Names) /\ Len(s) = j /\ \A i \in 1 .. j : s[i] = q[i]
  <2>1. j \in 0 .. Len(q)
    BY <1>2
  <2> QED BY <1>2, <2>1, PrefixIs
<1>4. r \in Seq(Names) /\ Len(r) = j /\ \A i \in 1 .. j : r[i] = p[i]
  BY <1>1, PrefixIs
<1> HIDE DEF s, r
<1>5. \A i \in 1 .. Len(s) : s[i] = r[i]
  BY <1>1, <1>2, <1>3, <1>4
<1>6. s = r
  BY <1>3, <1>4, <1>5, SeqEqual
<1> QED BY <1>6 DEF q, s, r

\* A beginning of a path is put together from a shorter one and its last name.
LEMMA PrefixSplits ==
  ASSUME NEW p \in Seq(Names), NEW k \in 1 .. Len(p)
  PROVE  /\ Front(SubSeq(p, 1, k)) = SubSeq(p, 1, k - 1)
         /\ Append(SubSeq(p, 1, k - 1), Last(SubSeq(p, 1, k))) = SubSeq(p, 1, k)
<1> DEFINE q == SubSeq(p, 1, k)
           f == SubSeq(p, 1, k - 1)
           e == Last(q)
<1>1. Len(p) \in Nat /\ k \in Nat /\ k >= 1 /\ k \in 0 .. Len(p) /\ k - 1 \in 0 .. Len(p) /\ k - 1 \in Nat
  OBVIOUS
<1>2. q \in Seq(Names) /\ Len(q) = k /\ \A i \in 1 .. k : q[i] = p[i]
  BY <1>1, PrefixIs
<1>3. f \in Seq(Names) /\ Len(f) = k - 1 /\ \A i \in 1 .. k - 1 : f[i] = p[i]
  BY <1>1, PrefixIs
<1> HIDE DEF q, f
<1>4. Front(q) \in Seq(Names) /\ Len(Front(q)) = k - 1 /\ \A i \in 1 .. k - 1 : Front(q)[i] = q[i]
  BY <1>1, <1>2, FrontIs
<1>5. e = q[k] /\ e \in Names
  BY <1>1, <1>2 DEF Last
<1> HIDE DEF e
<1>6. Front(q) = f
  <2>1. \A i \in 1 .. Len(f) : Front(q)[i] = f[i]
    BY <1>1, <1>2, <1>3, <1>4
  <2> QED BY <1>3, <1>4, <2>1, SeqEqual
<1>7. /\ Append(f, e) \in Seq(Names) /\ Len(Append(f, e)) = Len(f) + 1
      /\ \A i \in 1 .. Len(f) : Append(f, e)[i] = f[i]
      /\ Append(f, e)[Len(f) + 1] = e
  BY <1>3, <1>5, AppendProperties
<1>8. Append(f, e) = q
  <2>1. Len(Append(f, e)) = Len(q)
    BY <1>1, <1>2, <1>3, <1>7
  <2>2. ASSUME NEW i \in 1 .. Len(q) PROVE Append(f, e)[i] = q[i]
    <3>1. CASE i = k
      BY <1>1, <1>3, <1>5, <1>7, <3>1
    <3>2. CASE i # k
      <4>1. i \in 1 .. k - 1 /\ i \in 1 .. k
        BY <1>1, <1>2, <3>2
      <4> QED BY <1>2, <1>3, <1>7, <4>1
    <3> QED BY <3>1, <3>2
  <2> QED BY <1>2, <1>7, <2>1, <2>2, SeqEqual
<1> QED BY <1>6, <1>8 DEF e, f, q

\* strncmp on whole names tells exactly the beginnings of a path.
LEMMA StringPrefixIs ==
  ASSUME NamePrefixes = {}, NEW x \in Seq(Names), NEW q \in Seq(Names)
  PROVE  StringPrefix(x, q) <=> Len(x) \in 0 .. Len(q) /\ x = SubSeq(q, 1, Len(x))
<1>1. Len(x) \in Nat /\ Len(q) \in Nat
  OBVIOUS
<1>2. ASSUME StringPrefix(x, q)
      PROVE  Len(x) \in 0 .. Len(q) /\ x = SubSeq(q, 1, Len(x))
  <2>1. CASE x = <<>>
    <3>1. Len(x) = 0 /\ 0 \in 0 .. Len(q)
      BY <1>1, <2>1
    <3>2. SubSeq(q, 1, 0) \in Seq(Names) /\ Len(SubSeq(q, 1, 0)) = 0
      BY <3>1, PrefixIs
    <3>3. SubSeq(q, 1, 0) = <<>>
      BY <3>2, EmptySeq
    <3> QED BY <2>1, <3>1, <3>3
  <2>2. CASE x # <<>>
    <3>1. Len(x) >= 1
      BY <1>1, <2>2, EmptySeq
    <3>2. /\ Len(x) <= Len(q) /\ \A i \in 1 .. Len(x) - 1 : x[i] = q[i]
          /\ x[Len(x)] = q[Len(x)]
      BY <1>2, <2>2 DEF StringPrefix
    <3>3. Len(x) \in 0 .. Len(q)
      BY <1>1, <3>2
    <3>4. /\ SubSeq(q, 1, Len(x)) \in Seq(Names) /\ Len(SubSeq(q, 1, Len(x))) = Len(x)
          /\ \A i \in 1 .. Len(x) : SubSeq(q, 1, Len(x))[i] = q[i]
      BY <3>3, PrefixIs
    <3>5. \A i \in 1 .. Len(x) : x[i] = q[i]
      BY <1>1, <3>1, <3>2
    <3>6. x = SubSeq(q, 1, Len(x))
      BY <3>4, <3>5, SeqEqual
    <3> QED BY <3>3, <3>6
  <2> QED BY <2>1, <2>2
<1>3. ASSUME Len(x) \in 0 .. Len(q), x = SubSeq(q, 1, Len(x))
      PROVE  StringPrefix(x, q)
  <2>1. \A i \in 1 .. Len(x) : x[i] = q[i]
    <3>1. \A i \in 1 .. Len(x) : SubSeq(q, 1, Len(x))[i] = q[i]
      BY <1>3, PrefixIs
    <3> QED BY <1>3, <3>1
  <2>2. CASE x = <<>>
    BY <2>2 DEF StringPrefix
  <2>3. CASE x # <<>>
    <3>1. Len(x) >= 1
      BY <1>1, <2>3, EmptySeq
    <3> QED BY <1>1, <1>3, <2>1, <3>1 DEF StringPrefix
  <2> QED BY <2>2, <2>3
<1> QED BY <1>2, <1>3

\* udir_mkdir goes as far down the way to q as there are directories: it ends at the one q is in.
LEMMA MkdirInPath ==
  ASSUME NamePrefixes = {}, Tree(node), Placed(node), NEW p \in Seq(Names), NEW k \in 1 .. Len(p),
         \A n \in 1 .. Len(node) : node[n].path # SubSeq(p, 1, k),
         \A j \in 0 .. k - 1 : \E n \in 1 .. Len(node) :
           node[n].type = "dir" /\ node[n].path = SubSeq(p, 1, j)
  PROVE  node[MkdirIn(SubSeq(p, 1, k))].path = SubSeq(p, 1, k - 1)
<1> DEFINE q == SubSeq(p, 1, k)
           d == MkdirIn(q)
           x == node[d].path
           m == Len(x)
<1>1. Len(p) \in Nat /\ k \in 0 .. Len(p) /\ k \in Nat /\ k >= 1 /\ Len(node) \in Nat
  BY DEF Tree
<1>2. q \in Seq(Names) /\ Len(q) = k
  BY <1>1, PrefixIs
<1> HIDE DEF q
<1>3. d \in 1 .. Len(node) /\ Into(d, q) = {} /\ (d = 1 \/ StringPrefix(x, q))
  BY MkdirInIs
<1> HIDE DEF d
<1>4. x \in Seq(Names) /\ m \in Nat
  <2>1. x \in Seq(Names)
    BY <1>3, NodeTypes DEF Tree
  <2> QED BY <2>1
<1>5. m \in 0 .. k /\ x = SubSeq(q, 1, m)
  <2>1. StringPrefix(x, q)
    <3>1. d = 1 => x = <<>>
      BY DEF Tree
    <3> QED BY <1>3, <3>1 DEF StringPrefix
  <2> HIDE DEF x
  <2> QED BY <1>2, <1>4, <2>1, StringPrefixIs
<1>6. x = SubSeq(p, 1, m)
  <2> HIDE DEF x
  <2>1. SubSeq(q, 1, m) = SubSeq(p, 1, m)
    BY <1>1, <1>5, PrefixesAre DEF q
  <2> QED BY <1>5, <2>1
<1>7. m # k
  <2>1. x # q
    BY <1>3 DEF q
  <2> HIDE DEF x
  <2> QED BY <1>6, <2>1 DEF q
<1>8. m = k - 1
  <2> SUFFICES ASSUME m # k - 1 PROVE FALSE
    OBVIOUS
  <2> HIDE DEF m
  <2>1. m \in Nat /\ m + 1 \in 0 .. k - 1 /\ m + 1 \in 0 .. Len(p) /\ m + 1 >= 1 /\ m + 1 \in 0 .. k
        /\ m + 1 - 1 = m
    BY <1>1, <1>4, <1>5, <1>7
  <2>2. PICK n \in 1 .. Len(node) : node[n].type = "dir" /\ node[n].path = SubSeq(p, 1, m + 1)
    BY <2>1
  <2>3. node[n].path \in Seq(Names) /\ Len(node[n].path) = m + 1
    BY <2>1, <2>2, PrefixIs
  <2>4. n \in 2 .. Len(node)
    <3>1. n # 1
      <4>1. node[1].path = <<>> /\ Len(<<>>) = 0
        BY DEF Tree
      <4> QED BY <2>1, <2>3, <4>1
    <3> QED BY <1>1, <2>2, <3>1
  <2>5. Front(node[n].path) = SubSeq(p, 1, m)
    <3> DEFINE j == m + 1
    <3>1. j \in 1 .. Len(p) /\ j - 1 = m
      BY <1>1, <2>1
    <3>2. node[n].path = SubSeq(p, 1, j)
      BY <2>2
    <3> HIDE DEF j
    <3>3. Front(SubSeq(p, 1, j)) = SubSeq(p, 1, j - 1)
      BY <3>1, PrefixSplits
    <3> QED BY <3>1, <3>2, <3>3
  <2>6. /\ node[n].parent \in 1 .. Len(node)
        /\ \E j \in 1 .. Len(node[node[n].parent].children) : node[node[n].parent].children[j] = n
    <3>1. /\ node[n].parent \in 1 .. n - 1
          /\ \E j \in 1 .. Len(node[node[n].parent].children) : node[node[n].parent].children[j] = n
      BY <2>4 DEF Tree
    <3> QED BY <1>1, <2>4, <3>1
  <2>7. node[n].parent = d
    <3>1. node[node[n].parent].path = node[d].path
      BY <1>6, <2>4, <2>5 DEF Placed
    <3> QED BY <1>3, <2>6, <3>1 DEF Placed
  <2>8. PICK j \in 1 .. Len(node[d].children) : node[d].children[j] = n
    BY <2>6, <2>7
  <2>9. StringPrefix(node[n].path, q)
    <3>1. SubSeq(q, 1, m + 1) = SubSeq(p, 1, m + 1)
      BY <1>1, <2>1, PrefixesAre DEF q
    <3> QED BY <1>2, <2>1, <2>2, <2>3, <3>1, StringPrefixIs
  <2>10. j \in DOMAIN node[d].children
    <3>1. node[d].children \in Seq(Nat)
      BY <1>3, NodeTypes DEF Tree
    <3> QED BY <2>8, <3>1
  <2>11. j \in Into(d, q)
    BY <2>2, <2>8, <2>9, <2>10 DEF Into, IsDir
  <2> QED BY <1>3, <2>11
<1> QED BY <1>6, <1>8 DEF d, q

\* A node added where its path says.
LEMMA AddedIsPlaced ==
  ASSUME NEW t, NEW u, NEW p \in 1 .. Len(t), NEW x, Tree(t), Placed(t), Added(t, u, p, x),
         x.path # <<>>, Front(x.path) = t[p].path, \A n \in 1 .. Len(t) : t[n].path # x.path
  PROVE  Placed(u)
<1>1. Len(u) = Len(t) + 1 /\ Len(t) \in Nat /\ Len(t) >= 1
  BY DEF Added, Tree
<1>2. \A n \in 1 .. Len(t) : u[n].path = t[n].path /\ u[n].parent = t[n].parent
  BY DEF Added
<1>3. u[Len(t) + 1].path = x.path /\ u[Len(t) + 1].parent = p
  BY DEF Added
<1>4. ASSUME NEW m \in 1 .. Len(u), NEW n \in 1 .. Len(u), u[m].path = u[n].path
      PROVE  m = n
  <2>1. (m \in 1 .. Len(t) \/ m = Len(t) + 1) /\ (n \in 1 .. Len(t) \/ n = Len(t) + 1)
    BY <1>1
  <2> QED BY <1>2, <1>3, <1>4, <2>1 DEF Placed
<1>5. ASSUME NEW n \in 2 .. Len(u)
      PROVE  u[n].path # <<>> /\ Front(u[n].path) = u[u[n].parent].path
  <2>1. CASE n = Len(t) + 1
    BY <1>2, <1>3, <2>1
  <2>2. CASE n # Len(t) + 1
    <3>1. n \in 2 .. Len(t) /\ n \in 1 .. Len(t)
      BY <1>1, <2>2
    <3>2. t[n].parent \in 1 .. Len(t)
      <4>1. t[n].parent \in 1 .. n - 1
        BY <3>1 DEF Tree
      <4> QED BY <1>1, <3>1, <4>1
    <3> QED BY <1>2, <3>1, <3>2 DEF Placed
  <2> QED BY <2>1, <2>2
<1> QED BY <1>4, <1>5 DEF Placed

\* A directory is created where its path says.
LEMMA MountDirPlaces ==
  ASSUME NamePrefixes = {}, UserfsInv, PathInv, MountDir
  PROVE  PathInv'
<1> DEFINE p == call.path
           k == call.level
           q == SubSeq(p, 1, k)
           parent == MkdirIn(q)
           x == [Root EXCEPT !.path = Append(node[parent].path, Last(q))]
           below(there) == [path |-> p, level |-> k + 1, target |-> there]
<1>1. call # NoCall /\ k < Len(p)
  BY DEF MountDir
<1>2. /\ Tree(node) /\ p \in Seq(Names) /\ Len(p) \in Nat /\ k \in Nat /\ Len(node) \in Nat
      /\ k \in 0 .. Len(p)
  BY <1>1, CallIs DEF UserfsInv
<1>3. Placed(node) /\ Prepared
  BY <1>1 DEF PathInv
<1>4. q \in Seq(Names) /\ Len(q) = k
  BY <1>2, PrefixIs
<1>5. \/ /\ FindPath(q) \in 1 .. Len(node) /\ node[FindPath(q)].path = q
         /\ node[FindPath(q)].type = "dir"
         /\ call' = below(FindPath(q)) /\ node' = node
      \/ /\ \A n \in 1 .. Len(node) : node[n].path # q
         /\ k >= 1 /\ call' = below(Len(node) + 1)
         /\ parent \in 1 .. Len(node)
         /\ x.type = "dir" /\ x.path = Append(node[parent].path, Last(q))
         /\ Added(node, node', parent, x)
  BY MountDirIs DEF UserfsInv
<1> HIDE DEF q, parent, x
<1>6. ASSUME NEW there \in 1 .. Len(node'), node'[there].type = "dir", node'[there].path = q, call' = below(there),
             \A n \in 1 .. Len(node') : node'[n].path # p,
             \A j \in 0 .. k - 1 : \E n \in 1 .. Len(node') :
               node'[n].type = "dir" /\ node'[n].path = SubSeq(p, 1, j)
      PROVE  Prepared'
  <2>1. call'.path = p /\ call'.level = k + 1 /\ call'.target = there
    BY <1>6
  <2>2. k + 1 - 1 = k /\ \A j \in 0 .. k : j = k \/ j \in 0 .. k - 1
    BY <1>2
  <2> HIDE DEF p, k
  <2>3. ASSUME NEW j \in 0 .. k
        PROVE  \E n \in 1 .. Len(node') : node'[n].type = "dir" /\ node'[n].path = SubSeq(p, 1, j)
    <3>1. CASE j = k
      BY <1>6, <3>1 DEF q
    <3>2. CASE j \in 0 .. k - 1
      BY <1>6, <3>2
    <3> QED BY <2>2, <3>1, <3>2
  <2>4. node'[call'.target].path = SubSeq(p, 1, k)
    BY <1>6, <2>1 DEF q
  <2>5. /\ \A n \in 1 .. Len(node') : node'[n].path # call'.path
        /\ \A j \in 0 .. call'.level - 1 : \E n \in 1 .. Len(node') :
             node'[n].type = "dir" /\ node'[n].path = SubSeq(call'.path, 1, j)
        /\ node'[call'.target].path = SubSeq(call'.path, 1, call'.level - 1)
    <3>1. call'.level - 1 = k
      BY <1>2, <2>1
    <3> HIDE DEF below
    <3> QED BY <1>6, <2>1, <2>3, <2>4, <3>1
  <2> QED BY <2>5 DEF Prepared
<1>7. CASE /\ FindPath(q) \in 1 .. Len(node) /\ node[FindPath(q)].path = q
           /\ node[FindPath(q)].type = "dir"
           /\ call' = below(FindPath(q)) /\ node' = node
  <2>1. Prepared'
    BY <1>3, <1>6, <1>7 DEF Prepared
  <2> QED BY <1>3, <1>7, <2>1 DEF PathInv
<1>8. CASE /\ \A n \in 1 .. Len(node) : node[n].path # q
           /\ k >= 1 /\ call' = below(Len(node) + 1)
           /\ parent \in 1 .. Len(node)
           /\ x.type = "dir" /\ x.path = Append(node[parent].path, Last(q))
           /\ Added(node, node', parent, x)
  <2>1. k \in 1 .. Len(p)
    BY <1>2, <1>8
  <2>2. node[parent].path = SubSeq(p, 1, k - 1)
    <3>1. /\ \A n \in 1 .. Len(node) : node[n].path # SubSeq(p, 1, k)
          /\ \A j \in 0 .. k - 1 : \E n \in 1 .. Len(node) :
               node[n].type = "dir" /\ node[n].path = SubSeq(p, 1, j)
      BY <1>3, <1>8 DEF Prepared, q
    <3> QED BY <1>2, <1>3, <2>1, <3>1, MkdirInPath DEF parent, q
  <2>3. x.path = q /\ Front(q) = node[parent].path
    BY <1>2, <1>8, <2>1, <2>2, PrefixSplits DEF q
  <2>4. q # <<>>
    BY <1>4, <2>1
  <2>5. Placed(node')
    BY <1>2, <1>3, <1>8, <2>3, <2>4, AddedIsPlaced
  <2>6. /\ Len(node') = Len(node) + 1
        /\ node'[Len(node) + 1].type = "dir" /\ node'[Len(node) + 1].path = q
        /\ \A n \in 1 .. Len(node) : node'[n].type = node[n].type /\ node'[n].path = node[n].path
    BY <1>8, <2>3 DEF Added
  <2>7. /\ Len(node) + 1 \in 1 .. Len(node')
        /\ \A n \in 1 .. Len(node) : n \in 1 .. Len(node')
        /\ \A n \in 1 .. Len(node') : n \in 1 .. Len(node) \/ n = Len(node) + 1
    BY <1>2, <2>6
  <2>8. \A n \in 1 .. Len(node') : node'[n].path # p
    <3>1. q # p
      BY <1>1, <1>2, <1>4
    <3> QED BY <1>3, <2>6, <2>7, <3>1 DEF Prepared
  <2>9. \A j \in 0 .. k - 1 : \E n \in 1 .. Len(node') :
          node'[n].type = "dir" /\ node'[n].path = SubSeq(p, 1, j)
    BY <1>3, <2>6, <2>7 DEF Prepared
  <2>10. Prepared'
    BY <1>6, <1>8, <2>6, <2>7, <2>8, <2>9
  <2> QED BY <2>5, <2>10 DEF PathInv
<1> QED BY <1>5, <1>7, <1>8

\* The file is created where its path says.
LEMMA MountAddPlaces ==
  ASSUME UserfsInv, PathInv, MountAdd
  PROVE  PathInv'
<1> DEFINE p == call.path
           x == [Root EXCEPT !.type = "file", !.path = p]
<1>1. call # NoCall /\ call' = NoCall
  BY DEF MountAdd
<1>2. Placed(node) /\ Prepared
  BY <1>1 DEF PathInv
<1>3. /\ Tree(node) /\ call.target \in 1 .. Len(node) /\ call.level = Len(p) /\ call.level >= 1
      /\ x.path = p /\ Added(node, node', call.target, x)
  BY MountAddIs DEF UserfsInv
<1>4. p \in Seq(Names) /\ Len(p) \in Nat
  BY <1>1, CallIs DEF UserfsInv
<1> HIDE DEF x, p
<1>5. Len(p) \in 1 .. Len(p)
  BY <1>3, <1>4
<1>6. SubSeq(p, 1, Len(p)) = p
  <2>1. Len(p) \in 0 .. Len(p)
    BY <1>4
  <2>2. /\ SubSeq(p, 1, Len(p)) \in Seq(Names) /\ Len(SubSeq(p, 1, Len(p))) = Len(p)
        /\ \A i \in 1 .. Len(p) : SubSeq(p, 1, Len(p))[i] = p[i]
    BY <1>4, <2>1, PrefixIs
  <2> QED BY <1>4, <2>2, SeqEqual
<1>7. Front(p) = SubSeq(p, 1, Len(p) - 1)
  BY <1>4, <1>5, <1>6, PrefixSplits
<1>8. Front(x.path) = node[call.target].path
  BY <1>2, <1>3, <1>7 DEF Prepared, p
<1>9. x.path # <<>>
  BY <1>3, <1>4, <1>5
<1>10. \A n \in 1 .. Len(node) : node[n].path # x.path
  BY <1>2, <1>3 DEF Prepared, p
<1>11. Placed(node')
  BY <1>2, <1>3, <1>8, <1>9, <1>10, AddedIsPlaced
<1> QED BY <1>1, <1>11 DEF PathInv

\* Every step puts nodes where their paths say.
LEMMA NextPlaces ==
  ASSUME NamePrefixes = {}, UserfsInv, PathInv, [UserfsNext]_userfsVars
  PROVE  PathInv'
<1>1. CASE Create
  <2>1. phase = "none" /\ node' = <<Root>> /\ call' = call
    BY <1>1 DEF Create
  <2>2. call = NoCall
    BY <2>1 DEF UserfsInv, TreeInv, Mounting
  <2>3. Len(node') = 1
    BY <2>1
  <2> QED BY <2>1, <2>2, <2>3 DEF PathInv, Placed
<1>2. CASE UserfsDestroy
  <2>1. phase = "exiting" /\ node' = <<>> /\ call' = call
    BY <1>2 DEF UserfsDestroy
  <2>2. call = NoCall
    BY <2>1 DEF UserfsInv, TreeInv, Mounting
  <2>3. Len(node') = 0
    BY <2>1
  <2> QED BY <2>1, <2>2, <2>3 DEF PathInv, Placed
<1>3. ASSUME NEW p \in Paths, MountFile(p)
      PROVE  PathInv'
  <2>1. phase = "online" /\ node' = node /\ call' = IF FindPath(p) # 0 THEN NoCall ELSE [path |-> p, level |-> 0, target |-> 0]
    BY <1>3 DEF MountFile
  <2>2. Tree(node)
    BY <2>1 DEF UserfsInv, TreeInv
  <2>3. CASE FindPath(p) # 0
    BY <2>1, <2>3 DEF PathInv
  <2>4. CASE FindPath(p) = 0
    <3>1. \A n \in 1 .. Len(node) : node[n].path # p
      BY <2>2, <2>4, FindPathIs
    <3>2. call'.path = p /\ call'.level = 0
      BY <2>1, <2>4
    <3>3. 0 .. 0 - 1 = {} /\ ~(0 >= 1)
      OBVIOUS
    <3>4. Prepared'
      BY <2>1, <3>1, <3>2, <3>3 DEF Prepared
    <3> QED BY <2>1, <3>4 DEF PathInv
  <2> QED BY <2>3, <2>4
<1>4. CASE MountDir
  BY <1>4, MountDirPlaces
<1>5. CASE MountAdd
  BY <1>5, MountAddPlaces
<1>6. CASE Exit \/ AnyRequest \/ LoopStep \/ UNCHANGED userfsVars
  <2>1. node' = node /\ call' = call
    BY <1>6 DEF Exit, AnyRequest, Request, LoopStep, Descend, VisitFile, Ascend, Reply, userfsVars, tree
  <2> QED BY <2>1 DEF PathInv, Prepared
<1> QED BY <1>1, <1>2, <1>3, <1>4, <1>5, <1>6 DEF UserfsNext

\* If no name begins another one, a file is in the directory its mount path names.  (In general
\* it is not: strncmp takes a directory whose name begins the wanted one for that one.)
THEOREM FilesAreWhereMounted == NamePrefixes = {} => (UserfsSpec => []FilesWhereMounted)
<1> SUFFICES ASSUME NamePrefixes = {} PROVE UserfsSpec => []FilesWhereMounted
  OBVIOUS
<1>1. UserfsInit => PathInv
  <2> SUFFICES ASSUME UserfsInit PROVE PathInv
    OBVIOUS
  <2>1. Len(node) = 0 /\ call = NoCall
    BY DEF UserfsInit
  <2> QED BY <2>1 DEF PathInv, Placed
<1>2. UserfsInv /\ PathInv /\ [UserfsNext]_userfsVars => PathInv'
  BY NextPlaces
<1>3. UserfsInv /\ PathInv => FilesWhereMounted
  <2> SUFFICES ASSUME UserfsInv, PathInv, NEW n \in Inodes, node[n].type = "file"
               PROVE  node[node[n].parent].path = Front(node[n].path)
    BY DEF FilesWhereMounted
  <2>1. Tree(node)
    <3>1. phase # "none"
      BY DEF Inodes, UserfsInv, TreeInv
    <3> QED BY <3>1 DEF UserfsInv, TreeInv
  <2>2. n \in 2 .. Len(node)
    BY <2>1 DEF Inodes, Tree
  <2> QED BY <2>2 DEF PathInv, Placed
<1> QED BY <1>1, <1>2, <1>3, UserfsInvHolds, PTL DEF UserfsSpec

----------------------------------------------------------------------------
(* The Robin Hood map. *)

Slot == [key : Keys \cup {None}, val : Vals \cup {KeyAsVal, Stale, None}, psl : Nat]

\* A bucket of n slots, each of them free or with a key.
IsBucket(b, n) ==
  /\ n \in Nat /\ b \in [0 .. n - 1 -> Slot]
  /\ \A i \in 0 .. n - 1 : b[i] # Free => b[i].key \in Keys

\* The slots before and after slot i in a bucket of n.
Prev(i, n) == IF i = 0 THEN n - 1 ELSE i - 1
Succ(i, n) == IF i = n - 1 THEN 0 ELSE i + 1

\* Entry e is as far from its home as its psl says when it is at slot i of n.
Distant(e, i, n) == ((hash[e.key] % n) + e.psl) % n = i

\* What RobinHoodOrder says of an entry at slot i of bucket b.
Follows(e, i, b, n) ==
  e.psl > 0 => b[Prev(i, n)] # Free /\ e.psl <= b[Prev(i, n)].psl + 1

\* A bucket of n slots as robin_map_emplace leaves it at any turn of its loop ...
Good(b, n) ==
  /\ IsBucket(b, n)
  /\ \A i \in 0 .. n - 1 : b[i] # Free => Distant(b[i], i, n)
  /\ \A i \in 0 .. n - 1 : Follows(b[i], i, b, n)

\* ... and the entry it carries, about to be compared with slot i.
Carries(e, i, b, n) ==
  /\ e \in Slot /\ e.key \in Keys /\ i \in 0 .. n - 1
  /\ Distant(e, i, n) /\ Follows(e, i, b, n)

\* What the proof needs of the types.
RobinTypeInv ==
  /\ hash \in [Keys -> Hashes] /\ pair_type \in {"string", "pointer"} /\ puts \in [Keys -> Nat]
  /\ IsBucket(old, Size(old)) /\ next \in 0 .. Size(old)
  /\ want \in Slot /\ (want # Free => want.key \in Keys /\ want.psl = 0)

\* The old bucket was full when the growth began, and is gone when it is over.
Growing ==
  /\ \A i \in DOMAIN old : old[i] # Free
  /\ IF want = Free THEN old = Slots(0)
     ELSE Size(bucket) = 2 * Size(old) + 1 /\ (probe # NoProbe => next > 0)

\* In a bucket of one slot only a free slot is probed.
SingleIsFree == Size(bucket) = 1 /\ ~Idle => bucket[0] = Free

RobinInv ==
  /\ RobinTypeInv
  /\ Good(bucket, Size(bucket))
  /\ probe # NoProbe => Carries(Carried, probe.at, bucket, Size(bucket))
  /\ Growing /\ SingleIsFree

----------------------------------------------------------------------------
(* Buckets *)

\* A free slot has the type of a slot, and a key is not None.
LEMMA FreeIsSlot == Free \in Slot /\ Free.key \notin Keys /\ Free.psl = 0
BY DistinctAssumption DEF Free, Slot

\* The size of a bucket is the number of its slots.
LEMMA SizeOfBucket ==
  ASSUME NEW n \in Nat, NEW b, DOMAIN b = 0 .. n - 1
  PROVE  Size(b) = n
<1>1. Cardinality(0 .. n - 1) = IF 0 > n - 1 THEN 0 ELSE n - 1 - 0 + 1
  BY FS_Interval
<1> QED BY <1>1 DEF Size

\* New buckets are empty and in order.
LEMMA SlotsAreFree ==
  ASSUME NEW n \in Nat
  PROVE  Good(Slots(n), n) /\ Size(Slots(n)) = n /\ \A i \in 0 .. n - 1 : Slots(n)[i] = Free
<1>1. DOMAIN Slots(n) = 0 .. n - 1 /\ \A i \in 0 .. n - 1 : Slots(n)[i] = Free
  BY DEF Slots
<1>2. Slots(n) \in [0 .. n - 1 -> Slot]
  BY FreeIsSlot DEF Slots
<1> QED BY <1>1, <1>2, SizeOfBucket, FreeIsSlot DEF Good, IsBucket, Follows

\* An index is moved on to the next slot, and the one after the last is the first.
LEMMA SuccIsNext ==
  ASSUME NEW n \in Nat \ {0}, NEW i \in 0 .. n - 1
  PROVE  /\ (i + 1) % n = Succ(i, n) /\ Succ(i, n) \in 0 .. n - 1
         /\ (i + n - 1) % n = Prev(i, n) /\ Prev(i, n) \in 0 .. n - 1
         /\ Prev(Succ(i, n), n) = i
         /\ \A j \in 0 .. n - 1 : Prev(j, n) = i => j = Succ(i, n)
<1>1. (i + 1) % n = Succ(i, n)
  <2>1. CASE i = n - 1
    <3>1. (1 * n + 0) % n = 0
      BY RemainderIsUnique
    <3>2. 1 * n + 0 = i + 1
      BY <2>1
    <3> QED BY <2>1, <3>1, <3>2 DEF Succ
  <2>2. CASE i # n - 1
    BY <2>2, SmallRemainder DEF Succ
  <2> QED BY <2>1, <2>2
<1>2. (i + n - 1) % n = Prev(i, n)
  <2>1. CASE i = 0
    BY <2>1, SmallRemainder DEF Prev
  <2>2. CASE i # 0
    <3>1. (1 * n + (i - 1)) % n = i - 1
      BY <2>2, RemainderIsUnique
    <3>2. 1 * n + (i - 1) = i + n - 1
      OBVIOUS
    <3> QED BY <2>2, <3>1, <3>2 DEF Prev
  <2> QED BY <2>1, <2>2
<1> QED BY <1>1, <1>2 DEF Succ, Prev

\* An entry carried on by one slot is one further from home.
LEMMA OneFurther ==
  ASSUME NEW n \in Nat \ {0}, NEW i \in 0 .. n - 1, hash \in [Keys -> Hashes],
         NEW e \in Slot, e.key \in Keys, Distant(e, i, n)
  PROVE  Distant([e EXCEPT !.psl = @ + 1], Succ(i, n), n)
<1> DEFINE h == hash[e.key] % n
           f == [e EXCEPT !.psl = @ + 1]
<1>1. h \in 0 .. n - 1
  BY NumberAssumption, Division
<1>2. e.psl \in Nat /\ f.key = e.key /\ f.psl = e.psl + 1
  BY DEF Slot
<1>3. (h + e.psl) % n = i
  BY DEF Distant
<1> HIDE DEF h
<1>4. (((h + e.psl) % n) + 1) % n = ((h + e.psl) + 1) % n
  <2>1. h + e.psl \in Nat
    BY <1>1, <1>2
  <2> QED BY <2>1, NextRemainder
<1>5. (h + (e.psl + 1)) % n = Succ(i, n)
  BY <1>1, <1>2, <1>3, <1>4, SuccIsNext
<1> QED BY <1>2, <1>5 DEF Distant, h

\* An entry that has not been carried yet is at home.
LEMMA AtHome ==
  ASSUME NEW n \in Nat \ {0}, NEW b, hash \in [Keys -> Hashes],
         NEW e \in Slot, e.key \in Keys, e.psl = 0
  PROVE  Carries(e, hash[e.key] % n, b, n)
<1>1. hash[e.key] \in Nat
  BY NumberAssumption
<1>2. hash[e.key] % n \in 0 .. n - 1 /\ (hash[e.key] % n) % n = hash[e.key] % n
  BY <1>1, Division, SmallRemainder, ZenonT(30)
<1>3. (hash[e.key] % n) + e.psl = hash[e.key] % n
  BY <1>2
<1> QED BY <1>2, <1>3 DEF Carries, Distant, Follows

\* Where a probe begins.
LEMMA ProbeStartsAtHome ==
  ASSUME NEW n \in Nat \ {0}, NEW b, IsBucket(b, n), hash \in [Keys -> Hashes],
         NEW e \in Slot, e.key \in Keys, e.psl = 0
  PROVE  StartProbe(e, b) = [entry |-> e, at |-> hash[e.key] % n]
<1>1. DOMAIN b = 0 .. n - 1 /\ Size(b) = n
  BY SizeOfBucket DEF IsBucket
<1>2. b # Slots(0)
  <2>1. 0 \in DOMAIN b /\ 0 \notin DOMAIN Slots(0)
    BY <1>1 DEF Slots
  <2> QED BY <2>1
<1> QED BY <1>1, <1>2 DEF StartProbe, Home

\* A bucket with one slot changed.
LEMMA ChangedSlot ==
  ASSUME NEW n \in Nat \ {0}, NEW b, IsBucket(b, n), NEW i \in 0 .. n - 1,
         NEW e \in Slot, e.key \in Keys
  PROVE  /\ IsBucket([b EXCEPT ![i] = e], n)
         /\ \A j \in 0 .. n - 1 : [b EXCEPT ![i] = e][j] = IF j = i THEN e ELSE b[j]
         /\ e # Free
BY FreeIsSlot DEF IsBucket

\* The entry that settles in the free slot it has come to leaves the bucket in order.
LEMMA SettledIsGood ==
  ASSUME NEW n \in Nat \ {0}, NEW b, Good(b, n), NEW e, NEW i, Carries(e, i, b, n), b[i] = Free
  PROVE  Good([b EXCEPT ![i] = e], n)
<1> DEFINE c == [b EXCEPT ![i] = e]
<1>1. /\ IsBucket(c, n) /\ e # Free /\ i \in 0 .. n - 1
      /\ \A j \in 0 .. n - 1 : c[j] = IF j = i THEN e ELSE b[j]
  BY ChangedSlot DEF Good, Carries
<1> HIDE DEF c
<1>2. ASSUME NEW j \in 0 .. n - 1, c[j] # Free
      PROVE  Distant(c[j], j, n)
  BY <1>1, <1>2 DEF Good, Carries
<1>3. ASSUME NEW j \in 0 .. n - 1
      PROVE  Follows(c[j], j, c, n)
  <2>1. Prev(j, n) \in 0 .. n - 1
    BY SuccIsNext
  <2>2. Follows(IF j = i THEN e ELSE b[j], j, b, n)
    BY DEF Good, Carries
  <2>3. c[Prev(j, n)] = b[Prev(j, n)] \/ (b[Prev(j, n)] = Free /\ Prev(j, n) = i)
    BY <1>1, <2>1
  <2> QED BY <1>1, <2>2, <2>3 DEF Follows
<1> QED BY <1>1, <1>2, <1>3 DEF Good, c

\* A turn of the loop at an entry: the one that is further from home stays, the other is
\* carried on, and both the bucket and the entry carried are in order.
LEMMA PassedIsGood ==
  ASSUME NEW n \in Nat \ {0}, n # 1, hash \in [Keys -> Hashes], NEW b, Good(b, n),
         NEW e, NEW i, Carries(e, i, b, n), b[i] # Free,
         NEW m \in Slot, m.key = b[i].key, m.psl = b[i].psl
  PROVE  LET swap == e.psl > b[i].psl
             on == [(IF swap THEN m ELSE e) EXCEPT !.psl = @ + 1]
             c == [b EXCEPT ![i] = IF swap THEN e ELSE m]
         IN  Good(c, n) /\ Carries(on, Succ(i, n), c, n)
<1> DEFINE swap == e.psl > b[i].psl
           stay == IF swap THEN e ELSE m
           go == IF swap THEN m ELSE e
           on == [go EXCEPT !.psl = @ + 1]
           c == [b EXCEPT ![i] = stay]
<1>1. /\ i \in 0 .. n - 1 /\ e \in Slot /\ e.key \in Keys /\ b[i] \in Slot
      /\ m.key \in Keys /\ e.psl \in Nat /\ m.psl \in Nat
  BY DEF Good, Carries, IsBucket, Slot
<1>2. stay \in Slot /\ stay.key \in Keys /\ go \in Slot /\ go.key \in Keys
  BY <1>1
<1>3. stay.psl \in Nat /\ go.psl \in Nat /\ go.psl <= stay.psl /\ b[i].psl <= stay.psl
  BY <1>1
<1>4. Distant(e, i, n) /\ Distant(m, i, n)
  BY <1>1 DEF Good, Carries, Distant
<1>5. Follows(stay, i, b, n) /\ Follows(go, i, b, n)
  BY <1>1 DEF Good, Carries, Follows
<1>6. Distant(stay, i, n) /\ Distant(go, i, n)
  BY <1>4
<1> HIDE DEF stay, go, swap
<1>7. /\ IsBucket(c, n) /\ stay # Free
      /\ \A j \in 0 .. n - 1 : c[j] = IF j = i THEN stay ELSE b[j]
  BY <1>1, <1>2, ChangedSlot DEF Good
<1>8. on \in Slot /\ on.key = go.key /\ on.psl = go.psl + 1
  BY <1>2, <1>3 DEF Slot
<1>9. Distant(on, Succ(i, n), n)
  BY <1>1, <1>2, <1>6, OneFurther
<1> HIDE DEF c, on
<1>10. ASSUME NEW j \in 0 .. n - 1
       PROVE  Follows(c[j], j, c, n)
  <2>1. Prev(j, n) \in 0 .. n - 1 /\ Prev(j, n) # j
    BY SuccIsNext DEF Prev
  <2>2. CASE j = i
    <3>1. c[j] = stay /\ c[Prev(j, n)] = b[Prev(j, n)]
      BY <1>7, <2>1, <2>2
    <3> QED BY <1>5, <2>2, <3>1 DEF Follows
  <2>3. CASE j # i
    <3>1. c[j] = b[j] /\ Follows(b[j], j, b, n) /\ b[j].psl \in Nat
      BY <1>7, <2>3 DEF Good, IsBucket, Slot
    <3>2. CASE Prev(j, n) # i
      BY <1>7, <2>1, <3>1, <3>2 DEF Follows
    <3>3. CASE Prev(j, n) = i
      <4>1. c[i] = stay /\ b[i].psl \in Nat
        BY <1>1, <1>7 DEF Slot
      <4> QED BY <1>3, <1>7, <3>1, <3>3, <4>1 DEF Follows
    <3> QED BY <3>2, <3>3
  <2> QED BY <2>2, <2>3
<1>11. ASSUME NEW j \in 0 .. n - 1, c[j] # Free
       PROVE  Distant(c[j], j, n)
  BY <1>6, <1>7, <1>11 DEF Good
<1>12. Follows(on, Succ(i, n), c, n)
  <2>1. c[Prev(Succ(i, n), n)] = stay
    BY <1>1, <1>7, SuccIsNext
  <2> QED BY <1>3, <1>7, <1>8, <2>1 DEF Follows
<1>13. Succ(i, n) \in 0 .. n - 1
  BY <1>1, SuccIsNext
<1>14. Good(c, n) /\ Carries(on, Succ(i, n), c, n)
  BY <1>2, <1>7, <1>8, <1>9, <1>10, <1>11, <1>12, <1>13 DEF Good, Carries
<1> QED BY <1>14 DEF c, on, stay, go, swap

----------------------------------------------------------------------------
(* Steps *)

\* What a step leaves in order is in order after it: the hashes do not change.
LEMMA OrderAfter ==
  ASSUME hash' = hash, NEW n, Size(bucket') = n, Good(bucket', n),
         probe' # NoProbe => Carries(probe'.entry, probe'.at, bucket', n)
  PROVE  /\ Good(bucket, Size(bucket))'
         /\ (probe # NoProbe => Carries(Carried, probe.at, bucket, Size(bucket)))'
<1>1. Size(bucket)' = n
  BY DEF Size
<1>2. Good(bucket, n)'
  BY DEF Good, Distant
<1>3. (probe # NoProbe => Carries(Carried, probe.at, bucket, n))'
  BY DEF Carries, Carried, Distant
<1> QED BY <1>1, <1>2, <1>3

\* The empty map is in order.
LEMMA RobinBegins == RobinInit => RobinInv
<1> SUFFICES ASSUME RobinInit PROVE RobinInv
  OBVIOUS
<1>1. Good(bucket, Size(bucket)) /\ Size(bucket) = 0 /\ Size(old) = 0 /\ IsBucket(old, Size(old))
  BY SlotsAreFree DEF RobinInit, Good
<1>2. DOMAIN old = {}
  BY DEF RobinInit, Slots
<1> QED BY <1>1, <1>2, FreeIsSlot DEF RobinInit, RobinInv, RobinTypeInv, Growing, SingleIsFree

\* robin_map_emplace begins to probe, or to grow a full bucket.
LEMMA RobinEmplaceKeeps ==
  ASSUME RobinInv, NEW k \in Keys, NEW v \in Vals, RobinEmplace(k, v)
  PROVE  RobinInv'
<1>1. PICK n : n = Size(bucket) /\ n \in Nat /\ Good(bucket, n) /\ IsBucket(bucket, n)
  BY DEF RobinInv, Good, IsBucket
<1>2. Entry(k, v) \in Slot /\ Entry(k, v).key = k /\ Entry(k, v).psl = 0 /\ Entry(k, v) # Free
  BY DistinctAssumption DEF Entry, Slot, Free
<1>3. want = Free /\ probe = NoProbe /\ hash' = hash /\ pair_type' = pair_type /\ old = Slots(0)
  BY DEF RobinEmplace, Idle, RobinInv, Growing
<1>4. puts' \in [Keys -> Nat]
  BY DEF RobinEmplace, RobinInv, RobinTypeInv
<1>5. CASE Full(bucket)
  <2>1. /\ want' = Entry(k, v) /\ old' = bucket /\ next' = 0 /\ probe' = NoProbe
        /\ bucket' = Slots(2 * n + 1)
    BY <1>1, <1>3, <1>5 DEF RobinEmplace
  <2>2. Good(bucket', 2 * n + 1) /\ Size(bucket') = 2 * n + 1 /\ bucket'[0] = Free
    BY <1>1, <2>1, SlotsAreFree
  <2>3. Size(old') = n /\ IsBucket(old', n) /\ \A i \in DOMAIN old' : old'[i] # Free
    BY <1>1, <1>5, <2>1 DEF Full
  <2>4. RobinTypeInv'
    <3>1. next' \in 0 .. n
      BY <1>1, <2>1
    <3> QED BY <1>2, <1>3, <1>4, <2>1, <2>3, <3>1 DEF RobinInv, RobinTypeInv, Size
  <2>5. Growing'
    BY <1>2, <2>1, <2>2, <2>3 DEF Growing, Size
  <2>6. SingleIsFree'
    BY <2>2 DEF SingleIsFree
  <2> QED BY <1>3, <2>1, <2>2, <2>4, <2>5, <2>6, OrderAfter DEF RobinInv
<1>6. CASE ~Full(bucket)
  <2>1. /\ probe' = StartProbe(Entry(k, v), bucket)
        /\ bucket' = bucket /\ old' = old /\ next' = next /\ want' = want
    BY <1>6 DEF RobinEmplace
  <2>2. PICK i \in 0 .. n - 1 : bucket[i] = Free
    BY <1>1, <1>6 DEF Full, IsBucket
  <2>3. n \in Nat \ {0}
    BY <1>1, <2>2
  <2>4. hash \in [Keys -> Hashes]
    BY DEF RobinInv, RobinTypeInv
  <2>5. probe' = [entry |-> Entry(k, v), at |-> hash[k] % n]
        /\ Carries(Entry(k, v), hash[k] % n, bucket, n)
    BY <1>1, <1>2, <2>1, <2>3, <2>4, AtHome, ProbeStartsAtHome
  <2>6. RobinTypeInv'
    BY <1>3, <1>4, <2>1 DEF RobinInv, RobinTypeInv, Size
  <2>7. Growing'
    BY <1>3, <2>1 DEF RobinInv, Growing, Size
  <2>8. SingleIsFree'
    BY <1>1, <2>1, <2>2 DEF SingleIsFree, Size
  <2> QED BY <1>1, <1>3, <2>1, <2>5, <2>6, <2>7, <2>8, OrderAfter DEF RobinInv
<1> QED BY <1>5, <1>6

\* During a growth the next entry of the old bucket is taken to its home.
LEMMA ReorderKeeps ==
  ASSUME RobinInv, Reorder
  PROVE  RobinInv'
<1> DEFINE e == Entry(old[next].key, IF pair_type = "string" THEN old[next].val ELSE Stale)
<1>1. PICK n : n = Size(bucket) /\ n \in Nat /\ Good(bucket, n) /\ IsBucket(bucket, n)
  BY DEF RobinInv, Good, IsBucket
<1>2. PICK m : m = Size(old) /\ m \in Nat /\ IsBucket(old, m)
  BY DEF RobinInv, RobinTypeInv, IsBucket
<1>3. /\ want # Free /\ next \in 0 .. m - 1 /\ next' = next + 1
      /\ probe' = StartProbe(e, bucket)
      /\ UNCHANGED <<hash, pair_type, bucket, old, want, puts>>
  BY <1>2 DEF Reorder, IsBucket
<1>4. n = 2 * m + 1 /\ n \in Nat \ {0}
  BY <1>1, <1>2, <1>3 DEF RobinInv, Growing
<1>5. e \in Slot /\ e.key \in Keys /\ e.psl = 0
  <2>1. old[next] \in Slot /\ old[next] # Free /\ old[next].key \in Keys
    BY <1>2, <1>3 DEF IsBucket, RobinInv, Growing
  <2> QED BY <2>1 DEF Entry, Slot
<1> HIDE DEF e
<1>6. hash \in [Keys -> Hashes]
  BY DEF RobinInv, RobinTypeInv
<1>7. probe' = [entry |-> e, at |-> hash[e.key] % n] /\ Carries(e, hash[e.key] % n, bucket, n)
  BY <1>1, <1>3, <1>4, <1>5, <1>6, AtHome, ProbeStartsAtHome
<1>8. RobinTypeInv'
  <2>1. next' \in 0 .. m
    BY <1>2, <1>3
  <2> QED BY <1>2, <1>3, <2>1 DEF RobinInv, RobinTypeInv, Size
<1>9. Growing'
  <2>1. next' > 0
    BY <1>2, <1>3
  <2> QED BY <1>3, <2>1 DEF RobinInv, Growing, Size
<1>10. SingleIsFree'
  <2>1. Size(bucket)' # 1
    BY <1>1, <1>2, <1>3, <1>4 DEF Size
  <2> QED BY <2>1 DEF SingleIsFree
<1> QED BY <1>1, <1>3, <1>7, <1>8, <1>9, <1>10, OrderAfter DEF RobinInv

\* When the growth is over the entry that caused it is taken to its home.
LEMMA GrowDoneKeeps ==
  ASSUME RobinInv, GrowDone
  PROVE  RobinInv'
<1>1. PICK n : n = Size(bucket) /\ n \in Nat /\ Good(bucket, n) /\ IsBucket(bucket, n)
  BY DEF RobinInv, Good, IsBucket
<1>2. /\ want # Free /\ probe = NoProbe /\ old' = Slots(0) /\ next' = 0 /\ want' = Free
      /\ probe' = StartProbe(want, bucket)
      /\ UNCHANGED <<hash, pair_type, bucket, puts>>
  BY DEF GrowDone
<1>3. n \in Nat \ {0}
  BY <1>1, <1>2 DEF RobinInv, Growing, RobinTypeInv, IsBucket
<1>4. hash \in [Keys -> Hashes] /\ want \in Slot /\ want.key \in Keys /\ want.psl = 0
  BY <1>2 DEF RobinInv, RobinTypeInv
<1>5. /\ probe' = [entry |-> want, at |-> hash[want.key] % n]
      /\ Carries(want, hash[want.key] % n, bucket, n)
  BY <1>1, <1>2, <1>3, <1>4, AtHome, ProbeStartsAtHome
<1>6. Size(old') = 0 /\ IsBucket(old', 0) /\ DOMAIN old' = {}
  BY <1>2, SlotsAreFree DEF Good, IsBucket
<1>7. RobinTypeInv'
  <2>1. next' \in 0 .. 0
    BY <1>2
  <2> QED BY <1>2, <1>6, <2>1, FreeIsSlot DEF RobinInv, RobinTypeInv, Size
<1>8. Growing'
  BY <1>2, <1>6 DEF Growing
<1>9. SingleIsFree'
  BY <1>2 DEF RobinInv, SingleIsFree, Idle, Size
<1> QED BY <1>1, <1>2, <1>5, <1>7, <1>8, <1>9, OrderAfter DEF RobinInv

\* The entry carried settles in a free slot.
LEMMA SettleKeeps ==
  ASSUME RobinInv, Settle
  PROVE  RobinInv'
<1>1. PICK n : n = Size(bucket) /\ n \in Nat /\ Good(bucket, n) /\ IsBucket(bucket, n)
  BY DEF RobinInv, Good, IsBucket
<1>2. /\ probe # NoProbe /\ bucket[probe.at] = Free /\ probe' = NoProbe
      /\ bucket' = [bucket EXCEPT ![probe.at] = Carried]
      /\ UNCHANGED <<hash, pair_type, old, next, want, puts>>
  BY DEF Settle, Met
<1>3. Carries(Carried, probe.at, bucket, n)
  BY <1>1, <1>2 DEF RobinInv
<1>4. n \in Nat \ {0}
  BY <1>1, <1>3 DEF Carries
<1>5. Good(bucket', n)
  BY <1>1, <1>2, <1>3, <1>4, SettledIsGood
<1>6. Size(bucket') = n
  BY <1>5, SizeOfBucket, <1>1 DEF Good, IsBucket
<1>7. RobinTypeInv'
  BY <1>2 DEF RobinInv, RobinTypeInv, Size
<1>8. Growing'
  BY <1>1, <1>2, <1>6 DEF RobinInv, Growing, Size
<1>9. SingleIsFree'
  <2>1. CASE want = Free
    BY <1>2, <2>1 DEF SingleIsFree, Idle
  <2>2. CASE want # Free
    BY <1>1, <1>2, <1>6, <2>2 DEF SingleIsFree, RobinInv, Growing, RobinTypeInv, IsBucket, Size
  <2> QED BY <2>1, <2>2
<1> QED BY <1>2, <1>5, <1>6, <1>7, <1>8, <1>9, OrderAfter DEF RobinInv

\* The entry carried is compared with the one it meets, which may take its place.
LEMMA PassKeeps ==
  ASSUME RobinInv, Pass
  PROVE  RobinInv'
<1> DEFINE i == probe.at
           e == Carried
           m == Marked
           swap == e.psl > bucket[i].psl
           on == [(IF swap THEN m ELSE e) EXCEPT !.psl = @ + 1]
           c == [bucket EXCEPT ![i] = IF swap THEN e ELSE m]
<1>1. PICK n : n = Size(bucket) /\ n \in Nat /\ Good(bucket, n) /\ IsBucket(bucket, n)
  BY DEF RobinInv, Good, IsBucket
<1>2. /\ probe # NoProbe /\ bucket[i] # Free
      /\ bucket' = c /\ probe' = [entry |-> on, at |-> (i + 1) % n]
      /\ UNCHANGED <<hash, pair_type, old, next, want, puts>>
  BY <1>1 DEF Pass, Met
<1>3. Carries(e, i, bucket, n)
  BY <1>1, <1>2 DEF RobinInv
<1>4. n \in Nat \ {0} /\ i \in 0 .. n - 1
  BY <1>1, <1>3 DEF Carries
<1>5. n # 1
  BY <1>1, <1>2, <1>4 DEF RobinInv, SingleIsFree, Idle
<1>6. m \in Slot /\ m.key = bucket[i].key /\ m.psl = bucket[i].psl
  <2>1. bucket[i] \in Slot
    BY <1>1, <1>4 DEF IsBucket
  <2> QED BY <2>1 DEF Marked, Met, Slot
<1>7. hash \in [Keys -> Hashes]
  BY DEF RobinInv, RobinTypeInv
<1> HIDE DEF m, e, i
<1>8. Good(c, n) /\ Carries(on, Succ(i, n), c, n)
  BY <1>1, <1>2, <1>3, <1>4, <1>5, <1>6, <1>7, PassedIsGood
<1>9. probe' = [entry |-> on, at |-> Succ(i, n)]
  BY <1>2, <1>4, SuccIsNext
<1> HIDE DEF c, on
<1>10. Good(bucket', n) /\ Carries(probe'.entry, probe'.at, bucket', n)
  BY <1>2, <1>8, <1>9
<1>11. Size(bucket') = n
  BY <1>1, <1>10, SizeOfBucket DEF Good, IsBucket
<1>12. RobinTypeInv'
  BY <1>2 DEF RobinInv, RobinTypeInv, Size
<1>13. Growing'
  BY <1>1, <1>2, <1>11 DEF RobinInv, Growing, Size
<1>14. SingleIsFree'
  BY <1>5, <1>11 DEF SingleIsFree, Size
<1> QED BY <1>2, <1>10, <1>11, <1>12, <1>13, <1>14, OrderAfter DEF RobinInv

\* Every step keeps the invariant.
LEMMA RobinStepKeeps == RobinInv /\ [RobinNext]_robinVars => RobinInv'
<1> SUFFICES ASSUME RobinInv, [RobinNext]_robinVars PROVE RobinInv'
  OBVIOUS
<1>1. CASE \E k \in Keys, v \in Vals : RobinEmplace(k, v)
  BY <1>1, RobinEmplaceKeeps
<1>2. CASE Step
  BY <1>2, ReorderKeeps, GrowDoneKeeps, SettleKeeps, PassKeeps DEF Step
<1>3. CASE UNCHANGED robinVars
  BY <1>3 DEF robinVars, RobinInv, RobinTypeInv, Good, Carries, Carried, Distant, Growing,
              SingleIsFree, Idle, Size
<1> QED BY <1>1, <1>2, <1>3 DEF RobinNext

\* The invariant holds in every reachable state.
THEOREM RobinInvariantHolds == RobinSpec => []RobinInv
BY RobinBegins, RobinStepKeeps, PTL DEF RobinSpec

\* Whatever is emplaced, in the middle of a probe and of a growth too, psl values are
\* distances from home, and no entry is more than one step worse off than the one before.
THEOREM MapIsWellFormed == RobinSpec => []WellFormed
<1>1. RobinInv => WellFormed
  <2> SUFFICES ASSUME RobinInv PROVE WellFormed
    OBVIOUS
  <2>1. PICK n : n = Size(bucket) /\ n \in Nat /\ Good(bucket, n) /\ IsBucket(bucket, n)
    BY DEF RobinInv, Good, IsBucket
  <2>2. \A b : b \in {bucket, old} => \A i \in DOMAIN b : b[i] \in Slot
    BY DEF RobinInv, RobinTypeInv, Good, IsBucket
  <2>3. probe # NoProbe => Carries(Carried, probe.at, bucket, n)
    BY <2>1 DEF RobinInv
  <2>4. probe.entry \in Slot
    <3>1. CASE probe = NoProbe
      BY <3>1, FreeIsSlot DEF NoProbe
    <3> QED BY <2>3, <3>1 DEF Carries, Carried
  <2>5. RobinTypes
    <3>1. hash \in [Keys -> Hashes] /\ pair_type \in {"string", "pointer"} /\ puts \in [Keys -> Nat]
          /\ next \in 0 .. Size(old) /\ want \in Slot
      BY DEF RobinInv, RobinTypeInv
    <3>2. probe # NoProbe => probe.at \in DOMAIN bucket
      BY <2>1, <2>3 DEF Carries, IsBucket
    <3> QED BY <2>2, <2>4, <3>1, <3>2, Zenon DEF RobinTypes, Slot
  <2>6. ASSUME NEW k, NEW i \in 0 .. n - 1
        PROVE  Home(k, bucket) = hash[k] % n
    <3>1. bucket # Slots(0)
      BY <2>1, <2>6 DEF IsBucket, Slots
    <3> QED BY <2>1, <3>1 DEF Home
  <2>7. DistanceFromHome
    <3>1. ASSUME NEW i \in DOMAIN bucket, bucket[i] # Free
          PROVE  (Home(bucket[i].key, bucket) + bucket[i].psl) % Size(bucket) = i
      BY <2>1, <2>6, <3>1 DEF Good, IsBucket, Distant
    <3>2. ASSUME probe # NoProbe
          PROVE  (Home(Carried.key, bucket) + Carried.psl) % Size(bucket) = probe.at
      <4>1. probe.at \in 0 .. n - 1 /\ Distant(Carried, probe.at, n)
        BY <2>3, <3>2 DEF Carries
      <4> QED BY <2>1, <2>6, <4>1 DEF Distant
    <3> QED BY <3>1, <3>2 DEF DistanceFromHome
  <2>8. RobinHoodOrder
    <3> SUFFICES ASSUME NEW i \in DOMAIN bucket, bucket[i].psl > 0
                 PROVE  LET before == bucket[(i + Size(bucket) - 1) % Size(bucket)]
                        IN  before # Free /\ bucket[i].psl <= before.psl + 1
      BY DEF RobinHoodOrder
    <3>1. i \in 0 .. n - 1 /\ n \in Nat \ {0} /\ Follows(bucket[i], i, bucket, n)
      BY <2>1 DEF Good, IsBucket
    <3>2. (i + Size(bucket) - 1) % Size(bucket) = Prev(i, n)
      BY <2>1, <3>1, SuccIsNext
    <3> QED BY <3>1, <3>2 DEF Follows
  <2> QED BY <2>5, <2>7, <2>8 DEF WellFormed
<1> QED BY <1>1, RobinInvariantHolds, PTL
----------------------------------------------------------------------------
(* No entry is lost *)

\* The slots with a key, those of them that a growth has not come to, and 1 for a key's own
\* entry.
Having(b, k) == {i \in DOMAIN b : b[i].key = k}
Rest(b, from, k) == {i \in DOMAIN b : i >= from /\ b[i].key = k}
One(e, k) == IF e.key = k THEN 1 ELSE 0

\* The sets counted are finite.
LEMMA CountsAreNumbers ==
  ASSUME NEW n \in Nat, NEW b, DOMAIN b = 0 .. n - 1, NEW k, NEW from
  PROVE  /\ IsFiniteSet(Having(b, k)) /\ Cardinality(Having(b, k)) \in Nat
         /\ IsFiniteSet(Rest(b, from, k)) /\ Cardinality(Rest(b, from, k)) \in Nat
<1>1. IsFiniteSet(0 .. n - 1)
  BY FS_Interval
<1>2. Having(b, k) \in SUBSET (0 .. n - 1) /\ Rest(b, from, k) \in SUBSET (0 .. n - 1)
  BY DEF Having, Rest
<1> QED BY <1>1, <1>2, FS_Subset, FS_CardinalityType

\* A bucket of free slots has no entry of any key, and all of a bucket is its rest from 0.
LEMMA EmptyCounts ==
  ASSUME NEW n \in Nat, NEW b, DOMAIN b = 0 .. n - 1, NEW k \in Keys
  PROVE  /\ Cardinality(Having(Slots(n), k)) = 0
         /\ Rest(b, 0, k) = Having(b, k)
         /\ Cardinality(Rest(b, n, k)) = 0
<1>1. Having(Slots(n), k) = {}
  BY FreeIsSlot DEF Having, Slots
<1>2. Rest(b, n, k) = {}
  BY DEF Rest
<1>3. Rest(b, 0, k) = Having(b, k)
  BY DEF Rest, Having
<1> QED BY <1>1, <1>2, <1>3, FS_EmptySet

\* The slots c are those of b, but for e in slot i.
Changed(b, c, i, e) ==
  /\ \E n \in Nat : DOMAIN b = 0 .. n - 1 /\ i \in 0 .. n - 1
  /\ DOMAIN c = DOMAIN b /\ \A j \in DOMAIN b : c[j] = IF j = i THEN e ELSE b[j]

\* The change of a slot takes the one entry out and puts the other in.
LEMMA OneSlotChanged ==
  ASSUME NEW b, NEW c, NEW i, NEW e, NEW k, Changed(b, c, i, e)
  PROVE  Cardinality(Having(c, k)) + One(b[i], k) = Cardinality(Having(b, k)) + One(e, k)
<1>0. PICK n \in Nat : DOMAIN b = 0 .. n - 1 /\ i \in 0 .. n - 1
  BY DEF Changed
<1>c. DOMAIN c = DOMAIN b /\ \A j \in DOMAIN b : c[j] = IF j = i THEN e ELSE b[j]
  BY DEF Changed
<1> DEFINE others == Having(b, k) \ {i}
<1>1. IsFiniteSet(others)
  BY <1>0, CountsAreNumbers, FS_RemoveElement
<1>2. Cardinality(others) \in Nat
  BY <1>1, FS_CardinalityType
<1>3. Cardinality(others \cup {i}) = Cardinality(others) + 1
  BY <1>1, FS_AddElement
<1>4. Having(b, k) = IF b[i].key = k THEN others \cup {i} ELSE others
  BY <1>0, <1>c DEF Having
<1>5. Having(c, k) = IF e.key = k THEN others \cup {i} ELSE others
  BY <1>0, <1>c DEF Having
<1> HIDE DEF others
<1> QED BY <1>2, <1>3, <1>4, <1>5 DEF One

\* A growth that takes an entry has one less to take.
LEMMA OneTaken ==
  ASSUME NEW n \in Nat, NEW b, DOMAIN b = 0 .. n - 1, NEW i \in 0 .. n - 1, NEW k
  PROVE  Cardinality(Rest(b, i + 1, k)) + One(b[i], k) = Cardinality(Rest(b, i, k))
<1>1. IsFiniteSet(Rest(b, i, k)) /\ Cardinality(Rest(b, i, k)) \in Nat
  BY CountsAreNumbers
<1>2. Rest(b, i + 1, k) = Rest(b, i, k) \ {i}
  BY DEF Rest
<1>3. i \in Rest(b, i, k) <=> b[i].key = k
  BY DEF Rest
<1> QED BY <1>1, <1>2, <1>3, FS_RemoveElement DEF One

\* How often a key was emplaced, as EntriesAreKept counts it.
Accounted(k) ==
  puts[k] = Cardinality(Having(bucket, k)) + Cardinality(Rest(old, next, k))
              + One(want, k) + One(Carried, k)

\* EntriesAreKept in those terms.
LEMMA KeptIsAccounted == EntriesAreKept <=> \A k \in Keys : Accounted(k)
BY DEF EntriesAreKept, Accounted, Having, Rest, One

\* Every step keeps the account.
LEMMA StepAccounts ==
  ASSUME RobinInv, [RobinNext]_robinVars, NEW k \in Keys, Accounted(k)
  PROVE  Accounted(k)'
<1>1. PICK n : n \in Nat /\ n = Size(bucket) /\ DOMAIN bucket = 0 .. n - 1
  BY DEF RobinInv, Good, IsBucket
<1>2. PICK m : m \in Nat /\ m = Size(old) /\ DOMAIN old = 0 .. m - 1
  BY DEF RobinInv, RobinTypeInv, IsBucket
<1>3. One(Free, k) = 0 /\ One(NoProbe.entry, k) = 0
  BY FreeIsSlot DEF One, NoProbe
<1>4. Cardinality(Having(bucket, k)) \in Nat /\ Cardinality(Rest(old, next, k)) \in Nat
  BY <1>1, <1>2, CountsAreNumbers
<1>5. \A e : One(e, k) \in {0, 1}
  BY DEF One
<1>6. puts \in [Keys -> Nat]
  BY DEF RobinInv, RobinTypeInv
<1>7. CASE \E j \in Keys, v \in Vals : RobinEmplace(j, v)
  <2>1. PICK j \in Keys, v \in Vals : RobinEmplace(j, v)
    BY <1>7
  <2>2. want = Free /\ probe = NoProbe /\ old = Slots(0)
    BY <2>1 DEF RobinEmplace, Idle, RobinInv, Growing
  <2>3. m = 0
    BY <1>2, <2>2, SlotsAreFree
  <2>4. next = 0 /\ Cardinality(Rest(old, next, k)) = 0
    BY <1>2, <2>3, EmptyCounts DEF RobinInv, RobinTypeInv
  <2>5. puts'[k] = puts[k] + One(Entry(j, v), k)
    BY <1>6, <2>1 DEF RobinEmplace, One, Entry
  <2>6. puts[k] = Cardinality(Having(bucket, k))
    BY <1>3, <1>4, <2>2, <2>4 DEF Accounted, Carried
  <2>7. CASE Full(bucket)
    <3>1. /\ want' = Entry(j, v) /\ old' = bucket /\ next' = 0 /\ probe' = NoProbe
          /\ bucket' = Slots(2 * n + 1)
      BY <1>1, <2>1, <2>2, <2>7 DEF RobinEmplace
    <3>2. Cardinality(Having(bucket', k)) = 0
      <4>1. 2 * n + 1 \in Nat /\ DOMAIN Slots(2 * n + 1) = 0 .. (2 * n + 1) - 1
        BY <1>1 DEF Slots
      <4> QED BY <3>1, <4>1, EmptyCounts
    <3>3. Rest(old', next', k) = Having(bucket, k)
      BY <1>1, <3>1, EmptyCounts
    <3>4. Carried' = NoProbe.entry
      BY <3>1 DEF Carried
    <3>5. puts'[k] = Cardinality(Having(bucket', k)) + Cardinality(Rest(old', next', k))
                       + One(want', k) + One(Carried', k)
      BY <1>3, <1>4, <1>5, <2>5, <2>6, <3>1, <3>2, <3>3, <3>4
    <3> QED BY <3>5 DEF Accounted, Having, Rest, One
  <2>8. CASE ~Full(bucket)
    <3>1. /\ probe' = StartProbe(Entry(j, v), bucket)
          /\ bucket' = bucket /\ old' = old /\ next' = next /\ want' = want
      BY <2>1, <2>8 DEF RobinEmplace
    <3>2. probe'.entry = Entry(j, v)
      BY <3>1 DEF StartProbe
    <3> QED BY <1>3, <1>4, <1>5, <2>2, <2>4, <2>5, <2>6, <3>1, <3>2 DEF Accounted, Carried, Having, Rest, One
  <2> QED BY <2>7, <2>8
<1>8. CASE Reorder
  <2>1. /\ probe = NoProbe /\ next \in 0 .. m - 1 /\ next' = next + 1
        /\ probe'.entry.key = old[next].key
        /\ bucket' = bucket /\ old' = old /\ want' = want /\ puts' = puts
    BY <1>2, <1>8 DEF Reorder, StartProbe, Entry
  <2>2. Cardinality(Rest(old, next + 1, k)) + One(old[next], k) = Cardinality(Rest(old, next, k))
    BY <1>2, <2>1, OneTaken
  <2>3. Cardinality(Rest(old, next + 1, k)) \in Nat
    BY <1>2, CountsAreNumbers
  <2>4. One(probe'.entry, k) = One(old[next], k)
    BY <2>1 DEF One
  <2>5. Carried' = probe'.entry /\ Carried = NoProbe.entry
    BY <2>1 DEF Carried
  <2>6. puts[k] = Cardinality(Having(bucket, k)) + Cardinality(Rest(old, next + 1, k))
                    + One(want, k) + One(probe'.entry, k)
    BY <1>3, <1>4, <1>5, <2>2, <2>3, <2>4, <2>5 DEF Accounted
  <2> QED BY <2>1, <2>5, <2>6 DEF Accounted, Having, Rest, One
<1>9. CASE GrowDone
  <2>1. /\ probe = NoProbe /\ next = m /\ old' = Slots(0) /\ next' = 0 /\ want' = Free
        /\ probe'.entry = want
        /\ bucket' = bucket /\ puts' = puts
    BY <1>2, <1>9 DEF GrowDone, StartProbe
  <2>2. Cardinality(Rest(old, next, k)) = 0
    BY <1>2, <2>1, EmptyCounts
  <2>3. Cardinality(Rest(old', next', k)) = 0
    <3>1. DOMAIN Slots(0) = 0 .. 0 - 1
      BY DEF Slots
    <3>2. Rest(Slots(0), 0, k) = Having(Slots(0), k)
      BY <3>1, EmptyCounts
    <3> QED BY <2>1, <3>1, <3>2, EmptyCounts
  <2>4. Carried = NoProbe.entry /\ Carried' = want
    BY <2>1 DEF Carried
  <2>5. puts[k] = Cardinality(Having(bucket, k)) + One(want, k)
    BY <1>3, <1>4, <1>5, <2>2, <2>4 DEF Accounted
  <2> QED BY <1>3, <1>4, <1>5, <2>1, <2>3, <2>4, <2>5 DEF Accounted, Having, Rest, One
<1>10. CASE Settle
  <2> DEFINE c == [bucket EXCEPT ![probe.at] = Carried]
  <2>1. /\ probe # NoProbe /\ bucket[probe.at] = Free /\ probe' = NoProbe /\ bucket' = c
        /\ old' = old /\ next' = next /\ want' = want /\ puts' = puts
    BY <1>10 DEF Settle, Met
  <2>2. probe.at \in 0 .. n - 1
    BY <1>1, <2>1 DEF RobinInv, Carries
  <2>3. Cardinality(Having(c, k)) + One(bucket[probe.at], k)
          = Cardinality(Having(bucket, k)) + One(Carried, k)
    <3>1. DOMAIN c = DOMAIN bucket
          /\ \A j \in DOMAIN bucket : c[j] = IF j = probe.at THEN Carried ELSE bucket[j]
      BY <1>1
    <3> HIDE DEF c
    <3>2. Changed(bucket, c, probe.at, Carried)
      BY <1>1, <2>2, <3>1 DEF Changed
    <3> QED BY <3>2, OneSlotChanged
  <2>4. Cardinality(Having(c, k)) \in Nat
    BY <1>1, CountsAreNumbers
  <2>5. Carried' = NoProbe.entry
    BY <2>1 DEF Carried
  <2> HIDE DEF c
  <2>6. puts[k] = Cardinality(Having(c, k)) + Cardinality(Rest(old, next, k))
                    + One(want, k) + One(NoProbe.entry, k)
    BY <1>3, <1>4, <1>5, <2>1, <2>3, <2>4 DEF Accounted
  <2> QED BY <2>1, <2>5, <2>6 DEF Accounted, Having, Rest, One
<1>11. CASE Pass
  <2> DEFINE swap == Carried.psl > bucket[probe.at].psl
             stay == IF swap THEN Carried ELSE Marked
             go == [(IF swap THEN Marked ELSE Carried) EXCEPT !.psl = @ + 1]
             c == [bucket EXCEPT ![probe.at] = stay]
  <2>1. /\ probe # NoProbe /\ bucket' = c /\ probe'.entry = go
        /\ old' = old /\ next' = next /\ want' = want /\ puts' = puts
    BY <1>11 DEF Pass, Met
  <2>2. probe.at \in 0 .. n - 1 /\ Carried \in Slot /\ bucket[probe.at] \in Slot
    BY <1>1, <2>1 DEF RobinInv, Carries, Good, IsBucket
  <2>3. Marked \in Slot /\ Marked.key = bucket[probe.at].key
    BY <2>2 DEF Marked, Met, Slot
  <2>4. go.key = (IF swap THEN Marked ELSE Carried).key
    BY <2>2, <2>3 DEF Slot
  <2>5. One(stay, k) + One(go, k) = One(Carried, k) + One(bucket[probe.at], k)
    BY <2>3, <2>4 DEF One
  <2> HIDE DEF stay, go
  <2>6. Cardinality(Having(c, k)) + One(bucket[probe.at], k)
          = Cardinality(Having(bucket, k)) + One(stay, k)
    <3>1. DOMAIN c = DOMAIN bucket
          /\ \A j \in DOMAIN bucket : c[j] = IF j = probe.at THEN stay ELSE bucket[j]
      BY <1>1
    <3> HIDE DEF c
    <3>2. Changed(bucket, c, probe.at, stay)
      BY <1>1, <2>2, <3>1 DEF Changed
    <3> QED BY <3>2, OneSlotChanged
  <2>7. Cardinality(Having(c, k)) \in Nat
    BY <1>1, CountsAreNumbers
  <2> HIDE DEF c
  <2>8. puts[k] = Cardinality(Having(c, k)) + Cardinality(Rest(old, next, k))
                    + One(want, k) + One(go, k)
    BY <1>4, <1>5, <2>5, <2>6, <2>7 DEF Accounted
  <2>9. Carried' = go
    BY <2>1 DEF Carried
  <2> QED BY <2>1, <2>8, <2>9 DEF Accounted, Having, Rest, One
<1>12. CASE UNCHANGED robinVars
  BY <1>12 DEF robinVars, Accounted, Carried, Having, Rest, One
<1> QED BY <1>7, <1>8, <1>9, <1>10, <1>11, <1>12 DEF RobinNext, Step

\* There are as many entries of a key as calls that emplaced it, whatever is carried along
\* and however often the bucket grows.
THEOREM NothingIsLost == RobinSpec => []EntriesAreKept
<1>1. RobinInit => EntriesAreKept
  <2> SUFFICES ASSUME RobinInit, NEW k \in Keys PROVE Accounted(k)
    BY KeptIsAccounted
  <2>1. Cardinality(Having(Slots(0), k)) = 0
    <3>1. 0 \in Nat
      OBVIOUS
    <3> QED BY <3>1, SlotsAreFree, EmptyCounts DEF Good, IsBucket
  <2>2. Rest(Slots(0), 0, k) = Having(Slots(0), k)
    BY DEF Rest, Having, Slots
  <2>3. One(Free, k) = 0 /\ One(NoProbe.entry, k) = 0
    BY FreeIsSlot DEF One, NoProbe
  <2> QED BY <2>1, <2>2, <2>3 DEF RobinInit, Accounted, Carried
<1>2. RobinInv /\ EntriesAreKept /\ [RobinNext]_robinVars => EntriesAreKept'
  <2> SUFFICES ASSUME RobinInv, EntriesAreKept, [RobinNext]_robinVars PROVE EntriesAreKept'
    OBVIOUS
  <2>1. \A k \in Keys : Accounted(k)'
    BY KeptIsAccounted, StepAccounts
  <2> QED BY <2>1 DEF EntriesAreKept, Accounted, Having, Rest, One
<1> QED BY <1>1, <1>2, RobinInvariantHolds, PTL DEF RobinSpec
=============================================================================
