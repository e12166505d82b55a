----------------------------- MODULE LoadProofs -----------------------------
(***************************************************************************)
(* A session whose packages are complete is never quit: whatever is called *)
(* knows the tickets it needs or a call made sooner brings them, every     *)
(* package gets its icon before the icons are asked for, and arguments are *)
(* what the calls take.  For any packages and firmware that are what       *)
(* SessionsAssumption says.                                                *)
(***************************************************************************)
EXTENDS SupernxProofs

\* Tickets of packages and tickets known
TicketsOf(ses, x) ==
  { f.ticket : f \in { e \in Range(ses.games[x].files) : e.kind = "tik" } }
TicketsBelow(ses, x) == UNION { TicketsOf(ses, y) : y \in 1 .. x - 1 }
Known(h, k) == { h[i].path : i \in Range(k) }

\* What is asked of and found in an archive
HasCtr(e) == \E i \in DOMAIN e.sections : e.sections[i].ctr
HasIcon(e) == \E i \in DOMAIN e.sections : e.sections[i].icon
Right(e) == IF HasCtr(e) THEN {e.rights} \ {NoName} ELSE {}

\* The tickets a call needs to be known ...
OpensArchive(c) ==
  \/ c.op = "nsp_addfile" /\ c.e.kind \in {"nca", "cnmt"}
  \/ c.op = "nsz_addfile" /\ c.e.kind \in {"nca", "ncz"}
  \/ c.op = "content_archive_create"
GameOps == {"load_game", "nsp", "nsz"}
Needs(ses, c) ==
  IF c.op \in GameOps THEN TicketsBelow(ses, c.x)
  ELSE IF OpensArchive(c) THEN Right(c.e)
  ELSE IF c.op = "get_file" /\ c.section.ctr THEN {c.e.rights} \ {NoName}
  ELSE {}

\* ... and those that are known after it
Brings(ses, h, c) ==
  IF c.op \in GameOps THEN TicketsOf(ses, c.x)
  ELSE IF c.op \in {"load_tik", "nsz_addfile"} /\ c.e.kind = "tik" THEN {c.e.ticket}
  ELSE IF c.op = "keys_db_add_ticket" THEN {h[c.x].path}
  ELSE {}

\* Every ticket a call needs is known, or brought by a call that is made sooner.
TicketsMet(ses, t, h, k) ==
  \A i \in DOMAIN t : \A r \in Needs(ses, t[i]) :
    r \in Known(h, k) \/ \E j \in 1 .. i - 1 : r \in Brings(ses, h, t[j])

\* Icons
Iconic(h, n) == \E p \in Range(h[n].romfs_list) : p.icon
HasLogo(h, l) == \E n \in Range(h[l].parts) : Iconic(h, n)

\* A call after which the package of loader l has the icon
Shows(t, h, i, l) ==
  \/ OpensArchive(t[i]) /\ t[i].owner = l /\ HasIcon(t[i].e)
  \/ t[i].op = "list_push" /\ t[i].dir = l
     /\ (Iconic(h, t[i].x)
         \/ \E j \in 1 .. i - 1 : t[j].op = "get_file" /\ t[j].nca = t[i].x /\ t[j].section.icon)

\* Every package has the icon, or a call to be made gives it one.
LogosMet(t, h, g) ==
  \A l \in Loaders(g) : HasLogo(h, l) \/ \E i \in DOMAIN t : Shows(t, h, i, l)

\* The arguments of a call
Suits(ses, h, c) ==
  /\ c.op \in {"nsp", "nsz"} => ses.games[c.x].type = c.op
  /\ c.op = "get_file" => (c.section.icon => c.section.fs = "romfs")
  /\ c.op = "content_archive_create" /\ c.owner = None => ~c.e.encrypted
  /\ c.op = "loader_get_logo" => HasLogo(h, c.x)

\* When the icons are asked for, only the end of the session is still to be made.
LogosLast(t) ==
  \A i \in DOMAIN t : t[i].op = "logos" => Len(t) = i + 1 /\ t[i + 1].op = "nx_sys_destroy"

\* The tickets, icons and arguments of all calls to be made; and the inductive invariant of
\* CompleteLoads: the process has not quit a complete session, and all is met in it.
LoadsOk(ses, t, h, g, k) ==
  /\ TicketsMet(ses, t, h, k) /\ LogosMet(t, h, g) /\ LogosLast(t)
  /\ \A i \in DOMAIN t : Suits(ses, h, t[i])
LoadsInv == Complete => ~ended /\ LoadsOk(session, todo, heap, games, tickets)

----------------------------------------------------------------------------

\* The next call replaced by those it makes
Replaces(t, q, R, n, m) ==
  /\ IsSequence(R) /\ n \in Nat \ {0} /\ m \in Nat /\ Len(R) = n - 1 + m /\ n = Len(t)
  /\ DOMAIN t = 1 .. n /\ DOMAIN q = 1 .. m /\ DOMAIN R = 1 .. n - 1 + m
  /\ \A j \in 1 .. m : R[j] = q[j]
  /\ \A i \in 2 .. n : i + m - 1 \in m + 1 .. n - 1 + m /\ R[i + m - 1] = t[i]
  /\ \A j \in m + 1 .. n - 1 + m : j - m + 1 \in 2 .. n /\ R[j] = t[j - m + 1]

\* R = q \o Tail(t) is t with its first replaced by q.
LEMMA Replacing ==
  ASSUME NEW t, IsSequence(t), t # <<>>, NEW q, IsSequence(q), NEW R, R = q \o Tail(t)
  PROVE  Replaces(t, q, R, Len(t), Len(q)) /\ t[1] = Head(t)
<1>1. PICK n, m : n = Len(t) /\ m = Len(q)
  OBVIOUS
<1>2. n \in Nat /\ DOMAIN t = 1 .. n /\ m \in Nat /\ DOMAIN q = 1 .. m /\ t \in Seq(Range(t))
  BY <1>1, SequenceIs
<1>3. n # 0
  BY <1>1, <1>2, EmptySeq
<1>4. PICK u : u = Tail(t)
  OBVIOUS
<1>5. u \in Seq(Range(t)) /\ Len(u) = n - 1 /\ \A i \in 1 .. n - 1 : u[i] = t[i + 1]
  BY <1>1, <1>2, <1>3, <1>4, HeadTailProperties
<1>6. IsSequence(u)
  BY <1>5, SequenceOf
<1>7. /\ IsSequence(q \o u) /\ Len(q \o u) = m + (n - 1)
      /\ \A i \in 1 .. m + (n - 1) : (q \o u)[i] = IF i <= m THEN q[i] ELSE u[i - m]
  <2>1. /\ IsSequence(q \o u) /\ Len(q \o u) = Len(q) + Len(u)
        /\ \A i \in 1 .. Len(q) + Len(u) : (q \o u)[i] = IF i <= Len(q) THEN q[i] ELSE u[i - Len(q)]
    BY <1>6, Joining
  <2>2. Len(q) = m /\ Len(u) = n - 1
    BY <1>1, <1>5
  <2> QED BY <2>1, <2>2
<1>8. IsSequence(R) /\ Len(R) = n - 1 + m
      /\ \A i \in 1 .. n - 1 + m : R[i] = IF i <= m THEN q[i] ELSE u[i - m]
  BY <1>2, <1>3, <1>4, <1>7
<1>9. DOMAIN R = 1 .. n - 1 + m
  BY <1>8, SequenceIs
<1>10. \A j \in 1 .. m : R[j] = q[j]
  BY <1>2, <1>3, <1>8
<1>11. ASSUME NEW i \in 2 .. n PROVE i + m - 1 \in m + 1 .. n - 1 + m /\ R[i + m - 1] = t[i]
  <2>1. i + m - 1 \in 1 .. n - 1 + m /\ ~(i + m - 1 <= m) /\ i + m - 1 - m = i - 1
          /\ i - 1 \in 1 .. n - 1
          /\ i + m - 1 \in m + 1 .. n - 1 + m /\ (i - 1) + 1 = i
    BY <1>2, <1>3, <1>11
  <2>2. PICK j, v : j = i + m - 1 /\ v = i - 1
    OBVIOUS
  <2>3. R[j] = u[v] /\ u[v] = t[v + 1]
    <3>1. j \in 1 .. n - 1 + m /\ ~(j <= m) /\ j - m = v /\ v \in 1 .. n - 1
      BY <1>2, <1>3, <1>11, <2>1, <2>2
    <3> QED BY <1>5, <1>8, <3>1
  <2> QED BY <2>1, <2>2, <2>3
<1>12. ASSUME NEW j \in m + 1 .. n - 1 + m PROVE j - m + 1 \in 2 .. n /\ R[j] = t[j - m + 1]
  <2>1. j - m + 1 \in 2 .. n /\ (j - m + 1) + m - 1 = j
    BY <1>2, <1>3, <1>12
  <2> QED BY <1>11, <2>1
<1>13. t[1] = Head(t)
  BY <1>2, <1>3, HeadTailProperties
<1> QED BY <1>1, <1>2, <1>3, <1>8, <1>9, <1>10, <1>11, <1>12, <1>13 DEF Replaces

\* What stays of the heap
Rising(h, h2) ==
  /\ DOMAIN h \subseteq DOMAIN h2
  /\ \A i \in DOMAIN h :
       /\ h2[i].path = h[i].path /\ Range(h[i].romfs_list) \subseteq Range(h2[i].romfs_list)
       /\ h[i].kind = "loader" => Range(h[i].parts) \subseteq Range(h2[i].parts)

\* An archive that has the icon keeps it ...
LEMMA IconicStays ==
  ASSUME NEW h, NEW h2, Rising(h, h2), NEW n \in DOMAIN h, Iconic(h, n)
  PROVE  Iconic(h2, n)
  BY DEF Rising, Iconic

\* ... and so does a package.
LEMMA LogoStays ==
  ASSUME NEW h, HeapOk(h), NEW h2, Rising(h, h2), NEW l \in DOMAIN h, h[l].kind = "loader",
         HasLogo(h, l)
  PROVE  HasLogo(h2, l)
<1>1. PICK n \in Range(h[l].parts) : Iconic(h, n)
  BY DEF HasLogo
<1>2. n \in DOMAIN h /\ n \in Range(h2[l].parts)
  BY <1>1, ObjectFacts DEF Rising
<1> QED BY <1>1, <1>2, IconicStays DEF HasLogo

\* What a call brings does not change with the heap.
LEMMA BringsStays ==
  ASSUME NEW ses, NEW h, NEW h2, Rising(h, h2), NEW g, NEW c, IsCall(ses, h, g, c)
  PROVE  Brings(ses, h2, c) = Brings(ses, h, c)
<1>1. CASE c.op = "keys_db_add_ticket"
  <2>1. c.x \in DOMAIN h
    BY <1>1 DEF IsCall
  <2> QED BY <1>1, <2>1 DEF Rising, Brings
<1>2. CASE c.op # "keys_db_add_ticket"
  BY <1>2 DEF Brings
<1> QED BY <1>1, <1>2

\* The loaders of the games are loaders.
LEMMA LoadersAre ==
  ASSUME NEW h, NEW g, GamesOk(h, g), NEW l \in Loaders(g)
  PROVE  l \in DOMAIN h /\ h[l].kind = "loader"
  BY DEF GamesOk, Loaders, IsPackageOver

\* Tickets stay met.
LEMMA TicketsStep ==
  ASSUME NEW ses, NEW t, NEW q, NEW R, NEW n, NEW m, Replaces(t, q, R, n, m),
         NEW h, NEW k, NEW h2, NEW k2, TicketsMet(ses, t, h, k),
         Known(h, k) \subseteq Known(h2, k2),
         \A i \in DOMAIN t : Brings(ses, h2, t[i]) = Brings(ses, h, t[i]),
         \A r \in Brings(ses, h, t[1]) : r \in Known(h2, k2)
           \/ \E j \in DOMAIN q : r \in Brings(ses, h2, q[j]),
         \A i \in DOMAIN q : \A r \in Needs(ses, q[i]) :
            r \in Known(h2, k2) \/ r \in Needs(ses, t[1])
              \/ \E j \in 1 .. i - 1 : r \in Brings(ses, h2, q[j])
  PROVE  TicketsMet(ses, R, h2, k2)
<1>0. n \in Nat \ {0} /\ m \in Nat /\ DOMAIN t = 1 .. n
  BY DEF Replaces
<1>1. SUFFICES ASSUME NEW i \in DOMAIN R, NEW r \in Needs(ses, R[i]), r \notin Known(h2, k2)
               PROVE  \E j \in 1 .. i - 1 : r \in Brings(ses, h2, R[j])
  BY DEF TicketsMet
<1>2. r \notin Needs(ses, t[1])
  <2>1. 1 \in DOMAIN t /\ 1 .. 1 - 1 = {}
    BY DEF Replaces
  <2> QED BY <1>1, <2>1 DEF TicketsMet
<1>3. CASE i \in 1 .. m
  <2>1. R[i] = q[i] /\ i \in DOMAIN q
    BY <1>3 DEF Replaces
  <2>2. PICK j \in 1 .. i - 1 : r \in Brings(ses, h2, q[j])
    BY <1>1, <1>2, <2>1
  <2>3. R[j] = q[j]
    BY <1>3, <2>2 DEF Replaces
  <2> QED BY <2>2, <2>3
<1>4. CASE i \notin 1 .. m
  <2>1. i \in m + 1 .. n - 1 + m
    BY <1>1, <1>4 DEF Replaces
  <2>2. PICK a : a = i - m + 1
    OBVIOUS
  <2>3. a \in 2 .. n /\ R[i] = t[a] /\ a \in DOMAIN t
    BY <2>1, <2>2 DEF Replaces
  <2>4. PICK b \in 1 .. a - 1 : r \in Brings(ses, h, t[b])
    BY <1>1, <2>3 DEF TicketsMet
  <2>5. CASE b = 1
    <3>1. PICK j \in DOMAIN q : r \in Brings(ses, h2, q[j])
      BY <1>1, <2>4, <2>5
    <3>2. j \in 1 .. i - 1 /\ R[j] = q[j]
      BY <2>1, <3>1 DEF Replaces
    <3> QED BY <3>1, <3>2
  <2>6. CASE b # 1
    <3>1. b \in 2 .. n /\ b \in DOMAIN t /\ b + m - 1 \in 1 .. i - 1
      BY <1>0, <2>1, <2>2, <2>3, <2>4, <2>6
    <3>2. PICK j : j = b + m - 1
      OBVIOUS
    <3>3. R[j] = t[b]
      BY <3>1, <3>2 DEF Replaces
    <3> QED BY <2>4, <3>1, <3>2, <3>3
  <2> QED BY <2>5, <2>6
<1> QED BY <1>3, <1>4

\* Icons stay to be shown.
LEMMA ShowsStays ==
  ASSUME NEW t, NEW q, NEW R, NEW n, NEW m, Replaces(t, q, R, n, m), NEW ses, NEW g,
         NEW h, NEW h2, Rising(h, h2), NEW a \in 2 .. n, IsCall(ses, h, g, t[a]), NEW l,
         Shows(t, h, a, l),
         t[1].op = "get_file" /\ t[1].section.icon => Iconic(h2, t[1].nca)
  PROVE  Shows(R, h2, a + m - 1, l)
<1>1. PICK i : i = a + m - 1
  OBVIOUS
<1>2. R[i] = t[a] /\ i \in Nat /\ a \in Nat /\ m \in Nat
  BY <1>1 DEF Replaces
<1>3. CASE OpensArchive(t[a])
  <2>1. t[a].op # "list_push"
    BY <1>3 DEF OpensArchive
  <2> QED BY <1>1, <1>2, <1>3, <2>1 DEF Shows
<1>4. CASE t[a].op = "list_push"
  <2>1. t[a].dir = l /\ t[a].x \in DOMAIN h
    BY <1>4 DEF IsCall, Shows, OpensArchive
  <2>2. CASE Iconic(h, t[a].x)
    <3>1. Iconic(h2, t[a].x)
      BY <2>1, <2>2, IconicStays
    <3> QED BY <1>1, <1>2, <1>4, <2>1, <3>1 DEF Shows
  <2>3. CASE ~Iconic(h, t[a].x)
    <3>1. PICK b \in 1 .. a - 1 : t[b].op = "get_file" /\ t[b].nca = t[a].x /\ t[b].section.icon
      BY <1>4, <2>3 DEF Shows, OpensArchive
    <3>2. CASE b = 1
      <4>1. Iconic(h2, t[a].x)
        BY <3>1, <3>2
      <4> QED BY <1>1, <1>2, <1>4, <2>1, <4>1 DEF Shows
    <3>3. CASE b # 1
      <4>1. b \in 2 .. n /\ b + m - 1 \in 1 .. i - 1
        BY <1>1, <1>2, <3>1, <3>3 DEF Replaces
      <4>2. PICK j : j = b + m - 1
        OBVIOUS
      <4>3. R[j] = t[b] /\ j \in 1 .. i - 1
        BY <4>1, <4>2 DEF Replaces
      <4>4. \E c \in 1 .. i - 1 : R[c].op = "get_file" /\ R[c].nca = R[i].x /\ R[c].section.icon
        BY <1>2, <3>1, <4>3
      <4> QED BY <1>1, <1>2, <1>4, <2>1, <4>4 DEF Shows
    <3> QED BY <3>2, <3>3
  <2> QED BY <2>2, <2>3
<1> QED BY <1>3, <1>4 DEF Shows

\* Every package has its icon, or is still to get it.
LEMMA IconsStep ==
  ASSUME NEW t, NEW q, NEW R, NEW n, NEW m, Replaces(t, q, R, n, m), NEW ses, NEW g, NEW g2,
         NEW h, HeapOk(h), GamesOk(h, g), NEW h2, Rising(h, h2),
         \A i \in DOMAIN t : IsCall(ses, h, g, t[i]),
         LogosMet(t, h, g),
         t[1].op = "get_file" /\ t[1].section.icon => Iconic(h2, t[1].nca),
         \A l \in Loaders(g2) \ Loaders(g) : \E i \in DOMAIN q : Shows(q, h2, i, l),
         \A l \in Loaders(g) : Shows(t, h, 1, l) => HasLogo(h2, l)
           \/ \E i \in DOMAIN q : Shows(q, h2, i, l)
  PROVE  LogosMet(R, h2, g2)
<1>2. ASSUME NEW l, NEW i \in DOMAIN q, Shows(q, h2, i, l)
      PROVE \E a \in DOMAIN R : Shows(R, h2, a, l)
  <2>1. i \in DOMAIN R /\ R[i] = q[i] /\ \A j \in 1 .. i - 1 : R[j] = q[j]
    BY DEF Replaces
  <2>2. Shows(R, h2, i, l)
    BY <1>2, <2>1 DEF Shows
  <2> QED BY <2>1, <2>2
<1>1. ASSUME NEW l \in Loaders(g2) PROVE HasLogo(h2, l) \/ \E i \in DOMAIN R : Shows(R, h2, i, l)
  <2>3. CASE l \notin Loaders(g)
    BY <1>1, <1>2, <2>3
  <2>4. CASE l \in Loaders(g)
    <3>1. l \in DOMAIN h /\ h[l].kind = "loader"
      BY <2>4, LoadersAre
    <3>2. CASE HasLogo(h, l)
      BY <3>1, <3>2, LogoStays
    <3>3. CASE \E a \in DOMAIN t : Shows(t, h, a, l)
      <4>1. PICK a \in DOMAIN t : Shows(t, h, a, l)
        BY <3>3
      <4>2. CASE a = 1
        BY <1>2, <2>4, <4>1, <4>2
      <4>3. CASE a # 1
        <5>1. a \in 2 .. n /\ a + m - 1 \in DOMAIN R
          BY <4>1, <4>3 DEF Replaces
        <5>2. Shows(R, h2, a + m - 1, l)
          BY <4>1, <5>1, ShowsStays
        <5> QED BY <5>1, <5>2
      <4> QED BY <4>2, <4>3
    <3> QED BY <2>4, <3>2, <3>3 DEF LogosMet
  <2> QED BY <2>3, <2>4
<1> QED BY <1>1 DEF LogosMet

\* Steps of the session
LoadsWell == LoadsOk(session, todo, heap, games, tickets)

\* The icons are still asked for last.
LEMMA LastStays ==
  ASSUME NEW t, NEW q, NEW R, NEW n, NEW m, Replaces(t, q, R, n, m), LogosLast(t),
         \A j \in DOMAIN q : q[j].op # "logos"
  PROVE  LogosLast(R)
<1>1. SUFFICES ASSUME NEW i \in DOMAIN R, R[i].op = "logos"
      PROVE Len(R) = i + 1 /\ R[i + 1].op = "nx_sys_destroy"
  BY DEF LogosLast
<1>2. n \in Nat \ {0} /\ m \in Nat /\ DOMAIN t = 1 .. n /\ Len(t) = n /\ Len(R) = n - 1 + m
  BY DEF Replaces
<1>3. i \in m + 1 .. n - 1 + m
  BY <1>1 DEF Replaces
<1>4. PICK a : a = i - m + 1
  OBVIOUS
<1>5. a \in 2 .. n /\ R[i] = t[a]
  BY <1>3, <1>4 DEF Replaces
<1>6. n = a + 1 /\ t[a + 1].op = "nx_sys_destroy"
  <2>1. a \in DOMAIN t /\ t[a].op = "logos"
    BY <1>1, <1>2, <1>5
  <2>2. Len(t) = a + 1 /\ t[a + 1].op = "nx_sys_destroy"
    BY <2>1 DEF LogosLast
  <2> QED BY <1>2, <2>2
<1>7. R[n + m - 1] = t[n]
  <2>1. n \in 2 .. n
    BY <1>2, <1>5, <1>6
  <2> QED BY <2>1 DEF Replaces
<1>8. n + m - 1 = i + 1 /\ n - 1 + m = i + 1
  BY <1>2, <1>3, <1>4, <1>6
<1> QED BY <1>2, <1>6, <1>7, <1>8

\* The arguments of a call still suit it.
LEMMA SuitsStays ==
  ASSUME NEW ses, NEW h, HeapOk(h), NEW h2, Rising(h, h2), NEW g, GamesOk(h, g), NEW c,
         IsCall(ses, h, g, c), Suits(ses, h, c)
  PROVE  Suits(ses, h2, c)
<1>1. c.op = "loader_get_logo" => HasLogo(h2, c.x)
  <2>1. SUFFICES ASSUME c.op = "loader_get_logo" PROVE HasLogo(h2, c.x)
    OBVIOUS
  <2>2. c.x \in Loaders(g) /\ HasLogo(h, c.x)
    BY <2>1 DEF IsCall, Suits
  <2> QED BY <2>2, LoadersAre, LogoStays
<1> QED BY <1>1 DEF Suits

\* All calls have their arguments.
LEMMA CallsAre ==
  ASSUME Ok
  PROVE  /\ HeapOk(heap) /\ GamesOk(heap, games) /\ IsSequence(todo)
         /\ \A i \in DOMAIN todo : IsCall(session, heap, games, todo[i])
<1>1. HeapOk(heap) /\ GamesOk(heap, games) /\ IsSequence(todo)
      /\ \A d \in Turns(todo) : IsCall(session, heap, games, At(todo, d))
  BY DEF Ok, StateOk, ListsOk, CallsOk
<1>2. ASSUME NEW i \in DOMAIN todo PROVE IsCall(session, heap, games, todo[i])
  <2>1. PICK n : n = Len(todo)
    OBVIOUS
  <2>2. n \in Nat /\ DOMAIN todo = 1 .. n
    BY <1>1, <2>1, SequenceIs
  <2>3. n + 1 - i \in 1 .. n /\ n + 1 - (n + 1 - i) = i
    BY <1>2, <2>2
  <2>4. PICK d : d = n + 1 - i
    OBVIOUS
  <2>5. d \in Turns(todo) /\ At(todo, d) = todo[i]
    BY <2>1, <2>3, <2>4 DEF Turns, At
  <2> QED BY <1>1, <2>5
<1> QED BY <1>1, <1>2

\* What a step must show
Meets(ses, t, q, h, h2, k2) ==
  /\ \A r \in Brings(ses, h, t[1]) : r \in Known(h2, k2)
       \/ \E j \in DOMAIN q : r \in Brings(ses, h2, q[j])
  /\ \A i \in DOMAIN q : \A r \in Needs(ses, q[i]) :
       r \in Known(h2, k2) \/ r \in Needs(ses, t[1])
         \/ \E j \in 1 .. i - 1 : r \in Brings(ses, h2, q[j])

\* ... of icons
ShowsOn(t, q, h, g, h2, g2) ==
  /\ t[1].op = "get_file" /\ t[1].section.icon => Iconic(h2, t[1].nca)
  /\ \A l \in Loaders(g2) \ Loaders(g) : \E i \in DOMAIN q : Shows(q, h2, i, l)
  /\ \A l \in Loaders(g) : Shows(t, h, 1, l) => HasLogo(h2, l)
       \/ \E i \in DOMAIN q : Shows(q, h2, i, l)

\* A call that hands on what it needs, brings and shows keeps all met.
LEMMA LoadsStep ==
  ASSUME Ok, LoadsWell, todo # <<>>, NEW q, IsSequence(q), Then(q), session' = session,
         Rising(heap, heap'),
         Known(heap, tickets) \subseteq Known(heap', tickets'),
         \A j \in DOMAIN q : Suits(session, heap', q[j]) /\ q[j].op # "logos",
         Meets(session, todo, q, heap, heap', tickets'),
         ShowsOn(todo, q, heap, games, heap', games')
  PROVE  LoadsWell'
<1>1. PICK t, h, g, k, R, h2, g2, k2, n, m :
        /\ t = todo /\ h = heap /\ g = games /\ k = tickets
        /\ R = todo' /\ h2 = heap' /\ g2 = games' /\ k2 = tickets' /\ n = Len(todo) /\ m = Len(q)
  OBVIOUS
<1>2. /\ HeapOk(h) /\ GamesOk(h, g) /\ IsSequence(t)
           /\ \A i \in DOMAIN t : IsCall(session, h, g, t[i])
  BY <1>1, CallsAre
<1>3. R = q \o Tail(t)
  BY <1>1 DEF Then
<1>4. Replaces(t, q, R, n, m)
  BY <1>1, <1>2, <1>3, Replacing
<1>5. TicketsMet(session, t, h, k) /\ LogosMet(t, h, g) /\ LogosLast(t)
        /\ \A i \in DOMAIN t : Suits(session, h, t[i])
  BY <1>1 DEF LoadsWell, LoadsOk
<1>6. Rising(h, h2) /\ Known(h, k) \subseteq Known(h2, k2)
  BY <1>1
<1>7. \A j \in DOMAIN q : Suits(session, h2, q[j]) /\ q[j].op # "logos"
  BY <1>1
<1>8. Meets(session, t, q, h, h2, k2) /\ ShowsOn(t, q, h, g, h2, g2)
  BY <1>1
<1>9. TicketsMet(session, R, h2, k2)
  <2>1. \A i \in DOMAIN t : Brings(session, h2, t[i]) = Brings(session, h, t[i])
    BY <1>2, <1>6, BringsStays
  <2> QED BY <1>4, <1>5, <1>6, <1>8, <2>1, TicketsStep DEF Meets
<1>10. LogosMet(R, h2, g2)
  BY <1>2, <1>4, <1>5, <1>6, <1>8, IconsStep DEF ShowsOn
<1>11. LogosLast(R)
  BY <1>4, <1>5, <1>7, LastStays
<1>12. ASSUME NEW i \in DOMAIN R PROVE Suits(session, h2, R[i])
  <2>1. CASE i \in 1 .. m
    <3>1. R[i] = q[i] /\ i \in DOMAIN q
      BY <1>4, <2>1 DEF Replaces
    <3> QED BY <1>7, <3>1
  <2>2. CASE i \notin 1 .. m
    <3>1. i - m + 1 \in DOMAIN t /\ R[i] = t[i - m + 1]
      BY <1>4, <1>12, <2>2 DEF Replaces
    <3>2. PICK a : a = i - m + 1
      OBVIOUS
    <3>3. IsCall(session, h, g, t[a]) /\ Suits(session, h, t[a])
      BY <1>2, <1>5, <3>1, <3>2
    <3> QED BY <1>2, <1>6, <3>1, <3>2, <3>3, SuitsStays
  <2> QED BY <2>1, <2>2
<1>13. LoadsOk(session, R, h2, g2, k2)
  BY <1>9, <1>10, <1>11, <1>12 DEF LoadsOk
<1> QED BY <1>1, <1>13 DEF LoadsWell

\* Calls that need, bring and show nothing
Giving == GameOps \cup {"load_tik", "nsz_addfile", "keys_db_add_ticket", "nsp_addfile",
                        "content_archive_create", "list_push", "get_file"}

\* Those that may be put first
PlainOps == Ops \ (GameOps \cup {"nsp_addfile", "nsz_addfile", "content_archive_create", "get_file",
                              "loader_get_logo", "logos"})
AllIn(q, S) == IsSequence(q) /\ \A j \in DOMAIN q : q[j].op \in S
IsPlain(q) == AllIn(q, PlainOps)
MakesPlain == \E q : IsPlain(q) /\ Then(q)

\* A step that makes plain calls, and was nothing else itself, keeps all met.
LEMMA PlainStep ==
  ASSUME Ok, LoadsWell, NEW name, Calling(name), name \notin Giving, MakesPlain,
         Rising(heap, heap'),
         session' = session, games' = games, tickets' = tickets
  PROVE  LoadsWell'
<1>1. PICK q : IsSequence(q) /\ Then(q) /\ \A j \in DOMAIN q : q[j].op \in PlainOps
  BY DEF MakesPlain, IsPlain, AllIn
<1>2. todo # <<>> /\ Head(todo).op = name /\ ListOk(heap, tickets, "tik") /\ IsSequence(todo)
  BY DEF Calling, Ok, StateOk, ListsOk, CallsOk
<1>3. todo[1] = Head(todo)
  BY <1>1, <1>2, Replacing DEF Then
<1>4. Known(heap, tickets) \subseteq Known(heap', tickets')
  BY <1>2 DEF Known, ListOk, IsAlone, Rising
<1>5. \A j \in DOMAIN q : Suits(session, heap', q[j]) /\ q[j].op # "logos"
  BY <1>1 DEF PlainOps, Suits, GameOps
<1>6. Meets(session, todo, q, heap, heap', tickets')
  <2>1. Brings(session, heap, todo[1]) = {}
    BY <1>2, <1>3 DEF Brings, Giving
  <2>2. \A j \in DOMAIN q : Needs(session, q[j]) = {}
    BY <1>1 DEF PlainOps, Needs, OpensArchive
  <2> QED BY <2>1, <2>2 DEF Meets
<1>7. ShowsOn(todo, q, heap, games, heap', games')
  <2>1. \A l : ~Shows(todo, heap, 1, l)
    BY <1>2, <1>3 DEF Shows, Giving, OpensArchive
  <2> QED BY <1>2, <1>3, <2>1 DEF ShowsOn, Giving
<1> QED BY <1>1, <1>2, <1>4, <1>5, <1>6, <1>7, LoadsStep

\* Calls before calls
LEMMA AllJoin ==
  ASSUME NEW S, NEW p, NEW q, AllIn(p, S), AllIn(q, S)
  PROVE  AllIn(p \o q, S)
<1>1. PICK r, a, b : r = p \o q /\ a = Len(p) /\ b = Len(q)
  OBVIOUS
<1>2. /\ IsSequence(r) /\ Len(r) = a + b
      /\ \A i \in 1 .. a + b : r[i] = IF i <= a THEN p[i] ELSE q[i - a]
  BY <1>1, Joining DEF AllIn
<1>3. a \in Nat /\ DOMAIN p = 1 .. a /\ b \in Nat /\ DOMAIN q = 1 .. b
  BY <1>1, SequenceIs DEF AllIn
<1>4. DOMAIN r = 1 .. a + b
  BY <1>2, SequenceIs
<1>5. ASSUME NEW i \in DOMAIN r PROVE r[i].op \in S
  <2>1. CASE i <= a
    <3>1. i \in DOMAIN p /\ r[i] = p[i]
      BY <1>2, <1>3, <1>4, <1>5, <2>1
    <3> QED BY <3>1 DEF AllIn
  <2>2. CASE ~(i <= a)
    <3>1. PICK j : j = i - a
      OBVIOUS
    <3>2. j \in DOMAIN q /\ r[i] = q[j]
      BY <1>2, <1>3, <1>4, <1>5, <2>2, <3>1
    <3> QED BY <3>2 DEF AllIn
  <2> QED BY <2>1, <2>2
<1> QED BY <1>1, <1>2, <1>5 DEF AllIn

\* A call for each of a sequence
LEMMA AllEach ==
  ASSUME NEW S, NEW s, IsSequence(s), NEW name \in S, NEW dir
  PROVE  AllIn(Each(name, s), S) /\ AllIn(EachOn(name, dir, s), S)
<1>1. PICK p, q : p = Each(name, s) /\ q = EachOn(name, dir, s)
  OBVIOUS
<1>2. /\ IsSequence(p) /\ DOMAIN p = DOMAIN s /\ \A a \in DOMAIN s : p[a] = Call(name, s[a])
      /\ IsSequence(q) /\ DOMAIN q = DOMAIN s /\ \A a \in DOMAIN s : q[a] = CallOn(name, dir, s[a])
  BY <1>1, EachFacts
<1> QED BY <1>1, <1>2 DEF AllIn, Call, CallOn

\* Few calls
LEMMA AllFew ==
  ASSUME NEW S, NEW a, NEW b, NEW c, {a.op, b.op, c.op} \subseteq S
  PROVE  AllIn(<<>>, S) /\ AllIn(<<a>>, S) /\ AllIn(<<a, b>>, S) /\ AllIn(<<a, b, c>>, S)
  BY Small DEF AllIn

\* Plain calls
LEMMA PlainJoin ==
  ASSUME NEW p, NEW q, IsPlain(p), IsPlain(q)
  PROVE  IsPlain(p \o q)
  BY AllJoin DEF IsPlain

\* A plain call for each of a sequence
LEMMA PlainEach ==
  ASSUME NEW s, IsSequence(s), NEW name \in PlainOps, NEW dir
  PROVE  IsPlain(Each(name, s)) /\ IsPlain(EachOn(name, dir, s))
  BY AllEach DEF IsPlain

\* Few plain calls
LEMMA PlainFew ==
  ASSUME NEW a, NEW b, NEW c, {a.op, b.op, c.op} \subseteq PlainOps
  PROVE  IsPlain(<<>>) /\ IsPlain(<<a>>) /\ IsPlain(<<a, b>>) /\ IsPlain(<<a, b, c>>)
  BY AllFew DEF IsPlain

\* What the operations do to the heap
LEMMA RisingSame ==
  ASSUME NEW h
  PROVE  Rising(h, h)
  BY DEF Rising

\* One change after another
LEMMA RisingOn ==
  ASSUME NEW h, NEW h1, NEW h2, Rising(h, h1), Rising(h1, h2),
         \A i \in DOMAIN h : h1[i].kind = h[i].kind
  PROVE  Rising(h, h2)
  BY DEF Rising

\* An object more
LEMMA RisingAppend ==
  ASSUME NEW h, IsSequence(h), NEW o
  PROVE  Rising(h, Append(h, o)) /\ IsSequence(Append(h, o)) /\ Len(Append(h, o)) = Len(h) + 1
         /\ \A i \in DOMAIN h : i \in DOMAIN Append(h, o) /\ Append(h, o)[i] = h[i]
         /\ Len(h) + 1 \in DOMAIN Append(h, o) /\ Append(h, o)[Len(h) + 1] = o
<1>1. PICK h1, n : h1 = Append(h, o) /\ n = Len(h)
  OBVIOUS
<1>2. n \in Nat /\ DOMAIN h = 1 .. n
  BY <1>1, SequenceIs
<1>3. IsSequence(h1) /\ Len(h1) = n + 1 /\ DOMAIN h1 = 1 .. n + 1 /\ h1[n + 1] = o
        /\ \A i \in DOMAIN h : h1[i] = h[i]
  BY <1>1, Behind
<1>4. DOMAIN h \subseteq DOMAIN h1 /\ n + 1 \in DOMAIN h1
  BY <1>2, <1>3
<1>5. Rising(h, h1)
  BY <1>3, <1>4 DEF Rising
<1> QED BY <1>1, <1>3, <1>4, <1>5

\* Two objects more
LEMMA RisingAppends ==
  ASSUME NEW h, IsSequence(h), NEW a, NEW b
  PROVE  Rising(h, h \o <<a, b>>) /\ IsSequence(h \o <<a, b>>) /\ Len(h \o <<a, b>>) = Len(h) + 2
         /\ \A i \in DOMAIN h : i \in DOMAIN (h \o <<a, b>>) /\ (h \o <<a, b>>)[i] = h[i]
         /\ (h \o <<a, b>>)[Len(h) + 1] = a /\ (h \o <<a, b>>)[Len(h) + 2] = b
<1>1. PICK h1, h2, n : h1 = Append(h, a) /\ h2 = Append(h1, b) /\ n = Len(h)
  OBVIOUS
<1>2. h \in Seq(Range(h)) /\ n \in Nat /\ DOMAIN h = 1 .. n
  BY <1>1, SequenceIs
<1>3. h \o <<a, b>> = h2
  <2>1. h \in Seq(Range(h) \cup {a, b})
    BY <1>2
  <2> QED BY <1>1, <2>1
<1>4. /\ Rising(h, h1) /\ IsSequence(h1) /\ Len(h1) = n + 1 /\ h1[n + 1] = a /\ n + 1 \in DOMAIN h1
      /\ \A i \in DOMAIN h : i \in DOMAIN h1 /\ h1[i] = h[i]
  BY <1>1, RisingAppend
<1>5. /\ Rising(h1, h2) /\ IsSequence(h2) /\ Len(h2) = Len(h1) + 1 /\ h2[Len(h1) + 1] = b
      /\ \A i \in DOMAIN h1 : i \in DOMAIN h2 /\ h2[i] = h1[i]
  BY <1>1, <1>4, RisingAppend
<1>6. Rising(h, h2)
  BY <1>4, <1>5, RisingOn
<1>7. Len(h2) = n + 2 /\ h2[n + 1] = a /\ h2[n + 2] = b /\ \A i \in DOMAIN h : i \in DOMAIN h2
        /\ h2[i] = h[i]
  <2>1. (n + 1) + 1 = n + 2
    BY <1>2
  <2> QED BY <1>4, <1>5, <2>1
<1> QED BY <1>1, <1>3, <1>5, <1>6, <1>7

\* One object changed
Alike(o, p) ==
  /\ p.path = o.path /\ p.kind = o.kind /\ p.romfs_list = o.romfs_list
  /\ o.kind = "loader" => p.parts = o.parts

\* Objects changed to ones alike
LEMMA RisingFrom ==
  ASSUME NEW h, NEW h2, DOMAIN h2 = DOMAIN h, \A i \in DOMAIN h : Alike(h[i], h2[i])
  PROVE  Rising(h, h2)
  BY DEF Rising, Alike

\* One object changed to one alike
LEMMA RisingAt ==
  ASSUME NEW h, NEW x, NEW v, NEW h2, h2 = [h EXCEPT ![x] = v], x \in DOMAIN h => Alike(h[x], v)
  PROVE  Rising(h, h2) /\ DOMAIN h2 = DOMAIN h /\ \A i \in DOMAIN h : h2[i].kind = h[i].kind
<1>1. DOMAIN h2 = DOMAIN h /\ \A i \in DOMAIN h : h2[i] = IF i = x THEN v ELSE h[i]
  OBVIOUS
<1> QED BY <1>1 DEF Rising, Alike

\* The fields that may change
LEMMA AlikeFields ==
  ASSUME NEW h, NEW i, IsObject(h, i), NEW v
  PROVE  /\ Alike(h[i], [h[i] EXCEPT !.live = v])
         /\ h[i].kind # "loader" => Alike(h[i], [h[i] EXCEPT !.parts = v])
<1>1. PICK o : o = h[i]
  OBVIOUS
<1>2. o = [kind |-> o.kind, base |-> o.base, dir |-> o.dir, parts |-> o.parts,
          pfs_list |-> o.pfs_list, romfs_list |-> o.romfs_list, path |-> o.path, live |-> o.live]
  BY <1>1 DEF IsObject
<1>3. PICK p : p = [o EXCEPT !.live = v]
  OBVIOUS
<1>4. p = [kind |-> o.kind, base |-> o.base, dir |-> o.dir, parts |-> o.parts,
          pfs_list |-> o.pfs_list, romfs_list |-> o.romfs_list, path |-> o.path, live |-> v]
  BY <1>2, <1>3
<1>5. PICK r : r = [o EXCEPT !.parts = v]
  OBVIOUS
<1>6. r = [kind |-> o.kind, base |-> o.base, dir |-> o.dir, parts |-> v,
          pfs_list |-> o.pfs_list, romfs_list |-> o.romfs_list, path |-> o.path, live |-> o.live]
  BY <1>2, <1>5
<1>7. Alike(o, p)
  BY <1>4 DEF Alike
<1>8. o.kind # "loader" => Alike(o, r)
  BY <1>6 DEF Alike
<1> QED BY <1>1, <1>3, <1>5, <1>7, <1>8

\* Objects stay what they are.
SameKinds(h, h2) == DOMAIN h2 = DOMAIN h /\ \A i \in DOMAIN h : h2[i].kind = h[i].kind

\* An object closed
LEMMA RisingClosed ==
  ASSUME NEW h, HeapOk(h), NEW x, NEW v
  PROVE  Rising(h, [h EXCEPT ![x].live = v]) /\ SameKinds(h, [h EXCEPT ![x].live = v])
<1>1. PICK w : w = [h[x] EXCEPT !.live = v]
  OBVIOUS
<1>2. x \in DOMAIN h => Alike(h[x], w)
  BY <1>1, AlikeFields DEF HeapOk
<1>3. PICK h2 : h2 = [h EXCEPT ![x] = w]
  OBVIOUS
<1>4. [h EXCEPT ![x].live = v] = h2
  BY <1>1, <1>3
<1>5. Rising(h, h2)
  BY <1>2, <1>3, RisingAt
<1>6. DOMAIN h2 = DOMAIN h /\ \A i \in DOMAIN h : h2[i] = IF i = x THEN w ELSE h[i]
  BY <1>3
<1>7. SameKinds(h, h2)
  BY <1>2, <1>6 DEF Alike, SameKinds
<1> QED BY <1>4, <1>5, <1>7

\* A file closed that a directory held
LEMMA RisingHeld ==
  ASSUME NEW h, HeapOk(h), NEW d \in DOMAIN h, h[d].kind # "loader", NEW x, NEW v, NEW w
  PROVE  Rising(h, [h EXCEPT ![d].parts = v, ![x].live = w])
         /\ SameKinds(h, [h EXCEPT ![d].parts = v, ![x].live = w])
<1>1. PICK h2 : h2 = [h EXCEPT ![d].parts = v, ![x].live = w]
  OBVIOUS
<1>2. DOMAIN h2 = DOMAIN h
  BY <1>1
<1>3. ASSUME NEW i \in DOMAIN h PROVE Alike(h[i], h2[i])
  <2>1. PICK o : o = h[i]
    OBVIOUS
  <2>2. o = [kind |-> o.kind, base |-> o.base, dir |-> o.dir, parts |-> o.parts,
          pfs_list |-> o.pfs_list, romfs_list |-> o.romfs_list, path |-> o.path, live |-> o.live]
    BY <1>3, <2>1 DEF HeapOk, IsObject
  <2>3. PICK p : p = IF i = d THEN [o EXCEPT !.parts = v] ELSE o
    OBVIOUS
  <2>4. PICK r : r = IF i = x THEN [p EXCEPT !.live = w] ELSE p
    OBVIOUS
  <2>5. h2[i] = r
    BY <1>1, <1>3, <2>1, <2>3, <2>4
  <2>6. p = [kind |-> o.kind, base |-> o.base, dir |-> o.dir,
          parts |-> IF i = d THEN v ELSE o.parts,
          pfs_list |-> o.pfs_list, romfs_list |-> o.romfs_list, path |-> o.path, live |-> o.live]
    BY <2>2, <2>3
  <2>7. r = [kind |-> o.kind, base |-> o.base, dir |-> o.dir,
          parts |-> IF i = d THEN v ELSE o.parts,
          pfs_list |-> o.pfs_list, romfs_list |-> o.romfs_list, path |-> o.path,
          live |-> IF i = x THEN w ELSE o.live]
    BY <2>4, <2>6
  <2>8. i = d => o.kind # "loader"
    BY <2>1
  <2> QED BY <2>1, <2>5, <2>7, <2>8 DEF Alike
<1> QED BY <1>1, <1>2, <1>3, RisingFrom DEF SameKinds, Alike

\* Calls that load nothing
LEMMA PlainNames ==
  {"free", "dir_close_file", "dir_close", "find_keys", "destroy_file", "close_archive",
    "close_wrapped",
   "close_file", "content_archive_destroy", "destroy_package", "loader_destroy", "hos_disable",
   "hos_firmware_load", "load_tik", "keys_db_add_ticket", "list_push", "service"} \subseteq PlainOps
  BY SMT DEF PlainOps, Ops, OpsOfPackages, GameOps

\* Calls have the names they are given.
LEMMA CallNames ==
  ASSUME NEW name, NEW d, NEW x, NEW e
  PROVE  Op(name).op = name /\ Call(name, x).op = name /\ CallOn(name, d, x).op = name
         /\ CallWith(name, e, d, x).op = name
<1>1. Op(name).op = name
  BY DEF Op
<1>2. Call(name, x).op = name
  BY DEF Call
<1>3. CallOn(name, d, x).op = name
  BY DEF CallOn
<1>4. CallWith(name, e, d, x).op = name
  BY DEF CallWith
<1> QED BY <1>1, <1>2, <1>3, <1>4

\* No call is plain.
LEMMA PlainNone == IsPlain(<<>>)
<1>1. IsSequence(<<>>) /\ DOMAIN <<>> = {}
  BY Nothing
<1> QED BY <1>1 DEF IsPlain, AllIn

\* One plain call
LEMMA PlainOne ==
  ASSUME NEW a, a.op \in PlainOps
  PROVE  IsPlain(<<a>>)
  BY PlainFew

\* Two plain calls
LEMMA PlainTwo ==
  ASSUME NEW a, NEW b, a.op \in PlainOps, b.op \in PlainOps
  PROVE  IsPlain(<<a, b>>)
  BY PlainFew

\* Three plain calls
LEMMA PlainThree ==
  ASSUME NEW a, NEW b, NEW c, a.op \in PlainOps, b.op \in PlainOps, c.op \in PlainOps
  PROVE  IsPlain(<<a, b, c>>)
  BY PlainFew

\* The heap with a host file
LEMMA RisingHost ==
  ASSUME HeapOk(heap), NEW dir \in DOMAIN heap, heap[dir].kind = "hostdir", NEW path
  PROVE  /\ Rising(heap, WithHostFile(dir, path)) /\ IsSequence(WithHostFile(dir, path))
         /\ \A i \in DOMAIN heap : WithHostFile(dir, path)[i].kind = heap[i].kind
<1>0. IsSequence(heap) /\ IsObject(heap, dir)
  BY DEF HeapOk
<1>1. CASE Cached(dir, path) # {}
  BY <1>0, <1>1, RisingSame DEF WithHostFile
<1>2. CASE Cached(dir, path) = {}
  <2>1. PICK h1, p, h2 : /\ h1 = Append(heap, Inside(dir, Host(path)))
                         /\ p = [h1[dir] EXCEPT !.parts = Append(@, New)]
                         /\ h2 = [h1 EXCEPT ![dir] = p]
    OBVIOUS
  <2>2. /\ Rising(heap, h1) /\ IsSequence(h1) /\ \A i \in DOMAIN heap : i \in DOMAIN h1
             /\ h1[i] = heap[i]
    BY <1>0, <2>1, RisingAppend
  <2>3. WithHostFile(dir, path) = h2
    BY <1>2, <2>1 DEF WithHostFile
  <2>4. h2[dir] = p /\ DOMAIN h2 = DOMAIN h1 /\ \A i \in DOMAIN h1 : i # dir => h2[i] = h1[i]
    BY <2>1, <2>2
  <2>5. IsSequence(h2)
    <3>1. h2 = [i \in DOMAIN h1 |-> h2[i]]
      BY <2>1
    <3> QED BY <2>2, <3>1, SeqEach
  <2>6. Alike(heap[dir], p)
    BY <1>0, <2>1, <2>2, AlikeFields
  <2>7. \A i \in DOMAIN h1 : Alike(h1[i], h2[i])
    BY <2>2, <2>4, <2>6 DEF Alike
  <2>8. Rising(h1, h2) /\ \A i \in DOMAIN heap : h2[i].kind = heap[i].kind
    BY <2>2, <2>4, <2>7, RisingFrom DEF Alike
  <2>9. Rising(heap, h2)
    BY <2>2, <2>8, RisingOn
  <2> QED BY <2>3, <2>5, <2>8, <2>9
<1> QED BY <1>1, <1>2

\* The calls of host directories are plain.
LEMMA HostCalls ==
  ASSUME Ok, Free \/ DirCloseFile \/ DirClose \/ FindKeys \/ HosCreate
  PROVE  MakesPlain /\ Rising(heap, heap')
<1>0. HeapOk(heap) /\ IsSequence(heap)
  BY DEF Ok, StateOk, HeapOk
<1>1. CASE Free
  <2>1. heap' = [heap EXCEPT ![Arg.x].live = FALSE] /\ Then(<<>>)
    BY <1>1 DEF Free
  <2>2. Rising(heap, heap')
    BY <1>0, <2>1, RisingClosed
  <2> QED BY <2>1, <2>2, PlainNone DEF MakesPlain
<1>2. CASE DirCloseFile
  <2>1. Calling("dir_close_file") /\ Then(<<>>)
        /\ heap' = [heap EXCEPT ![Arg.dir].parts = Without(@, Arg.x), ![Arg.x].live = FALSE]
    BY <1>2 DEF DirCloseFile
  <2>2. IsCall(session, heap, games, Head(todo)) /\ Head(todo).op = "dir_close_file"
    BY <2>1, OkFacts
  <2>3. PICK d, x, v : d = Arg.dir /\ x = Arg.x /\ v = Without(heap[d].parts, x)
    OBVIOUS
  <2>4. d \in DOMAIN heap /\ heap[d].kind # "loader"
    BY <2>2, <2>3 DEF IsCall, Arg
  <2>5. heap' = [heap EXCEPT ![d].parts = v, ![x].live = FALSE]
    BY <2>1, <2>3
  <2>6. Rising(heap, heap')
    BY <1>0, <2>4, <2>5, RisingHeld
  <2> QED BY <2>1, <2>6, PlainNone DEF MakesPlain
<1>3. CASE DirClose
  <2>1. Calling("dir_close")
    BY <1>3 DEF DirClose
  <2>2. HeapOk(heap) /\ IsCall(session, heap, games, Head(todo)) /\ Head(todo).op = "dir_close"
    BY <2>1, OkFacts
  <2>3. Head(todo).x \in DOMAIN heap
    BY <2>2 DEF IsCall
  <2>4. PICK s, c, x : x = Head(todo).x /\ s = EverySecond(heap[x].parts) /\ c = Call("free", x)
    OBVIOUS
  <2>5. IsSequence(s)
    BY <2>2, <2>3, <2>4, ObjectFacts, SeqEverySecond
  <2>6. IsPlain(EachOn("dir_close_file", x, s)) /\ IsPlain(<<c>>)
    BY <2>4, <2>5, PlainEach, PlainOne, PlainNames, CallNames
  <2>7. Then(EachOn("dir_close_file", x, s) \o <<c>>) /\ heap' = heap
    BY <1>3, <2>4 DEF DirClose, Arg
  <2> QED BY <2>6, <2>7, PlainJoin, RisingSame DEF MakesPlain
<1>4. CASE FindKeys
  <2>1. PICK c : Then(<<c>>) /\ c.op = "dir_close_file"
    BY <1>4, CallNames DEF FindKeys
  <2>2. IsPlain(<<c>>)
    BY <2>1, PlainOne, PlainNames
  <2>3. Calling("find_keys") /\ heap' = WithHostFile(Arg.dir, Arg.x)
    BY <1>4 DEF FindKeys
  <2>4. IsCall(session, heap, games, Head(todo)) /\ Head(todo).op = "find_keys"
    BY <2>3, OkFacts
  <2>5. Arg.dir \in DOMAIN heap /\ heap[Arg.dir].kind = "hostdir"
    BY <2>4 DEF IsCall, Arg
  <2> QED BY <1>0, <2>1, <2>2, <2>3, <2>5, RisingHost DEF MakesPlain
<1>5. CASE HosCreate
  <2>0. PICK a, b, c : /\ a = CallOn("find_keys", New, "title.keys")
                       /\ b = CallOn("find_keys", New, "prod.keys") /\ c = Call("dir_close", New)
    OBVIOUS
  <2>1. Then(<<a, b, c>>) /\ a.op = "find_keys" /\ b.op = "find_keys" /\ c.op = "dir_close"
    BY <1>5, <2>0, CallNames DEF HosCreate
  <2>2. IsPlain(<<a, b, c>>)
    BY <2>1, PlainThree, PlainNames
  <2>3. heap' = Append(heap, HostDir)
    BY <1>5 DEF HosCreate
  <2> QED BY <1>0, <2>1, <2>2, <2>3, RisingAppend DEF MakesPlain
<1> QED BY <1>1, <1>2, <1>3, <1>4, <1>5

\* A step that loads nothing
Plainly == MakesPlain /\ Rising(heap, heap') /\ UNCHANGED <<session, games, tickets, ended>>

\* Two objects closed
LEMMA RisingTwo ==
  ASSUME NEW h, HeapOk(h), NEW x, NEW y
  PROVE  Rising(h, [h EXCEPT ![x].live = FALSE, ![y].live = FALSE])
         /\ SameKinds(h, [h EXCEPT ![x].live = FALSE, ![y].live = FALSE])
<1>1. PICK h2 : h2 = [h EXCEPT ![x].live = FALSE, ![y].live = FALSE]
  OBVIOUS
<1>2. DOMAIN h2 = DOMAIN h
  BY <1>1
<1>3. ASSUME NEW i \in DOMAIN h PROVE Alike(h[i], h2[i])
  <2>1. PICK o : o = h[i]
    OBVIOUS
  <2>2. o = [kind |-> o.kind, base |-> o.base, dir |-> o.dir, parts |-> o.parts,
          pfs_list |-> o.pfs_list, romfs_list |-> o.romfs_list, path |-> o.path, live |-> o.live]
    BY <1>3, <2>1 DEF HeapOk, IsObject
  <2>3. PICK p : p = IF i = x THEN [o EXCEPT !.live = FALSE] ELSE o
    OBVIOUS
  <2>4. PICK r : r = IF i = y THEN [p EXCEPT !.live = FALSE] ELSE p
    OBVIOUS
  <2>5. h2[i] = r
    BY <1>1, <1>3, <2>1, <2>3, <2>4
  <2>6. p = [kind |-> o.kind, base |-> o.base, dir |-> o.dir, parts |-> o.parts,
          pfs_list |-> o.pfs_list, romfs_list |-> o.romfs_list, path |-> o.path,
          live |-> IF i = x THEN FALSE ELSE o.live]
    BY <2>2, <2>3
  <2>7. r = [kind |-> o.kind, base |-> o.base, dir |-> o.dir, parts |-> o.parts,
          pfs_list |-> o.pfs_list, romfs_list |-> o.romfs_list, path |-> o.path,
          live |-> IF i = y THEN FALSE ELSE p.live]
    BY <2>4, <2>6
  <2> QED BY <2>1, <2>5, <2>7 DEF Alike
<1> QED BY <1>1, <1>2, <1>3, RisingFrom DEF SameKinds, Alike

\* The end of archives
LEMMA ArchiveCalls ==
  ASSUME Ok, ContentArchiveDestroy \/ CloseArchive \/ CloseWrapped
  PROVE  Plainly
<1>0. UNCHANGED <<session, games, tickets, ended>>
  BY DEF ContentArchiveDestroy, CloseArchive, CloseWrapped, SameLists, Same
<1>1. CASE ContentArchiveDestroy
  <2>1. Calling("content_archive_destroy")
    BY <1>1 DEF ContentArchiveDestroy
  <2>2. HeapOk(heap) /\ IsCall(session, heap, games, Head(todo))
          /\ Head(todo).op = "content_archive_destroy"
    BY <2>1, OkFacts
  <2>3. PICK x : x = Head(todo).x
    OBVIOUS
  <2>4. x \in DOMAIN heap
    BY <2>2, <2>3 DEF IsCall
  <2>5. PICK p, q, c : /\ p = EachOn("destroy_file", x, heap[x].pfs_list)
                       /\ q = EachOn("destroy_file", x, heap[x].romfs_list)
                       /\ c = Call("close_archive", x)
    OBVIOUS
  <2>6. IsSequence(heap[x].pfs_list) /\ IsSequence(heap[x].romfs_list)
    BY <2>2, <2>4, ObjectFacts
  <2>7. IsPlain(p) /\ IsPlain(q) /\ IsPlain(<<c>>)
    BY <2>5, <2>6, PlainEach, PlainOne, PlainNames, CallNames
  <2>8. IsPlain((p \o q) \o <<c>>)
    BY <2>7, PlainJoin
  <2>9. Then((p \o q) \o <<c>>) /\ heap' = heap
    BY <1>1, <2>3, <2>5 DEF ContentArchiveDestroy, Arg
  <2> QED BY <1>0, <2>8, <2>9, RisingSame DEF MakesPlain, Plainly
<1>2. CASE CloseArchive
  <2>1. PICK p, c : p = CloseOrder(Arg.x) /\ c = Call("free", Arg.x)
    OBVIOUS
  <2>2. IsPlain(p)
    <3>1. CASE IsEncrypted(Arg.x)
      <4>1. PICK a, b : /\ a = CallOn("close_wrapped", heap[Arg.x].dir, heap[Arg.x].base)
                        /\ b = Call("free", heap[Arg.x].base)
        OBVIOUS
      <4>2. IsPlain(<<a, b>>)
        BY <4>1, PlainTwo, PlainNames, CallNames
      <4> QED BY <2>1, <3>1, <4>1, <4>2 DEF CloseOrder
    <3>2. CASE ~IsEncrypted(Arg.x)
      <4>1. PICK a : a = CallOn("close_file", heap[Arg.x].dir, heap[Arg.x].base)
        OBVIOUS
      <4>2. IsPlain(<<a>>)
        BY <4>1, PlainOne, PlainNames, CallNames
      <4> QED BY <2>1, <3>2, <4>1, <4>2 DEF CloseOrder
    <3> QED BY <3>1, <3>2
  <2>3. IsPlain(<<c>>)
    BY <2>1, PlainOne, PlainNames, CallNames
  <2>4. IsPlain(p \o <<c>>) /\ Then(p \o <<c>>) /\ heap' = heap
    BY <1>2, <2>1, <2>2, <2>3, PlainJoin DEF CloseArchive
  <2> QED BY <1>0, <2>4, RisingSame DEF MakesPlain, Plainly
<1>3. CASE CloseWrapped
  <2>1. PICK c : c = CallOn("close_file", Arg.dir, heap[Arg.x].base)
    OBVIOUS
  <2>2. IsPlain(<<c>>)
    BY <2>1, PlainOne, PlainNames, CallNames
  <2>3. Then(<<c>>) /\ heap' = heap
    BY <1>3, <2>1 DEF CloseWrapped
  <2> QED BY <1>0, <2>2, <2>3, RisingSame DEF MakesPlain, Plainly
<1> QED BY <1>1, <1>2, <1>3

\* Closing a section or a file does not quit.
LEMMA DestroyFilePlain ==
  ASSUME Ok, DestroyFile
  PROVE  Plainly
<1>1. Calling("destroy_file")
  BY DEF DestroyFile
<1>2. HeapOk(heap) /\ IsCall(session, heap, games, Head(todo)) /\ Head(todo).op = "destroy_file"
  BY <1>1, OkFacts
<1>3. PICK n, p : n = Arg.dir /\ p = Arg.x
  OBVIOUS
<1>4. n \in DOMAIN heap /\ heap[n].kind = "nca" /\ p \in Items(heap, n)
  BY <1>2, <1>3 DEF IsCall, Arg
<1>5. IsNca(heap, n)
  BY <1>2, <1>4 DEF HeapOk
<1>6. heap[p.file].base = Below(heap, n)
  BY <1>4, <1>5 DEF IsNca, IsSectionList, Items, Range
<1>7. Below(heap, n) = Backing(n)
  BY DEF Below, Backing, IsEncrypted
<1>8. /\ heap' = [heap EXCEPT ![p.fs].live = FALSE, ![p.file].live = FALSE]
      /\ Then(<<>>) /\ SameLists
  BY <1>3, <1>6, <1>7 DEF DestroyFile
<1>9. Rising(heap, heap')
  BY <1>2, <1>8, RisingTwo
<1> QED BY <1>8, <1>9, PlainNone DEF Plainly, MakesPlain, SameLists, Same

\* A file closed
LEMMA CloseFilePlain ==
  ASSUME Ok, CloseFile
  PROVE  Plainly
<1>1. Calling("close_file")
  BY DEF CloseFile
<1>2. HeapOk(heap) /\ IsCall(session, heap, games, Head(todo)) /\ Head(todo).op = "close_file"
  BY <1>1, OkFacts
<1>3. PICK d, x, v, w : /\ d = Arg.dir /\ x = Arg.x /\ v = FilesLeft(d, x)
                        /\ w = ([heap EXCEPT ![d].parts = v][x].live /\ heap[d].kind = "romfs"
                                 /\ heap[x].kind \notin {"offset", "map", "mem"})
  OBVIOUS
<1>4. d \in DOMAIN heap /\ IsFileOf(heap, x, d)
  BY <1>2, <1>3 DEF IsCall, Arg
<1>5. /\ heap' = [heap EXCEPT ![d].parts = v, ![x].live = w]
      /\ Then(<<>>) /\ SameLists
  <2>1. ~(/\ heap[d].kind \in {"pfs", "romfs"} /\ heap[x].kind = "offset"
          /\ heap[d].base # None /\ heap[x].base # heap[d].base)
    BY <1>4 DEF IsFileOf
  <2> QED BY <1>3, <2>1 DEF CloseFile
<1>6. Rising(heap, heap')
  <2>1. heap[d].kind # "loader"
    BY <1>4 DEF IsFileOf, DirKinds
  <2> QED BY <1>2, <1>4, <1>5, <2>1, RisingHeld
<1> QED BY <1>5, <1>6, PlainNone DEF Plainly, MakesPlain, SameLists, Same

\* The end of packages
LEMMA PackageEnds ==
  ASSUME Ok, HosDisable \/ LoaderDestroy \/ DestroyPackage \/ NxSysDestroy
  PROVE  Plainly
<1>0. /\ UNCHANGED <<session, games, tickets, ended, heap>>
      /\ IsSequence(tickets) /\ IsSequence(services) /\ IsSequence(games) /\ HeapOk(heap)
  BY DEF HosDisable, LoaderDestroy, DestroyPackage, NxSysDestroy, SameLists, Same,
     Ok, StateOk, ListsOk, ListOk, GamesOk
<1>1. Rising(heap, heap')
  BY <1>0, RisingSame
<1>2. SUFFICES MakesPlain
  BY <1>0, <1>1 DEF Plainly
<1>3. CASE HosDisable
  <2>1. IsPlain(Each("free", services)) /\ Then(Each("free", services))
    BY <1>0, <1>3, PlainEach, PlainNames DEF HosDisable
  <2> QED BY <2>1 DEF MakesPlain
<1>4. CASE LoaderDestroy
  <2>1. Calling("loader_destroy")
    BY <1>4 DEF LoaderDestroy
  <2>2. HeapOk(heap) /\ IsCall(session, heap, games, Head(todo)) /\ Head(todo).op = "loader_destroy"
    BY <2>1, OkFacts
  <2>3. PICK x, b, c : x = Head(todo).x /\ b = Call("destroy_package", x)
          /\ c = Call("free", Head(todo).dir)
    OBVIOUS
  <2>4. x \in DOMAIN heap
    BY <2>2, <2>3 DEF IsCall
  <2>5. PICK p : p = Each("content_archive_destroy", heap[x].parts)
    OBVIOUS
  <2>6. IsPlain(p) /\ IsPlain(<<b>>) /\ IsPlain(<<c>>)
    BY <2>2, <2>3, <2>4, <2>5, ObjectFacts, PlainEach, PlainOne, PlainNames, CallNames
  <2>7. IsPlain((p \o <<b>>) \o <<c>>)
    BY <2>6, PlainJoin
  <2>8. Then((p \o <<b>>) \o <<c>>)
    BY <1>4, <2>3, <2>5 DEF LoaderDestroy, DestroyOrder, Arg
  <2> QED BY <2>7, <2>8 DEF MakesPlain
<1>5. CASE DestroyPackage
  <2>1. Calling("destroy_package")
    BY <1>5 DEF DestroyPackage
  <2>2. HeapOk(heap) /\ IsCall(session, heap, games, Head(todo))
          /\ Head(todo).op = "destroy_package"
    BY <2>1, OkFacts
  <2>3. PICK x, y : x = Head(todo).x /\ y = heap[x].base
    OBVIOUS
  <2>4. x \in DOMAIN heap /\ heap[x].kind = "loader"
    BY <2>2, <2>3 DEF IsCall
  <2>5. PICK a, b, c : a = Call("free", heap[x].dir) /\ b = Call("free", x) /\ c = Call("free", y)
    OBVIOUS
  <2>6. IsPlain(<<a, b>>) /\ IsPlain(<<c>>)
    BY <2>5, PlainOne, PlainTwo, PlainNames, CallNames
  <2>7. CASE y = None
    <3>1. Then(<<>> \o <<a, b>>)
      BY <1>5, <2>3, <2>5, <2>7 DEF DestroyPackage, Arg
    <3> QED BY <2>6, <3>1, PlainNone, PlainJoin DEF MakesPlain
  <2>8. CASE y # None
    <3>1. y \in DOMAIN heap
      BY <1>0, <2>3, <2>4, <2>8, LoaderParts
    <3>2. PICK p : p = EachOn("close_file", y, EverySecond(heap[y].parts))
      OBVIOUS
    <3>3. IsSequence(EverySecond(heap[y].parts))
      BY <1>0, <3>1, ObjectFacts, SeqEverySecond
    <3>4. IsPlain(p)
      BY <3>2, <3>3, PlainEach, PlainNames
    <3>5. IsPlain((p \o <<c>>) \o <<a, b>>)
      BY <2>6, <3>4, PlainJoin
    <3>6. Then((p \o <<c>>) \o <<a, b>>)
      BY <1>5, <2>3, <2>5, <2>8, <3>2 DEF DestroyPackage, Arg
    <3> QED BY <3>5, <3>6 DEF MakesPlain
  <2> QED BY <2>7, <2>8
<1>6. CASE NxSysDestroy
  <2>1. PICK p, q : /\ p = [i \in DOMAIN games |-> CallOn("loader_destroy", games[i].file,
                         games[i].loader)]
                    /\ q = Each("free", tickets)
    OBVIOUS
  <2>2. p = [i \in DOMAIN games |-> p[i]]
    BY <2>1
  <2>3. IsSequence(p)
    BY <1>0, <2>2, SeqEach
  <2>6. ASSUME NEW i \in DOMAIN p PROVE p[i].op \in PlainOps
    <3>1. p[i] = CallOn("loader_destroy", games[i].file, games[i].loader)
      BY <2>1, <2>6
    <3> QED BY <3>1, CallNames, PlainNames
  <2>4. IsPlain(p) /\ IsPlain(q)
    BY <1>0, <2>1, <2>3, <2>6, PlainEach, PlainNames DEF IsPlain, AllIn
  <2>5. Then(p \o q)
    BY <1>6, <2>1 DEF NxSysDestroy
  <2> QED BY <2>4, <2>5, PlainJoin DEF MakesPlain
<1> QED BY <1>3, <1>4, <1>5, <1>6

\* Firmware
LEMMA FirmwareCalls ==
  ASSUME Ok, LoadFirstOne \/ Service
  PROVE  Plainly
<1>0. UNCHANGED <<session, games, tickets, ended>> /\ IsSequence(heap)
  BY DEF LoadFirstOne, Service, SameLists, Same, Ok, StateOk, HeapOk
<1>1. CASE LoadFirstOne
  <2>1. PICK b, c, d : b = Call("hos_firmware_load", New) /\ c = Call("dir_close", New)
          /\ d = Op("hos_disable")
    OBVIOUS
  <2>2. Then(<<>>) \/ Then(<<>> \o <<c, d>>) \/ Then(<<b>> \o <<c, d>>)
    BY <1>1, <2>1 DEF LoadFirstOne
  <2>3. IsPlain(<<>>) /\ IsPlain(<<b>>) /\ IsPlain(<<c, d>>)
    BY <2>1, PlainNone, PlainOne, PlainTwo, PlainNames, CallNames
  <2>4. MakesPlain
    BY <2>2, <2>3, PlainJoin DEF MakesPlain
  <2>5. heap' = heap \/ heap' = Append(heap, HostDir)
    BY <1>1 DEF LoadFirstOne
  <2>6. Rising(heap, heap')
    <3>1. ASSUME NEW o PROVE Rising(heap, Append(heap, o))
      BY <1>0, RisingAppend
    <3>2. Rising(heap, heap)
      BY RisingSame
    <3> QED BY <2>5, <3>1, <3>2
  <2> QED BY <1>0, <2>4, <2>6 DEF Plainly
<1>2. CASE Service
  <2>1. PICK fs, c : fs = heap[Arg.nca].romfs_list[1].fs /\ c = CallOn("close_file", fs, New + 1)
    OBVIOUS
  <2>2. \/ heap' = heap /\ Then(<<>>)
        \/ heap' = heap \o <<Object("service", None), Offset(heap[fs].base)>> /\ Then(<<c>>)
    BY <1>2, <2>1 DEF Service
  <2>3. IsPlain(<<>>) /\ IsPlain(<<c>>)
    BY <2>1, PlainNone, PlainOne, PlainNames, CallNames
  <2>4. Rising(heap, heap')
    <3>1. ASSUME NEW o, NEW p PROVE Rising(heap, heap \o <<o, p>>)
      BY <1>0, RisingAppends
    <3>2. Rising(heap, heap)
      BY RisingSame
    <3> QED BY <2>2, <3>1, <3>2
  <2> QED BY <1>0, <2>2, <2>3, <2>4 DEF Plainly, MakesPlain
<1> QED BY <1>1, <1>2

\* A package that has the icon is no reason to quit.
LEMMA GetLogoPlain ==
  ASSUME Ok, LoadsWell, GetLogo
  PROVE  Plainly
<1>1. Calling("loader_get_logo")
  BY DEF GetLogo
<1>2. HeapOk(heap) /\ IsSequence(heap) /\ Head(todo).op = "loader_get_logo" /\ todo # <<>>
        /\ IsSequence(todo)
  BY <1>1, OkFacts DEF HeapOk
<1>3. todo[1] = Head(todo) /\ 1 \in DOMAIN todo
  <2>1. Len(todo) # 0 /\ Len(todo) \in Nat /\ DOMAIN todo = 1 .. Len(todo)
          /\ todo \in Seq(Range(todo))
    BY <1>2, SequenceIs, EmptySeq
  <2> QED BY <2>1, HeadTailProperties
<1>4. PICK l, having : l = Arg.x
        /\ having = { a \in DOMAIN heap[l].parts : Icons(heap[l].parts[a]) # {} }
  OBVIOUS
<1>5. HasLogo(heap, l)
  BY <1>2, <1>3, <1>4 DEF LoadsWell, LoadsOk, Suits, Arg
<1>6. having # {}
  <2>1. PICK n \in Range(heap[l].parts) : \E p \in Range(heap[n].romfs_list) : p.icon
    BY <1>5 DEF HasLogo, Iconic
  <2>2. PICK a \in DOMAIN heap[l].parts : heap[l].parts[a] = n
    BY <2>1 DEF Range
  <2>3. PICK k \in DOMAIN heap[n].romfs_list : heap[n].romfs_list[k].icon
    BY <2>1 DEF Range
  <2>4. k \in Icons(n)
    BY <2>3 DEF Icons
  <2> QED BY <1>4, <2>2, <2>4
<1>a. PICK nca : nca = heap[l].parts[Min(having)]
  OBVIOUS
<1>b. PICK fs : fs = heap[nca].romfs_list[Min(Icons(nca))].fs
  OBVIOUS
<1>c. PICK o, p, a, b : /\ o = Offset(heap[fs].base) /\ p = Host("icon")
                        /\ a = CallOn("close_file", fs, New) /\ b = Call("free", New + 1)
  OBVIOUS
<1>7. heap' = heap \o <<o, p>> /\ Then(<<a, b>>) /\ SameLists
  BY <1>4, <1>6, <1>a, <1>b, <1>c DEF GetLogo
<1>8. IsPlain(<<a, b>>)
  BY <1>c, PlainTwo, PlainNames, CallNames
<1>9. Rising(heap, heap')
  BY <1>2, <1>7, RisingAppends
<1> QED BY <1>7, <1>8, <1>9 DEF Plainly, MakesPlain, SameLists, Same

\* The steps that load nothing
LEMMA PlainSteps ==
  ASSUME Ok, LoadsWell,
         \/ Free \/ DirCloseFile \/ DirClose \/ FindKeys \/ HosCreate
         \/ ContentArchiveDestroy \/ DestroyFile \/ CloseArchive \/ CloseWrapped \/ CloseFile
         \/ LoadFirstOne \/ Service \/ HosDisable
         \/ GetLogo \/ LoaderDestroy \/ DestroyPackage \/ NxSysDestroy
  PROVE  LoadsWell' /\ ended' = ended
<1>1. Plainly
  <2>1. CASE Free \/ DirCloseFile \/ DirClose \/ FindKeys \/ HosCreate
    <3>1. UNCHANGED <<session, games, tickets, ended>>
      BY <2>1 DEF Free, DirCloseFile, DirClose, FindKeys, HosCreate, SameLists, Same
    <3> QED BY <2>1, <3>1, HostCalls DEF Plainly
  <2>2. CASE ContentArchiveDestroy \/ CloseArchive \/ CloseWrapped
    BY <2>2, ArchiveCalls
  <2>3. CASE DestroyFile
    BY <2>3, DestroyFilePlain
  <2>4. CASE CloseFile
    BY <2>4, CloseFilePlain
  <2>5. CASE HosDisable \/ LoaderDestroy \/ DestroyPackage \/ NxSysDestroy
    BY <2>5, PackageEnds
  <2>6. CASE LoadFirstOne \/ Service
    BY <2>6, FirmwareCalls
  <2>7. CASE GetLogo
    BY <2>7, GetLogoPlain
  <2> QED BY <2>1, <2>2, <2>3, <2>4, <2>5, <2>6, <2>7
<1>2. PICK name : name \notin Giving /\ Calling(name)
  <2>1. \/ Calling("free") \/ Calling("dir_close_file") \/ Calling("dir_close")
             \/ Calling("find_keys")
        \/ Calling("hos_create") \/ Calling("content_archive_destroy") \/ Calling("destroy_file")
        \/ Calling("close_archive") \/ Calling("close_wrapped") \/ Calling("close_file")
        \/ Calling("nx_load_first_one") \/ Calling("service") \/ Calling("hos_disable")
        \/ Calling("loader_get_logo") \/ Calling("loader_destroy") \/ Calling("destroy_package")
        \/ Calling("nx_sys_destroy")
    BY DEF Free, DirCloseFile, DirClose, FindKeys, HosCreate, ContentArchiveDestroy, DestroyFile,
       CloseArchive,
       CloseWrapped, CloseFile, LoadFirstOne, Service, HosDisable, GetLogo, LoaderDestroy,
       DestroyPackage,
       NxSysDestroy
  <2>2. Giving \cap {"free", "dir_close_file", "dir_close", "find_keys", "hos_create",
          "content_archive_destroy",
           "destroy_file", "close_archive", "close_wrapped", "close_file", "nx_load_first_one",
           "service",
           "hos_disable", "loader_get_logo", "loader_destroy", "destroy_package",
           "nx_sys_destroy"} = {}
    BY DEF Giving, GameOps
  <2> QED BY <2>1, <2>2
<1> QED BY <1>1, <1>2, PlainStep DEF Plainly

\* The call that is made
HeadIs(c) ==
  /\ todo # <<>> /\ todo[1] = c /\ Head(todo) = c /\ Arg = c /\ IsCall(session, heap, games, c)
  /\ Suits(session, heap, c) /\ 1 \in DOMAIN todo
  /\ HeapOk(heap) /\ IsSequence(heap) /\ GamesOk(heap, games) /\ ListOk(heap, tickets, "tik")

\* There is such a call in every step.
LEMMA HeadFound ==
  ASSUME Ok, LoadsWell, NEW name, Calling(name)
  PROVE  \E c : HeadIs(c) /\ c.op = name
<1>1. HeapOk(heap) /\ IsSequence(heap) /\ GamesOk(heap, games) /\ ListOk(heap, tickets, "tik")
      /\ Head(todo).op = name /\ todo # <<>> /\ IsSequence(todo)
      /\ IsCall(session, heap, games, Head(todo))
  BY OkFacts DEF HeapOk, ListsOk
<1>2. todo[1] = Head(todo) /\ 1 \in DOMAIN todo
  <2>1. Len(todo) # 0 /\ Len(todo) \in Nat /\ DOMAIN todo = 1 .. Len(todo)
          /\ todo \in Seq(Range(todo))
    BY <1>1, SequenceIs, EmptySeq
  <2> QED BY <2>1, HeadTailProperties
<1>3. Suits(session, heap, todo[1])
  BY <1>2 DEF LoadsWell, LoadsOk
<1> QED BY <1>1, <1>2, <1>3 DEF HeadIs, Arg

\* A step that changes no list needs less.
LEMMA LoadsOn ==
  ASSUME Ok, LoadsWell, NEW c, HeadIs(c), NEW q, IsSequence(q), Then(q), SameLists,
         Rising(heap, heap'),
         \A j \in DOMAIN q : Suits(session, heap', q[j]) /\ q[j].op # "logos",
         Meets(session, todo, q, heap, heap', tickets),
         c.op # "get_file" \/ ~c.section.icon \/ Iconic(heap', c.nca),
         \A l \in Loaders(games) : Shows(todo, heap, 1, l) => HasLogo(heap', l)
           \/ \E i \in DOMAIN q : Shows(q, heap', i, l)
  PROVE  LoadsWell' /\ ended' = ended
<1>1. session' = session /\ games' = games /\ tickets' = tickets /\ ended' = ended
  BY DEF SameLists, Same
<1>2. Known(heap, tickets) \subseteq Known(heap', tickets')
  BY <1>1 DEF Known, ListOk, IsAlone, Rising, HeadIs
<1>3. ShowsOn(todo, q, heap, games, heap', games')
  BY <1>1 DEF ShowsOn, HeadIs
<1>4. todo # <<>> /\ Meets(session, todo, q, heap, heap', tickets')
  BY <1>1 DEF HeadIs
<1> QED BY <1>1, <1>2, <1>3, <1>4, LoadsStep

\* What other calls show
LEMMA ShowsNone ==
  ASSUME NEW c, HeadIs(c), c.op \notin {"nsp_addfile", "nsz_addfile", "content_archive_create",
         "list_push"}
  PROVE  \A l : ~Shows(todo, heap, 1, l)
  BY DEF Shows, OpensArchive, HeadIs

\* The games one after the other
LEMMA GetAllLoadersLoads ==
  ASSUME Ok, OnDisk, LoadsWell, GetAllLoaders
  PROVE  LoadsWell' /\ ended' = ended
<1>1. Calling("nx_get_all_loaders") /\ heap' = Append(heap, HostDir) /\ SameLists
  BY DEF GetAllLoaders
<1>2. PICK t1 : HeadIs(t1) /\ t1.op = "nx_get_all_loaders"
  BY <1>1, HeadFound
<1>3. PICK d, s, c, p, q, n : /\ d = New /\ s = session.games /\ c = Call("dir_close", d)
                              /\ p = [i \in DOMAIN s |-> CallOn("load_game", d, i)]
                              /\ q = p \o <<c>> /\ n = Len(s)
  OBVIOUS
<1>4. IsSequence(s) /\ n \in Nat /\ DOMAIN s = 1 .. n
  BY <1>3, SessionsAssumption, SequenceIs DEF OnDisk
<1>5. IsSequence(p) /\ Len(p) = n
  <2>1. p = [i \in 1 .. n |-> p[i]] /\ DOMAIN p = 1 .. n
    BY <1>3, <1>4
  <2> QED BY <1>4, <2>1, SequenceBy
<1>6. /\ IsSequence(q) /\ Len(q) = n + 1 /\ DOMAIN q = 1 .. n + 1
      /\ \A i \in 1 .. n : q[i] = CallOn("load_game", d, i)
      /\ q[n + 1] = c
  <2>1. IsSequence(<<c>>) /\ Len(<<c>>) = 1 /\ <<c>>[1] = c
    BY Small
  <2>2. /\ IsSequence(q) /\ Len(q) = n + 1
        /\ \A i \in 1 .. n + 1 : q[i] = IF i <= n THEN p[i] ELSE <<c>>[i - n]
    BY <1>3, <1>5, <2>1, Joining
  <2>3. \A i \in 1 .. n : q[i] = CallOn("load_game", d, i)
    BY <1>3, <1>4, <2>2
  <2>4. q[n + 1] = c
    <3>1. PICK v : v = n + 1
      OBVIOUS
    <3>2. v \in 1 .. n + 1 /\ ~(v <= n) /\ v - n = 1
      BY <1>4, <3>1
    <3>3. q[v] = <<c>>[v - n]
      BY <2>2, <3>2
    <3> QED BY <2>1, <3>1, <3>2, <3>3
  <2> QED BY <2>2, <2>3, <2>4, SequenceIs
<1>7. Then(q)
  <2>1. Then(p \o <<c>>)
    BY <1>3 DEF GetAllLoaders
  <2> QED BY <1>3, <2>1
<1>8. ASSUME NEW i \in 1 .. n PROVE q[i].op = "load_game" /\ q[i].x = i
  <2>1. q[i] = CallOn("load_game", d, i)
    BY <1>6, <1>8
  <2>2. CallOn("load_game", d, i).op = "load_game" /\ CallOn("load_game", d, i).x = i
    BY DEF CallOn
  <2> QED BY <2>1, <2>2
<1>9. q[n + 1].op = "dir_close"
  BY <1>3, <1>6 DEF Call
<1>10. ASSUME NEW j \in DOMAIN q PROVE Suits(session, heap', q[j]) /\ q[j].op # "logos"
  <2>1. q[j].op \in {"load_game", "dir_close"}
    BY <1>4, <1>6, <1>8, <1>9
  <2> QED BY <2>1 DEF Suits
<1>11. Meets(session, todo, q, heap, heap', tickets)
  <2>1. Brings(session, heap, todo[1]) = {}
    BY <1>2 DEF HeadIs, Brings, GameOps
  <2>2. ASSUME NEW i \in DOMAIN q, NEW r \in Needs(session, q[i])
        PROVE  \E j \in 1 .. i - 1 : r \in Brings(session, heap', q[j])
    <3>1. i \in 1 .. n
      <4>1. i = n + 1 => Needs(session, q[i]) = {}
        BY <1>9 DEF Needs, GameOps, OpensArchive
      <4> QED BY <1>4, <1>6, <2>2, <4>1
    <3>2. r \in TicketsBelow(session, i)
      BY <1>8, <2>2, <3>1 DEF Needs, GameOps
    <3>3. PICK j \in 1 .. i - 1 : r \in TicketsOf(session, j)
      BY <3>2 DEF TicketsBelow
    <3>4. j \in 1 .. n
      BY <1>4, <3>1, <3>3
    <3>5. Brings(session, heap', q[j]) = TicketsOf(session, j)
      BY <1>8, <3>4 DEF Brings, GameOps
    <3> QED BY <3>3, <3>5
  <2> QED BY <2>1, <2>2 DEF Meets
<1>12. Rising(heap, heap')
  BY <1>1, <1>2, RisingAppend DEF HeadIs
<1> QED BY <1>1, <1>2, <1>6, <1>7, <1>10, <1>11, <1>12, ShowsNone, LoadsOn

\* A game mapped
LEMMA LoadGameLoads ==
  ASSUME Ok, OnDisk, LoadsWell, LoadGame
  PROVE  LoadsWell' /\ ended' = ended
<1>1. Calling("load_game")
  BY DEF LoadGame
<1>2. PICK c : HeadIs(c) /\ c.op = "load_game"
  BY <1>1, HeadFound
<1>3. c.dir \in DOMAIN heap /\ heap[c.dir].kind = "hostdir" /\ c.x \in DOMAIN session.games
  BY <1>2 DEF HeadIs, IsCall
<1>4. PICK h1, map, type, a, b, g : /\ h1 = WithHostFile(c.dir, c.x) /\ map = Len(h1) + 1
                                    /\ type = TypeOf(c.x)
                                 /\ a = CallOn(type, map, c.x)
                                 /\ b = CallOn("dir_close_file", c.dir, HostFile(c.dir, c.x))
                                 /\ g = [file |-> map, loader |-> None, type |-> type]
  OBVIOUS
<1>5. /\ heap' = Append(h1, Map) /\ games' = Append(games, g) /\ Then(<<a, b>>)
      /\ UNCHANGED <<session, ended, tickets>>
  <2>1. Arg = c
    BY <1>2 DEF HeadIs
  <2> QED BY <1>4, <2>1 DEF LoadGame, Same
<1>6. Rising(heap, heap')
  <2>1. Rising(heap, h1) /\ IsSequence(h1) /\ \A i \in DOMAIN heap : h1[i].kind = heap[i].kind
    BY <1>2, <1>3, <1>4, RisingHost DEF HeadIs
  <2>2. Rising(h1, heap')
    BY <1>5, <2>1, RisingAppend
  <2> QED BY <2>1, <2>2, RisingOn
<1>7. type \in {"nsp", "nsz"} /\ session.games[c.x].type = type
  <2>1. IsPackage(session.games[c.x])
    BY <1>3, SessionsAssumption DEF OnDisk
  <2> QED BY <1>4, <2>1 DEF IsPackage, TypeOf
<1>8. a.op = type /\ a.x = c.x /\ b.op = "dir_close_file"
  BY <1>4, CallNames DEF CallOn
<1>9. PICK q : q = <<a, b>>
  OBVIOUS
<1>10. IsSequence(q) /\ DOMAIN q = {1, 2} /\ q[1] = a /\ q[2] = b
  <2>1. IsSequence(q) /\ Len(q) = 2
    BY <1>9, Small
  <2> QED BY <1>9, <2>1
<1>11. \A j \in DOMAIN q : Suits(session, heap', q[j]) /\ q[j].op # "logos"
  BY <1>7, <1>8, <1>10 DEF Suits
<1>12. Meets(session, todo, q, heap, heap', tickets')
  <2>1. Brings(session, heap, todo[1]) = TicketsOf(session, c.x)
    BY <1>2 DEF HeadIs, Brings, GameOps
  <2>2. Brings(session, heap', q[1]) = TicketsOf(session, c.x)
    BY <1>7, <1>8, <1>10 DEF Brings, GameOps
  <2>3. Needs(session, q[1]) = TicketsBelow(session, c.x) /\ Needs(session, q[2]) = {}
    BY <1>7, <1>8, <1>10 DEF Needs, GameOps, OpensArchive
  <2>4. Needs(session, todo[1]) = TicketsBelow(session, c.x)
    BY <1>2 DEF HeadIs, Needs, GameOps
  <2> QED BY <1>10, <2>1, <2>2, <2>3, <2>4 DEF Meets
<1>13. Loaders(games') \subseteq Loaders(games)
  <2>1. IsSequence(games)
    BY <1>2 DEF HeadIs, GamesOk
  <2>2. DOMAIN games' = 1 .. Len(games) + 1 /\ games'[Len(games) + 1] = g
        /\ \A i \in DOMAIN games : games'[i] = games[i]
    BY <1>5, <2>1, Behind
  <2>3. Len(games) \in Nat /\ DOMAIN games = 1 .. Len(games)
    BY <2>1, SequenceIs
  <2>4. \A i \in DOMAIN games' : i \in DOMAIN games \/ i = Len(games) + 1
    BY <2>2, <2>3
  <2>5. g.loader = None
    BY <1>4
  <2> QED BY <2>2, <2>4, <2>5 DEF Loaders
<1>14. ShowsOn(todo, q, heap, games, heap', games')
  <2>1. \A l : ~Shows(todo, heap, 1, l)
    BY <1>2, ShowsNone
  <2> QED BY <1>2, <1>13, <2>1 DEF ShowsOn, HeadIs
<1>15. Known(heap, tickets) \subseteq Known(heap', tickets')
  BY <1>2, <1>5, <1>6 DEF Known, ListOk, IsAlone, Rising, HeadIs
<1>16. todo # <<>> /\ Then(q) /\ session' = session
  BY <1>2, <1>5, <1>9 DEF HeadIs
<1> QED BY <1>5, <1>6, <1>10, <1>11, <1>12, <1>14, <1>15, <1>16, LoadsStep

\* What complete packages are
LEMMA PackageComplete ==
  ASSUME OnDisk, Complete, NEW x \in DOMAIN session.games, NEW files, files = session.games[x].files
  PROVE  /\ \A k \in DOMAIN files : Opened(x, k) => \A r \in Right(files[k]) :
              \/ r \in TicketsBelow(session, x)
              \/ \E j \in DOMAIN files : /\ files[j].kind = "tik" /\ files[j].ticket = r
                                         /\ (session.games[x].type = "nsp" \/ j < k)
         /\ \E k \in DOMAIN files : Opened(x, k) /\ HasIcon(files[k])
<1>1. x \in Nat \ {0}
  <2>1. IsSequence(session.games)
    BY SessionsAssumption DEF OnDisk
  <2>2. DOMAIN session.games = 1 .. Len(session.games) /\ Len(session.games) \in Nat
    BY <2>1, SequenceIs
  <2> QED BY <2>2
<1>2. \E k \in DOMAIN files : Opened(x, k) /\ HasIcon(files[k])
  BY DEF Complete, HasIcon
<1>3. ASSUME NEW k \in DOMAIN files, Opened(x, k), NEW r \in Right(files[k])
      PROVE  \/ r \in TicketsBelow(session, x)
             \/ \E j \in DOMAIN files : /\ files[j].kind = "tik" /\ files[j].ticket = r
                                        /\ (session.games[x].type = "nsp" \/ j < k)
  <2>1. HasCtr(files[k]) /\ r = files[k].rights /\ r # NoName
    BY <1>3 DEF Right
  <2>2. r \in TicketsBefore(x, k)
    BY <1>3, <2>1 DEF Complete, HasCtr
  <2>3. PICK y \in 1 .. x :
          \E j \in DOMAIN session.games[y].files :
            /\ session.games[y].files[j].kind = "tik" /\ session.games[y].files[j].ticket = r
            /\ (y < x \/ session.games[x].type = "nsp" \/ j < k)
    BY <2>2 DEF TicketsBefore
  <2>6. PICK j \in DOMAIN session.games[y].files :
            /\ session.games[y].files[j].kind = "tik" /\ session.games[y].files[j].ticket = r
            /\ (y < x \/ session.games[x].type = "nsp" \/ j < k)
    BY <2>3
  <2>4. CASE y = x
    BY <1>1, <2>6, <2>4
  <2>5. CASE y # x
    <3>1. y \in 1 .. x - 1
      BY <1>1, <2>3, <2>5
    <3>2. session.games[y].files[j] \in Range(session.games[y].files)
      BY <2>6 DEF Range
    <3>3. r \in TicketsOf(session, y)
      BY <2>6, <3>2 DEF TicketsOf
    <3> QED BY <3>1, <3>3 DEF TicketsBelow
  <2> QED BY <2>4, <2>5
<1> QED BY <1>2, <1>3

\* The loader of the last game is set.
LEMMA LoaderMore ==
  ASSUME NEW h, NEW g, GamesOk(h, g), NEW l, NEW g2, g2 = [g EXCEPT ![Len(g)].loader = l]
  PROVE  Loaders(g2) \subseteq Loaders(g) \cup {l}
<1>1. ASSUME NEW a \in DOMAIN g2 PROVE g2[a].loader \in {l, g[a].loader} /\ a \in DOMAIN g
  <2>1. a \in DOMAIN g /\ g[a] = [file |-> g[a].file, loader |-> g[a].loader, type |-> g[a].type]
    BY <1>1 DEF GamesOk
  <2>2. g2[a] = IF a = Len(g) THEN [g[a] EXCEPT !.loader = l] ELSE g[a]
    BY <2>1
  <2>3. [g[a] EXCEPT !.loader = l].loader = l
    BY <2>1
  <2> QED BY <2>1, <2>2, <2>3
<1> QED BY <1>1 DEF Loaders

\* Plain calls need nothing.
LEMMA PlainCalls ==
  ASSUME NEW ses, NEW h, NEW q, IsPlain(q), NEW j \in DOMAIN q
  PROVE  Suits(ses, h, q[j]) /\ q[j].op # "logos" /\ Needs(ses, q[j]) = {}
<1>1. q[j].op \in PlainOps
  BY DEF IsPlain, AllIn
<1> QED BY <1>1 DEF PlainOps, Suits, Needs, OpensArchive, GameOps

\* No call at all
LEMMA MakesNothing ==
  ASSUME Then(<<>>)
  PROVE  \E q : IsSequence(q) /\ DOMAIN q = {} /\ Then(q)
<1>1. IsSequence(<<>>) /\ Len(<<>>) = 0
  BY Small
<1>2. DOMAIN <<>> = {}
  BY <1>1, SequenceIs
<1> QED BY <1>1, <1>2

\* A ticket loaded
LEMMA LoadTikLoads ==
  ASSUME Ok, LoadsWell, LoadTik
  PROVE  LoadsWell' /\ ended' = ended
<1>1. Calling("load_tik") /\ SameLists
  BY DEF LoadTik
<1>2. PICK c : HeadIs(c) /\ c.op = "load_tik"
  BY <1>1, HeadFound
<1>3. \A l : ~Shows(todo, heap, 1, l)
  BY <1>2, ShowsNone
<1>4. Brings(session, heap, todo[1]) = IF c.e.kind = "tik" THEN {c.e.ticket} ELSE {}
  BY <1>2 DEF HeadIs, Brings, GameOps
<1>5. CASE c.e.kind = "tik"
  <2>1. PICK a, b, o, x, y, q : /\ x = New /\ y = New + 1 /\ a = CallOn("close_file", c.dir, x)
                                /\ b = Call("keys_db_add_ticket", y)
                                /\ o = Offset(heap[c.dir].base) /\ q = <<a, b>>
    OBVIOUS
  <2>2. heap' = heap \o <<o, Ticket(c.e)>> /\ Then(<<a, b>>)
    <3>1. Arg = c
      BY <1>2 DEF HeadIs
    <3>2. Is({"tik"}, Arg.e)
      BY <1>5, <3>1 DEF Is
    <3>3. heap' = heap \o <<Offset(heap[Arg.dir].base), Ticket(Arg.e)>>
          /\ Then(<<CallOn("close_file", Arg.dir, New), Call("keys_db_add_ticket", New + 1)>>)
      BY <3>2 DEF LoadTik
    <3> QED BY <2>1, <3>1, <3>3
  <2>3. Rising(heap, heap') /\ heap'[y] = Ticket(c.e)
    <3>1. IsSequence(heap)
      BY <1>2 DEF HeadIs
    <3>2. Rising(heap, heap \o <<o, Ticket(c.e)>>)
            /\ (heap \o <<o, Ticket(c.e)>>)[Len(heap) + 2] = Ticket(c.e)
      BY <3>1, RisingAppends
    <3>3. y = Len(heap) + 2
      BY <2>1, <3>1, SequenceIs DEF New
    <3> QED BY <2>2, <3>2, <3>3
  <2>4. a.op = "close_file" /\ b.op = "keys_db_add_ticket" /\ b.x = y
    <3>1. b.x = y
      BY <2>1 DEF Call
    <3> QED BY <2>1, <3>1, CallNames
  <2>5. IsSequence(q) /\ DOMAIN q = {1, 2} /\ q[1] = a /\ q[2] = b
    <3>1. IsSequence(q) /\ Len(q) = 2
      BY <2>1, Small
    <3> QED BY <2>1, <3>1
  <2>6. IsPlain(q)
    BY <2>1, <2>4, PlainTwo, PlainNames
  <2>7. Meets(session, todo, q, heap, heap', tickets)
    <3>1. Ticket(c.e).path = c.e.ticket
      BY DEF Ticket, Named, Object
    <3>2. Brings(session, heap', q[2]) = {c.e.ticket}
      BY <2>3, <2>4, <2>5, <3>1 DEF Brings, GameOps
    <3>3. \A j \in DOMAIN q : Needs(session, q[j]) = {}
      BY <2>6, PlainCalls
    <3> QED BY <1>4, <1>5, <2>5, <3>2, <3>3 DEF Meets
  <2>8. Then(q)
    BY <2>1, <2>2
  <2>9. \A j \in DOMAIN q : Suits(session, heap', q[j]) /\ q[j].op # "logos"
    BY <2>6, PlainCalls
  <2> QED BY <1>1, <1>2, <1>3, <2>3, <2>5, <2>7, <2>8, <2>9, LoadsOn
<1>6. CASE c.e.kind # "tik"
  <2>1. heap' = heap /\ Then(<<>>)
    <3>1. Arg = c
      BY <1>2 DEF HeadIs
    <3>2. ~Is({"tik"}, Arg.e)
      BY <1>6, <3>1 DEF Is
    <3> QED BY <3>2 DEF LoadTik
  <2>3. PICK q : IsSequence(q) /\ DOMAIN q = {} /\ Then(q)
    BY <2>1, MakesNothing
  <2>4. Meets(session, todo, q, heap, heap', tickets)
    BY <1>4, <1>6, <2>3 DEF Meets
  <2>5. Rising(heap, heap')
    BY <2>1, RisingSame
  <2> QED BY <1>1, <1>2, <1>3, <2>3, <2>4, <2>5, LoadsOn
<1> QED BY <1>5, <1>6

\* An archive of an nsp to be opened
LEMMA NspAddFileLoads ==
  ASSUME Ok, LoadsWell, NspAddFile
  PROVE  LoadsWell' /\ ended' = ended
<1>1. Calling("nsp_addfile") /\ SameLists /\ heap' = heap
  BY DEF NspAddFile
<1>2. PICK c : HeadIs(c) /\ c.op = "nsp_addfile"
  BY <1>1, HeadFound
<1>3. Rising(heap, heap')
  BY <1>1, RisingSame
<1>4. Brings(session, heap, todo[1]) = {}
  BY <1>2 DEF HeadIs, Brings, GameOps
<1>5. c.owner # None
  BY <1>2 DEF HeadIs, IsCall, OpsOfPackages, Loaders
<1>6. CASE c.e.kind \in {"nca", "cnmt"}
  <2>1. PICK a, q : a = CallWith("content_archive_create", c.owner, c.dir, c.e) /\ q = <<a>>
    OBVIOUS
  <2>2. Then(q)
    <3>1. Arg = c
      BY <1>2 DEF HeadIs
    <3>2. Is({"nca", "cnmt"}, Arg.e)
      BY <1>6, <3>1 DEF Is
    <3> QED BY <2>1, <3>1, <3>2 DEF NspAddFile
  <2>3. a.op = "content_archive_create" /\ a.owner = c.owner /\ a.e = c.e
    <3>1. a.owner = c.owner /\ a.e = c.e
      BY <2>1 DEF CallWith
    <3> QED BY <2>1, <3>1, CallNames
  <2>4. IsSequence(q) /\ DOMAIN q = {1} /\ q[1] = a
    <3>1. IsSequence(q) /\ Len(q) = 1
      BY <2>1, Small
    <3> QED BY <2>1, <3>1
  <2>5. \A j \in DOMAIN q : Suits(session, heap', q[j]) /\ q[j].op # "logos"
    BY <1>5, <2>3, <2>4 DEF Suits
  <2>6. Meets(session, todo, q, heap, heap', tickets)
    <3>1. Needs(session, todo[1]) = Right(c.e)
      BY <1>2, <1>6 DEF HeadIs, Needs, OpensArchive, GameOps
    <3>2. Needs(session, q[1]) = Right(c.e)
      BY <2>3, <2>4 DEF Needs, OpensArchive, GameOps
    <3> QED BY <1>4, <2>4, <3>1, <3>2 DEF Meets
  <2>7. ASSUME NEW l, Shows(todo, heap, 1, l) PROVE Shows(q, heap', 1, l)
    <3>1. c.owner = l /\ HasIcon(c.e)
      BY <1>2, <2>7 DEF Shows, HeadIs
    <3> QED BY <2>3, <2>4, <3>1 DEF Shows, OpensArchive
  <2> QED BY <1>1, <1>2, <1>3, <2>2, <2>4, <2>5, <2>6, <2>7, LoadsOn
<1>7. CASE c.e.kind \notin {"nca", "cnmt"}
  <2>1. Then(<<>>)
    <3>1. Arg = c
      BY <1>2 DEF HeadIs
    <3>2. ~Is({"nca", "cnmt"}, Arg.e)
      BY <1>7, <3>1 DEF Is
    <3> QED BY <3>2 DEF NspAddFile
  <2>3. PICK q : IsSequence(q) /\ DOMAIN q = {} /\ Then(q)
    BY <2>1, MakesNothing
  <2>4. Meets(session, todo, q, heap, heap', tickets)
    BY <1>4, <2>3 DEF Meets
  <2>5. \A l : ~Shows(todo, heap, 1, l)
    BY <1>2, <1>7 DEF Shows, HeadIs, OpensArchive
  <2> QED BY <1>1, <1>2, <1>3, <2>3, <2>4, <2>5, LoadsOn
<1> QED BY <1>6, <1>7

\* A ticket added
LEMMA AddTicketLoads ==
  ASSUME Ok, LoadsWell, AddTicket
  PROVE  LoadsWell' /\ ended' = ended
<1>1. Calling("keys_db_add_ticket") /\ Same /\ heap' = heap /\ games' = games /\ Then(<<>>)
  BY DEF AddTicket
<1>2. PICK c : HeadIs(c) /\ c.op = "keys_db_add_ticket"
  BY <1>1, HeadFound
<1>3. Arg = c /\ IsSequence(tickets)
  BY <1>2 DEF HeadIs, ListOk
<1>5. PICK q : IsSequence(q) /\ DOMAIN q = {} /\ Then(q)
  BY <1>1, MakesNothing
<1>6. Known(heap, tickets') = Known(heap, tickets) \cup {heap[c.x].path}
  <2>1. CASE \E i \in Range(tickets) : heap[i].path = heap[c.x].path
    BY <1>3, <2>1 DEF AddTicket, Known
  <2>2. CASE ~ \E i \in Range(tickets) : heap[i].path = heap[c.x].path
    <3>1. tickets' = Append(tickets, c.x)
      BY <1>3, <2>2 DEF AddTicket
    <3>2. Range(tickets') = Range(tickets) \cup {c.x}
      BY <1>3, <3>1, Behind
    <3> QED BY <3>2 DEF Known
  <2> QED BY <2>1, <2>2
<1>7. Known(heap, tickets) \subseteq Known(heap', tickets')
  BY <1>1, <1>6
<1>8. Meets(session, todo, q, heap, heap', tickets')
  <2>1. Brings(session, heap, todo[1]) = {heap[c.x].path}
    BY <1>2 DEF HeadIs, Brings, GameOps
  <2> QED BY <1>1, <1>5, <1>6, <2>1 DEF Meets
<1>9. ShowsOn(todo, q, heap, games, heap', games')
  <2>1. \A l : ~Shows(todo, heap, 1, l)
    BY <1>2, ShowsNone
  <2> QED BY <1>1, <1>2, <2>1 DEF ShowsOn, HeadIs
<1>10. Rising(heap, heap') /\ todo # <<>> /\ session' = session /\ ended' = ended
  BY <1>1, <1>2, RisingSame DEF HeadIs, Same
<1> QED BY <1>5, <1>7, <1>8, <1>9, <1>10, LoadsStep

\* The calls for the files of a package
LEMMA FileCalls ==
  ASSUME NEW files, IsSequence(files), NEW name, NEW l, NEW d, NEW q,
         q = EachWith(name, l, d, files)
  PROVE  /\ IsSequence(q) /\ Len(q) = Len(files) /\ DOMAIN q = DOMAIN files
         /\ \A i \in DOMAIN files : q[i].op = name /\ q[i].owner = l /\ q[i].e = files[i]
<1>1. IsSequence(q) /\ Len(q) = Len(files) /\ DOMAIN q = DOMAIN files
      /\ \A i \in DOMAIN files : q[i] = CallWith(name, l, d, files[i])
  BY EachFacts
<1>2. ASSUME NEW i \in DOMAIN files PROVE q[i].op = name /\ q[i].owner = l /\ q[i].e = files[i]
  <2>1. q[i] = CallWith(name, l, d, files[i])
    BY <1>1, <1>2
  <2>2. PICK e : e = files[i]
    OBVIOUS
  <2>3. CallWith(name, l, d, e).op = name /\ CallWith(name, l, d, e).owner = l
          /\ CallWith(name, l, d, e).e = e
    BY DEF CallWith
  <2> QED BY <2>1, <2>2, <2>3
<1> QED BY <1>1, <1>2

\* A package is opened.
LEMMA PackageHead ==
  ASSUME Ok, OnDisk, LoadsWell, Complete, NEW name \in {"nsp", "nsz"}, Calling(name)
  PROVE  \E c, files :
           /\ HeadIs(c) /\ c.op = name /\ c.x \in DOMAIN session.games
           /\ files = session.games[c.x].files
           /\ IsSequence(files) /\ session.games[c.x].type = name
           /\ Brings(session, heap, todo[1]) = TicketsOf(session, c.x)
           /\ Needs(session, todo[1]) = TicketsBelow(session, c.x)
           /\ \A l : ~Shows(todo, heap, 1, l)
<1>1. PICK c : HeadIs(c) /\ c.op = name
  BY HeadFound
<1>2. PICK files : files = session.games[c.x].files
  OBVIOUS
<1>3. c.x \in DOMAIN session.games /\ session.games[c.x].type = name
  BY <1>1 DEF HeadIs, IsCall, Suits
<1>4. IsSequence(files)
  BY <1>2, <1>3, SessionsAssumption DEF OnDisk, IsPackage
<1>5. Brings(session, heap, todo[1]) = TicketsOf(session, c.x)
        /\ Needs(session, todo[1]) = TicketsBelow(session, c.x)
  BY <1>1 DEF HeadIs, Brings, Needs, GameOps
<1>6. \A l : ~Shows(todo, heap, 1, l)
  BY <1>1, ShowsNone
<1> QED BY <1>1, <1>2, <1>3, <1>4, <1>5, <1>6

\* A package of the first kind
LEMMA NspCreateLoads ==
  ASSUME Ok, OnDisk, LoadsWell, Complete, NspCreate
  PROVE  LoadsWell' /\ ended' = ended
<1>1. Calling("nsp")
  BY DEF NspCreate
<1>2. PICK c, files :
         /\ HeadIs(c) /\ c.op = "nsp" /\ c.x \in DOMAIN session.games
         /\ files = session.games[c.x].files
         /\ IsSequence(files) /\ session.games[c.x].type = "nsp"
         /\ Brings(session, heap, todo[1]) = TicketsOf(session, c.x)
         /\ Needs(session, todo[1]) = TicketsBelow(session, c.x)
         /\ \A l : ~Shows(todo, heap, 1, l)
  BY <1>1, PackageHead
<1>3. PICK l, d, p1, p2, q, n, o1, o2 :
        /\ d = New /\ l = New + 1 /\ n = Len(files)
        /\ p1 = EachWith("load_tik", l, d, files) /\ p2 = EachWith("nsp_addfile", l, d, files)
        /\ q = p1 \o p2 /\ o1 = Pfs(c.dir) /\ o2 = Inside(New, Object("loader", None))
  OBVIOUS
<1>4. /\ heap' = heap \o <<o1, o2>> /\ games' = [games EXCEPT ![Len(games)].loader = l]
      /\ Then(p1 \o p2)
      /\ Same /\ tickets' = tickets
  <2>1. Arg = c
    BY <1>2 DEF HeadIs
  <2> QED BY <1>2, <1>3, <2>1 DEF NspCreate, NspOrder
<1>5. /\ IsSequence(q) /\ n \in Nat /\ DOMAIN files = 1 .. n /\ DOMAIN q = 1 .. n + n
      /\ \A i \in 1 .. n : q[i].op = "load_tik" /\ q[i].e = files[i]
      /\ \A i \in 1 .. n : q[n + i].op = "nsp_addfile" /\ q[n + i].e = files[i]
           /\ q[n + i].owner = l
  <2>7. /\ IsSequence(p1) /\ Len(p1) = n
        /\ \A i \in DOMAIN files : p1[i].op = "load_tik" /\ p1[i].e = files[i]
    <3>1. IsSequence(files) /\ n = Len(files) /\ p1 = EachWith("load_tik", l, d, files)
      BY <1>2, <1>3
    <3> QED BY <3>1, FileCalls
  <2>8. /\ IsSequence(p2) /\ Len(p2) = n
        /\ \A i \in DOMAIN files : p2[i].op = "nsp_addfile" /\ p2[i].e = files[i] /\ p2[i].owner = l
    <3>1. IsSequence(files) /\ n = Len(files) /\ p2 = EachWith("nsp_addfile", l, d, files)
      BY <1>2, <1>3
    <3> QED BY <3>1, FileCalls
  <2>2. n \in Nat /\ DOMAIN files = 1 .. n
    BY <1>2, <1>3, SequenceIs
  <2>3. IsSequence(q) /\ Len(q) = n + n
        /\ \A i \in 1 .. n + n : q[i] = IF i <= n THEN p1[i] ELSE p2[i - n]
    <3>1. /\ IsSequence(p1 \o p2) /\ Len(p1 \o p2) = Len(p1) + Len(p2)
          /\ \A i \in 1 .. Len(p1) + Len(p2) : (p1 \o p2)[i] = IF i <= Len(p1) THEN p1[i] ELSE p2[i - Len(p1)]
      BY <2>7, <2>8, Joining
    <3>2. q = p1 \o p2
      BY <1>3
    <3> QED BY <2>7, <2>8, <3>1, <3>2
  <2>4. \A i \in 1 .. n : q[i] = p1[i]
    BY <2>2, <2>3
  <2>5. ASSUME NEW i \in 1 .. n PROVE q[n + i] = p2[i]
    <3>1. PICK v : v = n + i
      OBVIOUS
    <3>2. v \in 1 .. n + n /\ ~(v <= n) /\ v - n = i
      BY <2>2, <2>5, <3>1
    <3>3. q[v] = p2[v - n]
      BY <2>3, <3>2
    <3> QED BY <3>1, <3>2, <3>3
  <2>6. DOMAIN q = 1 .. n + n
    BY <2>3, SequenceIs
  <2> QED BY <2>7, <2>8, <2>2, <2>3, <2>4, <2>5, <2>6
<1>6. \A k \in DOMAIN q : k \in 1 .. n \/ \E i \in 1 .. n : k = n + i
  <2>1. ASSUME NEW k \in 1 .. n + n, k \notin 1 .. n PROVE k - n \in 1 .. n /\ k = n + (k - n)
    BY <1>5, <2>1
  <2> QED BY <1>5, <2>1
<1>7. \A k \in DOMAIN q : Suits(session, heap', q[k]) /\ q[k].op # "logos"
  <2>1. \A k \in DOMAIN q : q[k].op \in {"load_tik", "nsp_addfile"}
    BY <1>5, <1>6
  <2> QED BY <2>1 DEF Suits
<1>8. ASSUME NEW j \in 1 .. n, files[j].kind = "tik"
      PROVE  files[j].ticket \in Brings(session, heap', q[j])
  BY <1>5, <1>8 DEF Brings, GameOps
<1>9. Meets(session, todo, q, heap, heap', tickets')
  <2>1. ASSUME NEW r \in TicketsOf(session, c.x)
        PROVE \E j \in DOMAIN q : r \in Brings(session, heap', q[j])
    <3>1. PICK j \in DOMAIN files : files[j].kind = "tik" /\ files[j].ticket = r
      BY <1>2, <2>1 DEF TicketsOf, Range
    <3>2. j \in 1 .. n /\ j \in DOMAIN q
      BY <1>5, <3>1
    <3> QED BY <1>8, <3>1, <3>2
  <2>2. ASSUME NEW k \in DOMAIN q, NEW r \in Needs(session, q[k])
        PROVE  r \in TicketsBelow(session, c.x)
               \/ \E j \in 1 .. k - 1 : r \in Brings(session, heap', q[j])
    <3>1. CASE k \in 1 .. n
      <4>1. Needs(session, q[k]) = {}
        BY <1>5, <3>1 DEF Needs, OpensArchive, GameOps
      <4> QED BY <2>2, <4>1
    <3>2. CASE \E i \in 1 .. n : k = n + i
      <4>1. PICK i \in 1 .. n : k = n + i
        BY <3>2
      <4>2. q[k].op = "nsp_addfile" /\ q[k].e = files[i]
        BY <1>5, <4>1
      <4>3. files[i].kind \in {"nca", "cnmt"} /\ r \in Right(files[i])
        BY <2>2, <4>2 DEF Needs, OpensArchive, GameOps
      <4>4. Opened(c.x, i) /\ i \in DOMAIN files
        BY <1>2, <1>5, <4>3 DEF Opened
      <4>5. r \in TicketsBelow(session, c.x)
            \/ \E j \in DOMAIN files : files[j].kind = "tik" /\ files[j].ticket = r
        BY <1>2, <4>3, <4>4, PackageComplete
      <4>6. \A j \in DOMAIN files : j \in 1 .. n /\ j \in 1 .. k - 1
        BY <1>5, <4>1
      <4> QED BY <1>8, <4>5, <4>6
    <3> QED BY <1>6, <3>1, <3>2
  <2> QED BY <1>2, <2>1, <2>2 DEF Meets
<1>10. \E k \in DOMAIN q : Shows(q, heap', k, l)
  <2>1. PICK i \in DOMAIN files : Opened(c.x, i) /\ HasIcon(files[i])
    BY <1>2, PackageComplete
  <2>2. files[i].kind \in {"nca", "cnmt"}
    BY <1>2, <2>1 DEF Opened
  <2>3. PICK k : k = n + i
    OBVIOUS
  <2>4. k \in DOMAIN q /\ i \in 1 .. n
    BY <1>5, <2>3
  <2>5. q[k].op = "nsp_addfile" /\ q[k].e = files[i] /\ q[k].owner = l
    BY <1>5, <2>3, <2>4
  <2> QED BY <2>1, <2>2, <2>4, <2>5 DEF Shows, OpensArchive
<1>11. ShowsOn(todo, q, heap, games, heap', games')
  <2>1. Loaders(games') \subseteq Loaders(games) \cup {l}
    BY <1>2, <1>4, LoaderMore DEF HeadIs
  <2> QED BY <1>2, <1>10, <2>1 DEF ShowsOn, HeadIs
<1>12. Rising(heap, heap')
  BY <1>2, <1>4, RisingAppends DEF HeadIs
<1>13. Known(heap, tickets) \subseteq Known(heap', tickets')
  BY <1>2, <1>4, <1>12 DEF Known, ListOk, IsAlone, Rising, HeadIs
<1>14. todo # <<>> /\ Then(q) /\ session' = session /\ ended' = ended
  BY <1>2, <1>3, <1>4 DEF HeadIs, Same
<1> QED BY <1>5, <1>7, <1>9, <1>11, <1>12, <1>13, <1>14, LoadsStep

\* A package of the second kind
LEMMA NszCreateLoads ==
  ASSUME Ok, OnDisk, LoadsWell, Complete, NszCreate
  PROVE  LoadsWell' /\ ended' = ended
<1>1. Calling("nsz")
  BY DEF NszCreate
<1>2. PICK c, files :
         /\ HeadIs(c) /\ c.op = "nsz" /\ c.x \in DOMAIN session.games
         /\ files = session.games[c.x].files
         /\ IsSequence(files) /\ session.games[c.x].type = "nsz"
         /\ Brings(session, heap, todo[1]) = TicketsOf(session, c.x)
         /\ Needs(session, todo[1]) = TicketsBelow(session, c.x)
         /\ \A l : ~Shows(todo, heap, 1, l)
  BY <1>1, PackageHead
<1>3. PICK l, d, q, n, o1, o2, o3 :
        /\ d = New /\ l = New + 2 /\ n = Len(files) /\ q = EachWith("nsz_addfile", l, d, files)
        /\ o1 = Pfs(c.dir) /\ o2 = NcaFiles /\ o3 = Inside(New, Object("loader", New + 1))
  OBVIOUS
<1>4. /\ heap' = heap \o <<o1, o2, o3>> /\ games' = [games EXCEPT ![Len(games)].loader = l]
      /\ Then(q)
      /\ Same /\ tickets' = tickets
  <2>1. Arg = c
    BY <1>2 DEF HeadIs
  <2>2. Then(EachWith("nsz_addfile", l, d, files))
    BY <1>2, <1>3, <2>1 DEF NszCreate
  <2> QED BY <1>2, <1>3, <2>1, <2>2 DEF NszCreate
<1>5. /\ IsSequence(q) /\ n \in Nat /\ DOMAIN files = 1 .. n /\ DOMAIN q = 1 .. n
      /\ \A i \in 1 .. n : q[i].op = "nsz_addfile" /\ q[i].e = files[i] /\ q[i].owner = l
  <2>1. n \in Nat /\ DOMAIN files = 1 .. n
    BY <1>2, <1>3, SequenceIs
  <2>2. IsSequence(q) /\ DOMAIN q = DOMAIN files
        /\ \A i \in DOMAIN files : q[i].op = "nsz_addfile" /\ q[i].owner = l /\ q[i].e = files[i]
    BY <1>2, <1>3, FileCalls
  <2> QED BY <2>1, <2>2
<1>6. \A k \in DOMAIN q : Suits(session, heap', q[k]) /\ q[k].op # "logos"
  BY <1>5 DEF Suits
<1>7. ASSUME NEW j \in 1 .. n, files[j].kind = "tik"
      PROVE  files[j].ticket \in Brings(session, heap', q[j])
  BY <1>5, <1>7 DEF Brings, GameOps
<1>8. Meets(session, todo, q, heap, heap', tickets')
  <2>1. ASSUME NEW r \in TicketsOf(session, c.x)
        PROVE \E j \in DOMAIN q : r \in Brings(session, heap', q[j])
    <3>1. PICK j \in DOMAIN files : files[j].kind = "tik" /\ files[j].ticket = r
      BY <1>2, <2>1 DEF TicketsOf, Range
    <3> QED BY <1>5, <1>7, <3>1
  <2>2. ASSUME NEW k \in DOMAIN q, NEW r \in Needs(session, q[k])
        PROVE  r \in TicketsBelow(session, c.x)
               \/ \E j \in 1 .. k - 1 : r \in Brings(session, heap', q[j])
    <3>1. q[k].op = "nsz_addfile" /\ q[k].e = files[k] /\ k \in 1 .. n
      BY <1>5
    <3>2. files[k].kind \in {"nca", "ncz"} /\ r \in Right(files[k])
      BY <2>2, <3>1 DEF Needs, OpensArchive, GameOps
    <3>3. Opened(c.x, k) /\ k \in DOMAIN files
      BY <1>2, <1>5, <3>2 DEF Opened
    <3>4. r \in TicketsBelow(session, c.x)
          \/ \E j \in DOMAIN files : files[j].kind = "tik" /\ files[j].ticket = r
               /\ (session.games[c.x].type = "nsp" \/ j < k)
      BY <1>2, <3>2, <3>3, PackageComplete
    <3>5. \A j \in DOMAIN files : j < k => j \in 1 .. n /\ j \in 1 .. k - 1
      BY <1>5, <3>1
    <3> QED BY <1>2, <1>7, <3>4, <3>5
  <2> QED BY <1>2, <2>1, <2>2 DEF Meets
<1>9. \E k \in DOMAIN q : Shows(q, heap', k, l)
  <2>1. PICK i \in DOMAIN files : Opened(c.x, i) /\ HasIcon(files[i])
    BY <1>2, PackageComplete
  <2>2. files[i].kind \in {"nca", "ncz"}
    BY <1>2, <2>1 DEF Opened
  <2>3. i \in DOMAIN q /\ q[i].op = "nsz_addfile" /\ q[i].e = files[i] /\ q[i].owner = l
    BY <1>5
  <2> QED BY <2>1, <2>2, <2>3 DEF Shows, OpensArchive
<1>10. ShowsOn(todo, q, heap, games, heap', games')
  <2>1. Loaders(games') \subseteq Loaders(games) \cup {l}
    BY <1>2, <1>4, LoaderMore DEF HeadIs
  <2> QED BY <1>2, <1>9, <2>1 DEF ShowsOn, HeadIs
<1>11. Rising(heap, heap')
  <2>1. PICK h1, h2, h3 : h1 = Append(heap, o1) /\ h2 = Append(h1, o2) /\ h3 = Append(h2, o3)
    OBVIOUS
  <2>2. IsSequence(heap)
    BY <1>2 DEF HeadIs
  <2>3. Rising(heap, h1) /\ IsSequence(h1) /\ \A i \in DOMAIN heap : i \in DOMAIN h1
          /\ h1[i] = heap[i]
    BY <2>1, <2>2, RisingAppend
  <2>4. Rising(h1, h2) /\ IsSequence(h2) /\ \A i \in DOMAIN h1 : i \in DOMAIN h2 /\ h2[i] = h1[i]
    BY <2>1, <2>3, RisingAppend
  <2>5. Rising(h2, h3)
    BY <2>1, <2>4, RisingAppend
  <2>6. Rising(heap, h2)
    BY <2>3, <2>4, RisingOn
  <2>7. Rising(heap, h3)
    BY <2>3, <2>4, <2>5, <2>6, RisingOn
  <2>8. heap' = h3
    BY <1>4, <2>1, <2>2, BehindThree
  <2> QED BY <2>7, <2>8
<1>12. Known(heap, tickets) \subseteq Known(heap', tickets')
  BY <1>2, <1>4, <1>11 DEF Known, ListOk, IsAlone, Rising, HeadIs
<1>13. todo # <<>> /\ Then(q) /\ session' = session /\ ended' = ended
  BY <1>2, <1>3, <1>4 DEF HeadIs, Same
<1> QED BY <1>5, <1>6, <1>8, <1>10, <1>11, <1>12, <1>13, LoadsStep

\* A directory holds one more file.
LEMMA RisingStored ==
  ASSUME NEW h, HeapOk(h), NEW d \in DOMAIN h, h[d].kind # "loader", NEW h1, Rising(h, h1),
         IsSequence(h1),
         \A i \in DOMAIN h : i \in DOMAIN h1 /\ h1[i] = h[i]
  PROVE  Rising(h, WithFile(d, h1))
<1>1. IsObject(h, d)
  BY DEF HeapOk
<1>2. PICK v, p, h2 : v = Append(h[d].parts, Len(h1)) /\ p = [h[d] EXCEPT !.parts = v]
        /\ h2 = [h1 EXCEPT ![d] = p]
  OBVIOUS
<1>3. Alike(h[d], p)
  BY <1>1, <1>2, AlikeFields
<1>4. h1[d] = h[d] /\ d \in DOMAIN h1
  OBVIOUS
<1>5. Rising(h1, h2)
  BY <1>2, <1>3, <1>4, RisingAt
<1>6. Rising(h, h2)
  BY <1>5, RisingOn
<1>7. WithFile(d, h1) = h2
  <2>1. WithFile(d, h1) = [h1 EXCEPT ![d] = [h1[d] EXCEPT !.parts = Append(h1[d].parts, Len(h1))]]
    BY DEF WithFile
  <2> QED BY <1>2, <1>4, <2>1
<1> QED BY <1>6, <1>7

\* A file of an nsz
LEMMA NszAddFileLoads ==
  ASSUME Ok, LoadsWell, NszAddFile
  PROVE  LoadsWell' /\ ended' = ended
<1>1. Calling("nsz_addfile")
  BY DEF NszAddFile
<1>2. PICK hd : HeadIs(hd) /\ hd.op = "nsz_addfile"
  BY <1>1, HeadFound
<1>3. PICK n, C, l, pfs, bs, nf, e : NszFile(n, C, l, pfs, bs, nf, e)
  BY DEF NszFile
<1>4. NszFinds(n, C, l, pfs, bs, nf, e) /\ l = hd.owner /\ e = hd.e
  BY <1>1, <1>2, <1>3, NszFinding DEF NszFile, HeadIs
<1>5. l # None /\ nf \in DOMAIN heap /\ heap[nf].kind = "romfs" /\ HeapOk(heap)
        /\ IsSequence(heap) /\ Len(heap) \in Nat
  BY <1>4 DEF NszFinds, Loaders, HeapOk
<1>6. PICK x, y, file, a, b, c : NszMakes(n, C, l, pfs, bs, nf, e, x, y, file, a, b, c)
  BY <1>3, <1>5 DEF NszMakes
<1>7. /\ SameLists
      /\ e.kind = "nca" => heap' = WithFile(nf, Append(heap, Inside(nf, file))) /\ Then(<<a>>)
      /\ e.kind = "ncz" => heap' = WithFile(nf, heap \o <<file, Inside(nf, Unpacked(e))>>)
           /\ Then(<<a, c>>)
      /\ e.kind = "tik" => heap' = heap \o <<file, Ticket(e)>> /\ Then(<<b, c>>)
      /\ e.kind \notin {"nca", "ncz", "tik"} => heap' = Append(heap, file) /\ Then(<<c>>)
  BY <1>6, NszDoes
<1>8. /\ a.op = "content_archive_create" /\ a.owner = l /\ a.e = e
      /\ b.op = "keys_db_add_ticket" /\ b.x = y
      /\ c.op = "close_file" /\ y = Len(heap) + 2
  <2>1. /\ a = CallWith("content_archive_create", l, nf, e) /\ b = Call("keys_db_add_ticket", y)
        /\ c = CallOn("close_file", pfs, x) /\ y = Len(heap) + 2
    BY <1>6 DEF NszMakes
  <2>2. a.owner = l /\ a.e = e
    BY <2>1 DEF CallWith
  <2>3. b.x = y
    BY <2>1 DEF Call
  <2>4. a.op = "content_archive_create"
    BY <2>1, CallNames
  <2>5. b.op = "keys_db_add_ticket"
    BY <2>1, CallNames
  <2>6. c.op = "close_file"
    BY <2>1, CallNames
  <2> QED BY <2>1, <2>2, <2>3, <2>4, <2>5, <2>6
<1>9. Brings(session, heap, todo[1]) = IF e.kind = "tik" THEN {e.ticket} ELSE {}
  BY <1>2, <1>4 DEF HeadIs, Brings, GameOps
<1>10. Needs(session, todo[1]) = IF e.kind \in {"nca", "ncz"} THEN Right(e) ELSE {}
  BY <1>2, <1>4 DEF HeadIs, Needs, OpensArchive, GameOps
<1>11. \A m : Shows(todo, heap, 1, m) => e.kind \in {"nca", "ncz"} /\ m = l /\ HasIcon(e)
  BY <1>2, <1>4 DEF HeadIs, Shows, OpensArchive
<1>12. ASSUME NEW j, j = a \/ j = b \/ j = c
       PROVE  /\ Suits(session, heap', j) /\ j.op # "logos"
              /\ Needs(session, j) = IF j = a THEN Right(e) ELSE {}
  BY <1>5, <1>8, <1>12 DEF Suits, Needs, OpensArchive, GameOps
<1>13. CASE e.kind \in {"nca", "ncz"}
  <2>1. PICK q : IsSequence(q) /\ Then(q) /\ 1 \in DOMAIN q /\ q[1] = a
          /\ \A j \in DOMAIN q : q[j] \in {a, c}
    <3>1. IsSequence(<<a>>) /\ Len(<<a>>) = 1 /\ <<a>>[1] = a /\ IsSequence(<<a, c>>)
            /\ Len(<<a, c>>) = 2
          /\ <<a, c>>[1] = a /\ <<a, c>>[2] = c
      BY Small
    <3>2. DOMAIN <<a>> = {1} /\ DOMAIN <<a, c>> = {1, 2} /\ c # a
      BY <1>8, <3>1
    <3>3. Then(<<a>>) \/ Then(<<a, c>>)
      BY <1>7, <1>13
    <3>4. CASE Then(<<a>>)
      <4>1. PICK q : q = <<a>>
        OBVIOUS
      <4>2. IsSequence(q) /\ DOMAIN q = {1} /\ q[1] = a
        BY <3>1, <3>2, <4>1
      <4>3. Then(q)
        BY <3>4, <4>1
      <4> QED BY <4>2, <4>3
    <3>5. CASE Then(<<a, c>>)
      <4>1. PICK q : q = <<a, c>>
        OBVIOUS
      <4>2. IsSequence(q) /\ DOMAIN q = {1, 2} /\ q[1] = a /\ q[2] = c
        BY <3>1, <3>2, <4>1
      <4>3. Then(q)
        BY <3>5, <4>1
      <4> QED BY <3>2, <4>2, <4>3
    <3> QED BY <3>3, <3>4, <3>5
  <2>2. Rising(heap, heap')
    <3>1. ASSUME NEW o PROVE Rising(heap, WithFile(nf, Append(heap, o)))
      <4>1. PICK h1 : h1 = Append(heap, o)
        OBVIOUS
      <4>2. Rising(heap, h1) /\ IsSequence(h1) /\ \A i \in DOMAIN heap : i \in DOMAIN h1
              /\ h1[i] = heap[i]
        BY <1>5, <4>1, RisingAppend
      <4>3. Rising(heap, WithFile(nf, h1))
        BY <1>5, <4>2, RisingStored
      <4> QED BY <4>1, <4>3
    <3>2. ASSUME NEW o, NEW r PROVE Rising(heap, WithFile(nf, heap \o <<o, r>>))
      <4>1. PICK h1 : h1 = heap \o <<o, r>>
        OBVIOUS
      <4>2. Rising(heap, h1) /\ IsSequence(h1) /\ \A i \in DOMAIN heap : i \in DOMAIN h1
              /\ h1[i] = heap[i]
        BY <1>5, <4>1, RisingAppends
      <4>3. Rising(heap, WithFile(nf, h1))
        BY <1>5, <4>2, RisingStored
      <4> QED BY <4>1, <4>3
    <3>3. CASE e.kind = "nca"
      BY <1>7, <3>1, <3>3
    <3>4. CASE e.kind = "ncz"
      BY <1>7, <3>2, <3>4
    <3> QED BY <1>13, <3>3, <3>4
  <2>3. \A j \in DOMAIN q : Suits(session, heap', q[j]) /\ q[j].op # "logos"
    BY <1>12, <2>1
  <2>4. Meets(session, todo, q, heap, heap', tickets)
    <3>1. ASSUME NEW j \in DOMAIN q PROVE Needs(session, q[j]) \subseteq Right(e)
      BY <1>12, <2>1
    <3>2. Brings(session, heap, todo[1]) = {} /\ Needs(session, todo[1]) = Right(e)
      BY <1>9, <1>10, <1>13
    <3> QED BY <3>1, <3>2 DEF Meets
  <2>5. \A m : Shows(todo, heap, 1, m) => Shows(q, heap', 1, m)
    BY <1>8, <1>11, <2>1 DEF Shows, OpensArchive
  <2>6. hd.op # "get_file"
    BY <1>2
  <2> QED BY <1>2, <1>7, <2>1, <2>2, <2>3, <2>4, <2>5, <2>6, LoadsOn
<1>14. CASE e.kind = "tik"
  <2>1. PICK q : q = <<b, c>>
    OBVIOUS
  <2>2. IsSequence(q) /\ Then(q) /\ DOMAIN q = {1, 2} /\ q[1] = b /\ q[2] = c
    <3>1. IsSequence(q) /\ Len(q) = 2
      BY <2>1, Small
    <3> QED BY <1>7, <1>14, <2>1, <3>1
  <2>3. Rising(heap, heap') /\ heap'[y] = Ticket(e)
    <3>1. PICK t : t = Ticket(e)
      OBVIOUS
    <3>2. heap' = heap \o <<file, t>>
      BY <1>7, <1>14, <3>1
    <3>3. Rising(heap, heap \o <<file, t>>) /\ (heap \o <<file, t>>)[Len(heap) + 2] = t
      BY <1>5, RisingAppends
    <3> QED BY <1>8, <3>1, <3>2, <3>3
  <2>4. \A j \in DOMAIN q : Suits(session, heap', q[j]) /\ q[j].op # "logos"
          /\ Needs(session, q[j]) = {}
    BY <1>8, <1>12, <2>2
  <2>5. Meets(session, todo, q, heap, heap', tickets)
    <3>1. Ticket(e).path = e.ticket
      BY DEF Ticket, Named, Object
    <3>2. Brings(session, heap', q[1]) = {e.ticket}
      BY <1>8, <2>2, <2>3, <3>1 DEF Brings, GameOps
    <3> QED BY <1>9, <1>14, <2>2, <2>4, <3>2 DEF Meets
  <2>6. \A m : ~Shows(todo, heap, 1, m)
    BY <1>11, <1>14
  <2> QED BY <1>2, <1>7, <2>2, <2>3, <2>4, <2>5, <2>6, LoadsOn
<1>15. CASE e.kind \notin {"nca", "ncz", "tik"}
  <2>1. PICK q : q = <<c>>
    OBVIOUS
  <2>2. IsSequence(q) /\ Then(q) /\ DOMAIN q = {1} /\ q[1] = c
    <3>1. IsSequence(q) /\ Len(q) = 1
      BY <2>1, Small
    <3> QED BY <1>7, <1>15, <2>1, <3>1
  <2>3. Rising(heap, heap')
    <3>1. ASSUME NEW o PROVE Rising(heap, Append(heap, o))
      BY <1>5, RisingAppend
    <3> QED BY <1>7, <1>15, <3>1
  <2>4. \A j \in DOMAIN q : Suits(session, heap', q[j]) /\ q[j].op # "logos"
          /\ Needs(session, q[j]) = {}
    BY <1>8, <1>12, <2>2
  <2>5. Meets(session, todo, q, heap, heap', tickets)
    BY <1>9, <1>15, <2>2, <2>4 DEF Meets
  <2>6. \A m : ~Shows(todo, heap, 1, m)
    BY <1>11, <1>15
  <2> QED BY <1>2, <1>7, <2>2, <2>3, <2>4, <2>5, <2>6, LoadsOn
<1> QED BY <1>13, <1>14, <1>15

\* An archive put on the list of its package
LEMMA PushArchiveLoads ==
  ASSUME Ok, LoadsWell, PushArchive
  PROVE  LoadsWell' /\ ended' = ended
<1>1. Calling("list_push") /\ SameLists /\ Then(<<>>)
  BY DEF PushArchive
<1>2. PICK c : HeadIs(c) /\ c.op = "list_push"
  BY <1>1, HeadFound
<1>3. c.dir \in DOMAIN heap /\ c.x \in DOMAIN heap /\ IsSequence(heap) /\ HeapOk(heap)
  BY <1>2 DEF HeadIs, IsCall
<1>4. PICK d, s, v : d = c.dir /\ s = heap[d].parts /\ v = Append(s, c.x)
  OBVIOUS
<1>5. heap' = [heap EXCEPT ![d].parts = v]
  <2>1. Arg = c
    BY <1>2 DEF HeadIs
  <2> QED BY <1>4, <2>1 DEF PushArchive
<1>6. Range(v) = Range(s) \cup {c.x}
  <2>1. IsSequence(s)
    BY <1>3, <1>4 DEF HeapOk, IsObject
  <2> QED BY <1>4, <2>1, Behind
<1>7. /\ DOMAIN heap' = DOMAIN heap /\ heap'[d].parts = v
      /\ heap'[d].path = heap[d].path /\ heap'[d].romfs_list = heap[d].romfs_list
      /\ \A i \in DOMAIN heap : i # d => heap'[i] = heap[i]
  <2>1. PICK o, p : o = heap[d] /\ p = [o EXCEPT !.parts = v]
    OBVIOUS
  <2>2. o = [kind |-> o.kind, base |-> o.base, dir |-> o.dir, parts |-> o.parts,
             pfs_list |-> o.pfs_list, romfs_list |-> o.romfs_list, path |-> o.path, live |-> o.live]
    BY <1>3, <1>4, <2>1 DEF HeapOk, IsObject
  <2>3. p = [kind |-> o.kind, base |-> o.base, dir |-> o.dir, parts |-> v,
             pfs_list |-> o.pfs_list, romfs_list |-> o.romfs_list, path |-> o.path, live |-> o.live]
    BY <2>1, <2>2
  <2>4. heap' = [heap EXCEPT ![d] = p]
    BY <1>5, <2>1
  <2> QED BY <1>3, <1>4, <2>1, <2>3, <2>4
<1>8. Rising(heap, heap')
  <2>1. Range(heap[d].parts) \subseteq Range(heap'[d].parts)
    BY <1>4, <1>6, <1>7
  <2> QED BY <1>7, <2>1 DEF Rising
<1>9. PICK q : IsSequence(q) /\ DOMAIN q = {} /\ Then(q)
  BY <1>1, MakesNothing
<1>10. Meets(session, todo, q, heap, heap', tickets)
  <2>1. Brings(session, heap, todo[1]) = {}
    BY <1>2 DEF HeadIs, Brings, GameOps
  <2> QED BY <1>9, <2>1 DEF Meets
<1>11. ASSUME NEW l, Shows(todo, heap, 1, l) PROVE HasLogo(heap', l)
  <2>1. l = d /\ Iconic(heap, c.x)
    BY <1>2, <1>4, <1>11 DEF HeadIs, Shows, OpensArchive
  <2>2. Iconic(heap', c.x)
    BY <1>3, <1>8, <2>1, IconicStays
  <2>3. c.x \in Range(heap'[l].parts)
    BY <1>6, <1>7, <2>1
  <2> QED BY <2>2, <2>3 DEF HasLogo
<1> QED BY <1>1, <1>2, <1>8, <1>9, <1>10, <1>11, LoadsOn

\* The loop of main
LEMMA LogosLoads ==
  ASSUME Ok, LoadsWell, Logos
  PROVE  LoadsWell' /\ ended' = ended
<1>1. Calling("logos") /\ SameLists /\ heap' = heap
  BY DEF Logos
<1>2. PICK c : HeadIs(c) /\ c.op = "logos"
  BY <1>1, HeadFound
<1>3. Len(todo) = 2 /\ todo[1].op = "logos" /\ todo[2].op = "nx_sys_destroy" /\ DOMAIN todo = {1, 2}
  <2>1. LogosLast(todo) /\ IsSequence(todo)
    BY <1>2, CallsAre DEF LoadsWell, LoadsOk
  <2>2. todo[1].op = "logos" /\ 1 \in DOMAIN todo
    BY <1>2 DEF HeadIs
  <2>3. Len(todo) = 1 + 1 /\ todo[1 + 1].op = "nx_sys_destroy"
    BY <2>1, <2>2 DEF LogosLast
  <2> QED BY <2>1, <2>2, <2>3, SequenceIs
<1>4. \A l \in Loaders(games) : HasLogo(heap, l)
  <2>1. \A l, i : i \in DOMAIN todo => ~Shows(todo, heap, i, l)
    BY <1>3 DEF Shows, OpensArchive
  <2> QED BY <2>1 DEF LoadsWell, LoadsOk, LogosMet
<1>5. \A a \in DOMAIN games : games[a].loader # None
  <2>1. Opening(todo, games)
    BY DEF Ok, StateOk, CallsOk
  <2>2. ASSUME NEW d \in Turns(todo) PROVE At(todo, d).op \notin {"nsp", "nsz"}
    <3>1. d = 1 \/ d = 2
      BY <1>3, <2>2 DEF Turns
    <3>2. Len(todo) + 1 - d = 2 \/ Len(todo) + 1 - d = 1
      BY <1>3, <3>1
    <3> QED BY <1>3, <3>2 DEF At
  <2> QED BY <2>1, <2>2 DEF Opening
<1>6. PICK q : q = [i \in DOMAIN games |-> Call("loader_get_logo", games[i].loader)]
  OBVIOUS
<1>7. Then(q)
  BY <1>6 DEF Logos
<1>8. IsSequence(q) /\ DOMAIN q = DOMAIN games
  <2>1. IsSequence(games) /\ DOMAIN q = DOMAIN games /\ q = [i \in DOMAIN games |-> q[i]]
    BY <1>2, <1>6 DEF HeadIs, GamesOk
  <2> QED BY <2>1, SeqEach
<1>9. ASSUME NEW i \in DOMAIN q PROVE q[i].op = "loader_get_logo" /\ q[i].x = games[i].loader
  <2>1. q[i] = Call("loader_get_logo", games[i].loader)
    BY <1>6, <1>8, <1>9
  <2>2. PICK l : l = games[i].loader
    OBVIOUS
  <2>3. Call("loader_get_logo", l).op = "loader_get_logo" /\ Call("loader_get_logo", l).x = l
    BY DEF Call
  <2> QED BY <2>1, <2>2, <2>3
<1>10. \A j \in DOMAIN q : Suits(session, heap', q[j]) /\ q[j].op # "logos"
  BY <1>1, <1>4, <1>5, <1>8, <1>9 DEF Suits, Loaders
<1>11. Meets(session, todo, q, heap, heap', tickets)
  <2>1. Brings(session, heap, todo[1]) = {}
    BY <1>3 DEF Brings, GameOps
  <2>2. \A j \in DOMAIN q : Needs(session, q[j]) = {}
    BY <1>9 DEF Needs, OpensArchive, GameOps
  <2> QED BY <2>1, <2>2 DEF Meets
<1>12. Rising(heap, heap')
  BY <1>1, RisingSame
<1> QED BY <1>1, <1>2, <1>7, <1>8, <1>10, <1>11, <1>12, ShowsNone, LoadsOn

\* The calls for the sections of an archive
LEMMA SectionCalls ==
  ASSUME NEW e, IsArchive(e), NEW x, NEW q, q = Gets(x, e)
  PROVE  /\ IsSequence(q) /\ Len(q) = Len(e.sections) /\ DOMAIN q = DOMAIN e.sections
         /\ \A i \in DOMAIN q : q[i].op = "get_file" /\ q[i].nca = x /\ q[i].e = e
              /\ q[i].section = e.sections[i]
<1>1. IsSequence(e.sections)
  BY DEF IsArchive
<1>2. DOMAIN q = DOMAIN e.sections /\ q = [i \in DOMAIN e.sections |-> q[i]]
  BY DEF Gets
<1>3. PICK m : m = Len(e.sections) /\ m \in Nat /\ DOMAIN e.sections = 1 .. m
  BY <1>1, SequenceIs
<1>4. IsSequence(q) /\ Len(q) = m
  BY <1>2, <1>3, SequenceBy
<1>5. \A i \in DOMAIN q : q[i].op = "get_file" /\ q[i].nca = x /\ q[i].e = e
        /\ q[i].section = e.sections[i]
  BY <1>2 DEF Gets
<1> QED BY <1>2, <1>3, <1>4, <1>5

\* The sequence r is p, of length m, and q, of length k.
Linked(p, q, r, m, k) ==
  /\ IsSequence(r) /\ m \in Nat /\ k \in Nat /\ DOMAIN r = 1 .. m + k /\ DOMAIN p = 1 .. m
  /\ DOMAIN q = 1 .. k
  /\ \A i \in DOMAIN p : i \in DOMAIN r /\ r[i] = p[i]
  /\ \A i \in DOMAIN q : m + i \in DOMAIN r /\ r[m + i] = q[i]
  /\ \A i \in DOMAIN r : i \in DOMAIN p \/ \E j \in DOMAIN q : i = m + j

\* One sequence of calls before another
LEMMA CallsJoined ==
  ASSUME NEW p, NEW q, IsSequence(p), IsSequence(q), NEW r, r = p \o q, NEW m, m = Len(p), NEW k,
         k = Len(q)
  PROVE  Linked(p, q, r, m, k)
<1>1. m \in Nat /\ k \in Nat /\ DOMAIN p = 1 .. m /\ DOMAIN q = 1 .. k
  BY SequenceIs
<1>2. /\ IsSequence(p \o q) /\ Len(p \o q) = Len(p) + Len(q)
      /\ \A i \in 1 .. Len(p) + Len(q) : (p \o q)[i] = IF i <= Len(p) THEN p[i] ELSE q[i - Len(p)]
  BY Joining
<1>3. IsSequence(r) /\ Len(r) = m + k
        /\ \A i \in 1 .. m + k : r[i] = IF i <= m THEN p[i] ELSE q[i - m]
  BY <1>2
<1>4. DOMAIN r = 1 .. m + k
  BY <1>3, SequenceIs
<1>5. \A i \in DOMAIN p : i \in DOMAIN r /\ r[i] = p[i]
  BY <1>1, <1>3, <1>4
<1>6. ASSUME NEW i \in DOMAIN q PROVE m + i \in DOMAIN r /\ r[m + i] = q[i]
  <2>1. PICK v : v = m + i
    OBVIOUS
  <2>2. v \in 1 .. m + k /\ ~(v <= m) /\ v - m = i
    BY <1>1, <1>6, <2>1
  <2>3. r[v] = q[v - m]
    BY <1>3, <2>2
  <2> QED BY <1>4, <2>1, <2>2, <2>3
<1>7. ASSUME NEW i \in DOMAIN r, i \notin DOMAIN p PROVE \E j \in DOMAIN q : i = m + j
  <2>1. i - m \in DOMAIN q /\ i = m + (i - m)
    BY <1>1, <1>4, <1>7
  <2> QED BY <2>1
<1> QED BY <1>1, <1>3, <1>4, <1>5, <1>6, <1>7 DEF Linked

\* The heap with the file of an archive
LEMMA RisingFile ==
  ASSUME HeapOk(heap), NEW d, NEW h0, h0 = WithArchiveFile(d)
  PROVE  Rising(heap, h0) /\ IsSequence(h0) /\ \A i \in DOMAIN heap : h0[i].kind = heap[i].kind
<1>1. IsSequence(heap)
  BY DEF HeapOk
<1>2. (\E o : h0 = Append(heap, o)) \/ h0 = heap
  BY DEF WithArchiveFile
<1>3. ASSUME NEW o, h0 = Append(heap, o)
      PROVE  Rising(heap, h0) /\ IsSequence(h0) /\ \A i \in DOMAIN heap : h0[i].kind = heap[i].kind
  <2>1. Rising(heap, h0) /\ IsSequence(h0) /\ \A i \in DOMAIN heap : h0[i] = heap[i]
    BY <1>1, <1>3, RisingAppend
  <2> QED BY <2>1
<1>4. CASE h0 = heap
  BY <1>1, <1>4, RisingSame
<1> QED BY <1>2, <1>3, <1>4

\* An archive opened
LEMMA ContentArchiveCreateLoads ==
  ASSUME Ok, LoadsWell, ContentArchiveCreate
  PROVE  LoadsWell' /\ ended' = ended
<1>1. Calling("content_archive_create")
  BY DEF ContentArchiveCreate
<1>2. PICK c : HeadIs(c) /\ c.op = "content_archive_create"
  BY <1>1, HeadFound
<1>3. PICK dir, e, l, f, h0 : dir = c.dir /\ e = c.e /\ l = c.owner
        /\ f = ArchiveFile(dir, e.name) /\ h0 = WithArchiveFile(dir)
  OBVIOUS
<1>4. IsArchive(e) /\ HeapOk(heap) /\ Arg = c
  BY <1>2, <1>3 DEF HeadIs, IsCall
<1>5. ~(e.encrypted /\ heap[dir].kind = "zip")
  <2>1. CASE l = None
    BY <1>2, <1>3, <2>1 DEF HeadIs, Suits
  <2>2. CASE l # None
    <3>1. PICK n, C : n = Len(todo) /\ C = After(todo, n)
      OBVIOUS
    <3>2. Creates(n, C, l, dir, e)
      BY <1>2, <1>3, <3>1 DEF Creates, HeadIs
    <3>3. l \in Loaders(games) /\ (dir = heap[l].dir \/ dir = heap[l].base)
      BY <1>1, <2>2, <3>2, CreatesFacts DEF OfFirmware
    <3>4. dir = heap[l].base => heap[l].base # None
      BY <1>2, <1>3, <2>2 DEF HeadIs, IsCall, HeapOk, IsObject, None
    <3>5. heap[dir].kind \in {"pfs", "romfs"}
      BY <1>2, <1>4, <3>3, <3>4, LoaderFacts DEF HeadIs
    <3> QED BY <3>5
  <2> QED BY <2>1, <2>2
<1>6. PICK h1, x, o, p, q : /\ h1 = IF e.encrypted THEN Append(h0, Aes(f)) ELSE h0
                            /\ x = Len(h1) + 1
                            /\ o = Inside(dir, Object("nca", IF e.encrypted THEN x - 1 ELSE f))
                            /\ p = IF l # None THEN <<CallOn("list_push", l, x)>>
                                   ELSE <<[op |-> "service", nca |-> x, e |-> e],
                                     Call("content_archive_destroy", x)>>
                            /\ q = Gets(x, e) \o p
  OBVIOUS
<1>7. heap' = Append(h1, o) /\ Then(q) /\ SameLists
  BY <1>3, <1>4, <1>5, <1>6 DEF ContentArchiveCreate, Gets
<1>8. Rising(heap, heap')
  <2>1. Rising(heap, h0) /\ IsSequence(h0) /\ \A i \in DOMAIN heap : h0[i].kind = heap[i].kind
    BY <1>3, <1>4, RisingFile
  <2>2. Rising(h0, h1) /\ IsSequence(h1)
    <3>1. CASE e.encrypted
      <4>1. PICK r : r = Aes(f)
        OBVIOUS
      <4>2. h1 = Append(h0, r)
        BY <1>6, <3>1, <4>1
      <4> QED BY <2>1, <4>2, RisingAppend
    <3>2. CASE ~e.encrypted
      BY <1>6, <2>1, <3>2, RisingSame
    <3> QED BY <3>1, <3>2
  <2>3. DOMAIN heap \subseteq DOMAIN h0 /\ \A i \in DOMAIN h0 : h1[i].kind = h0[i].kind
    <3>1. \A r : \A i \in DOMAIN h0 : Append(h0, r)[i] = h0[i]
      BY <2>1, Behind
    <3> QED BY <1>6, <2>1, <3>1 DEF Rising
  <2>4. Rising(heap, h1) /\ \A i \in DOMAIN heap : h1[i].kind = heap[i].kind
    BY <2>1, <2>2, <2>3, RisingOn
  <2>5. Rising(h1, heap')
    BY <1>7, <2>2, RisingAppend
  <2> QED BY <2>4, <2>5, RisingOn
<1>9. PICK s, m, k : s = Gets(x, e) /\ m = Len(s) /\ k = Len(p)
  OBVIOUS
<1>10. /\ IsSequence(s) /\ DOMAIN s = DOMAIN e.sections
       /\ \A i \in DOMAIN s : s[i].op = "get_file" /\ s[i].nca = x /\ s[i].e = e
            /\ s[i].section = e.sections[i]
  BY <1>4, <1>9, SectionCalls
<1>11. /\ IsSequence(p) /\ \A i \in DOMAIN p : p[i].op \in {"list_push", "service",
            "content_archive_destroy"}
       /\ l # None => 1 \in DOMAIN p /\ p[1].op = "list_push" /\ p[1].dir = l /\ p[1].x = x
  <2>1. CASE l # None
    <3>1. PICK b : b = CallOn("list_push", l, x)
      OBVIOUS
    <3>2. p = <<b>>
      BY <1>6, <2>1, <3>1
    <3>3. b.op = "list_push" /\ b.dir = l /\ b.x = x
      BY <3>1 DEF CallOn
    <3>4. IsSequence(p) /\ Len(p) = 1 /\ p[1] = b
      BY <3>2, Small
    <3>5. DOMAIN p = {1}
      BY <3>2
    <3> QED BY <3>3, <3>4, <3>5
  <2>2. CASE l = None
    <3>1. PICK a, b : a = [op |-> "service", nca |-> x, e |-> e]
            /\ b = Call("content_archive_destroy", x)
      OBVIOUS
    <3>2. p = <<a, b>>
      BY <1>6, <2>2, <3>1
    <3>3. a.op = "service" /\ b.op = "content_archive_destroy"
      BY <3>1 DEF Call
    <3>4. IsSequence(p) /\ DOMAIN p = {1, 2} /\ p[1] = a /\ p[2] = b
      <4>1. IsSequence(p)
        BY <3>2, Small
      <4> QED BY <3>2, <4>1
    <3> QED BY <2>2, <3>3, <3>4
  <2> QED BY <2>1, <2>2
<1>12. /\ IsSequence(q) /\ m \in Nat /\ k \in Nat /\ DOMAIN s = 1 .. m /\ DOMAIN p = 1 .. k
       /\ \A i \in DOMAIN s : i \in DOMAIN q /\ q[i] = s[i]
       /\ \A i \in DOMAIN p : m + i \in DOMAIN q /\ q[m + i] = p[i]
       /\ \A i \in DOMAIN q : i \in DOMAIN s \/ \E j \in DOMAIN p : i = m + j
  <2>1. q = s \o p
    BY <1>6, <1>9
  <2>2. IsSequence(s) /\ IsSequence(p) /\ m = Len(s) /\ k = Len(p)
    BY <1>9, <1>10, <1>11
  <2>3. Linked(s, p, q, m, k)
    BY <2>1, <2>2, CallsJoined
  <2> QED BY <2>3 DEF Linked
<1>13. ASSUME NEW j \in DOMAIN q
       PROVE  Suits(session, heap', q[j]) /\ q[j].op # "logos"
              /\ Needs(session, q[j]) \subseteq Right(e)
  <2>1. CASE j \in DOMAIN s
    <3>1. q[j].op = "get_file" /\ q[j].e = e /\ q[j].section = e.sections[j]
            /\ j \in DOMAIN e.sections
      BY <1>10, <1>12, <2>1
    <3>2. q[j].section.icon => q[j].section.fs = "romfs"
      BY <1>4, <3>1 DEF IsArchive
    <3>3. Needs(session, q[j]) \subseteq Right(e)
      BY <3>1 DEF Needs, OpensArchive, GameOps, Right, HasCtr
    <3> QED BY <3>1, <3>2, <3>3 DEF Suits
  <2>2. CASE \E i \in DOMAIN p : j = m + i
    <3>1. q[j].op \in {"list_push", "service", "content_archive_destroy"}
      BY <1>11, <1>12, <2>2
    <3> QED BY <3>1 DEF Suits, Needs, OpensArchive, GameOps
  <2> QED BY <1>12, <2>1, <2>2
<1>14. Meets(session, todo, q, heap, heap', tickets)
  <2>1. Brings(session, heap, todo[1]) = {}
    BY <1>2 DEF HeadIs, Brings, GameOps
  <2>2. Needs(session, todo[1]) = Right(e)
    BY <1>2, <1>3 DEF HeadIs, Needs, OpensArchive, GameOps
  <2> QED BY <1>13, <2>1, <2>2 DEF Meets
<1>15. ASSUME NEW g \in Loaders(games), Shows(todo, heap, 1, g)
       PROVE \E i \in DOMAIN q : Shows(q, heap', i, g)
  <2>1. l = g /\ HasIcon(e) /\ l # None
    BY <1>2, <1>3, <1>15 DEF HeadIs, Shows, OpensArchive, Loaders
  <2>2. PICK j \in DOMAIN e.sections : e.sections[j].icon
    BY <2>1 DEF HasIcon
  <2>3. j \in 1 .. m /\ q[j].op = "get_file" /\ q[j].nca = x /\ q[j].section.icon
    BY <1>10, <1>12, <2>2
  <2>4. PICK i : i = m + 1
    OBVIOUS
  <2>5. i \in DOMAIN q /\ q[i].op = "list_push" /\ q[i].dir = g /\ q[i].x = x
    BY <1>11, <1>12, <2>1, <2>4
  <2>6. j \in 1 .. i - 1
    BY <1>12, <2>3, <2>4
  <2> QED BY <2>3, <2>5, <2>6 DEF Shows
<1>16. c.op # "get_file"
  BY <1>2
<1> QED BY <1>2, <1>7, <1>8, <1>12, <1>13, <1>14, <1>15, <1>16, LoadsOn

\* A directory of an archive read
LEMMA GetFileLoads ==
  ASSUME Ok, LoadsWell, GetFile
  PROVE  LoadsWell' /\ ended' = ended
<1>1. Calling("get_file")
  BY DEF GetFile
<1>2. PICK c : HeadIs(c) /\ c.op = "get_file"
  BY <1>1, HeadFound
<1>3. PICK n, s : n = c.nca /\ s = c.section
  OBVIOUS
<1>4. /\ n \in DOMAIN heap /\ heap[n].kind = "nca" /\ s.fs \in {"pfs", "romfs"}
           /\ (s.icon => s.fs = "romfs")
      /\ HeapOk(heap) /\ IsSequence(heap) /\ Arg = c
  BY <1>2, <1>3 DEF HeadIs, IsCall, Suits
<1>5. ~(s.ctr /\ ~HasTitleKey(c.e))
  <2>1. ASSUME s.ctr, c.e.rights # NoName PROVE HasTitleKey(c.e)
    <3>1. c.e.rights \in Needs(session, todo[1])
      BY <1>2, <1>3, <2>1 DEF HeadIs, Needs, OpensArchive, GameOps
    <3>2. 1 \in DOMAIN todo /\ TicketsMet(session, todo, heap, tickets)
      BY <1>2 DEF HeadIs, LoadsWell, LoadsOk
    <3>3. c.e.rights \in Known(heap, tickets)
      BY <3>1, <3>2 DEF TicketsMet
    <3> QED BY <3>3 DEF HasTitleKey, Known
  <2> QED BY <2>1 DEF HasTitleKey
<1>6. PICK o1, o2, h1, item :
        /\ o1 = (IF s.ctr THEN EncryptedFile(n) ELSE DecryptedFile(n))
        /\ o2 = (IF s.fs = "pfs" THEN Pfs(New) ELSE Romfs(New))
        /\ h1 = heap \o <<o1, o2>>
        /\ item = [file |-> New, fs |-> New + 1, ctr |-> s.ctr, icon |-> s.icon]
  OBVIOUS
<1>7. heap' = WithSection(n, s, h1) /\ Then(<<>>) /\ SameLists
  BY <1>3, <1>4, <1>5, <1>6 DEF GetFile
<1>8. Rising(heap, h1) /\ IsSequence(h1) /\ n \in DOMAIN h1
        /\ \A i \in DOMAIN heap : h1[i] = heap[i]
  <2>1. IsSequence(heap)
    BY <1>4
  <2>2. Rising(heap, heap \o <<o1, o2>>) /\ IsSequence(heap \o <<o1, o2>>)
        /\ \A i \in DOMAIN heap : i \in DOMAIN (heap \o <<o1, o2>>)
             /\ (heap \o <<o1, o2>>)[i] = heap[i]
    BY <2>1, RisingAppends
  <2> QED BY <1>4, <1>6, <2>2
<1>9. PICK o, v : /\ o = heap[n]
                       /\ v = IF s.fs = "pfs" THEN [o EXCEPT !.pfs_list = Append(o.pfs_list, item)]
                                       ELSE [o EXCEPT !.romfs_list = Append(o.romfs_list, item)]
  OBVIOUS
<1>10. heap' = [h1 EXCEPT ![n] = v]
  <2>1. h1[n] = o
    BY <1>4, <1>8, <1>9
  <2>2. heap' = IF s.fs = "pfs" THEN [h1 EXCEPT ![n] = [h1[n] EXCEPT !.pfs_list = Append(h1[n].pfs_list, item)]]
                ELSE [h1 EXCEPT ![n] = [h1[n] EXCEPT !.romfs_list = Append(h1[n].romfs_list, item)]]
    BY <1>6, <1>7 DEF WithSection
  <2> QED BY <1>9, <2>1, <2>2
<1>11. o = [kind |-> o.kind, base |-> o.base, dir |-> o.dir, parts |-> o.parts,
            pfs_list |-> o.pfs_list, romfs_list |-> o.romfs_list, path |-> o.path, live |-> o.live]
       /\ IsSequence(o.romfs_list) /\ o.kind = "nca"
  BY <1>4, <1>9 DEF HeapOk, IsObject
<1>12. v.path = o.path /\ Range(o.romfs_list) \subseteq Range(v.romfs_list)
       /\ (s.icon => item \in Range(v.romfs_list))
  <2>1. CASE s.fs = "pfs"
    <3>1. v = [o EXCEPT !.pfs_list = Append(o.pfs_list, item)]
      BY <1>9, <2>1
    <3>2. v.path = o.path /\ v.romfs_list = o.romfs_list
      BY <1>11, <3>1
    <3> QED BY <1>4, <2>1, <3>2
  <2>2. CASE s.fs # "pfs"
    <3>1. v = [o EXCEPT !.romfs_list = Append(o.romfs_list, item)]
      BY <1>9, <2>2
    <3>2. v.path = o.path /\ v.romfs_list = Append(o.romfs_list, item)
      BY <1>11, <3>1
    <3>3. PICK r : r = o.romfs_list
      OBVIOUS
    <3>4. Range(Append(r, item)) = Range(r) \cup {item}
      BY <1>11, <3>3, Behind
    <3> QED BY <3>2, <3>3, <3>4
  <2> QED BY <2>1, <2>2
<1>13. Rising(heap, heap')
  <2>1. DOMAIN heap' = DOMAIN h1 /\ heap'[n] = v /\ \A i \in DOMAIN h1 : i # n => heap'[i] = h1[i]
    BY <1>8, <1>10
  <2>2. DOMAIN heap \subseteq DOMAIN heap'
    BY <1>8, <2>1 DEF Rising
  <2>3. ASSUME NEW i \in DOMAIN heap
        PROVE  /\ heap'[i].path = heap[i].path
               /\ Range(heap[i].romfs_list) \subseteq Range(heap'[i].romfs_list)
               /\ heap[i].kind = "loader" => Range(heap[i].parts) \subseteq Range(heap'[i].parts)
    <3>1. CASE i = n
      BY <1>9, <1>11, <1>12, <2>1, <3>1
    <3>2. CASE i # n
      <4>1. heap'[i] = heap[i]
        BY <1>8, <2>1, <2>2, <2>3, <3>2
      <4> QED BY <4>1
    <3> QED BY <3>1, <3>2
  <2> QED BY <2>2, <2>3 DEF Rising
<1>14. s.icon => Iconic(heap', n)
  <2>1. heap'[n] = v
    BY <1>8, <1>10
  <2>2. item.icon = s.icon
    BY <1>6
  <2> QED BY <1>12, <2>1, <2>2 DEF Iconic
<1>15. PICK q : IsSequence(q) /\ DOMAIN q = {} /\ Then(q)
  BY <1>7, MakesNothing
<1>16. Meets(session, todo, q, heap, heap', tickets)
  <2>1. Brings(session, heap, todo[1]) = {}
    BY <1>2 DEF HeadIs, Brings, GameOps
  <2> QED BY <1>15, <2>1 DEF Meets
<1> QED BY <1>2, <1>3, <1>7, <1>13, <1>14, <1>15, <1>16, ShowsNone, LoadsOn

\* The firmware, of which nothing is encrypted
LEMMA HosFirmwareLoadLoads ==
  ASSUME Ok, OnDisk, LoadsWell, Complete, HosFirmwareLoad
  PROVE  LoadsWell' /\ ended' = ended
<1>1. Calling("hos_firmware_load")
  BY DEF HosFirmwareLoad
<1>2. PICK c : HeadIs(c) /\ c.op = "hos_firmware_load"
  BY <1>1, HeadFound
<1>3. /\ c.x \in DOMAIN heap /\ heap[c.x].kind = "hostdir" /\ session.firmware # <<>>
      /\ HeapOk(heap) /\ Arg = c
  BY <1>2 DEF HeadIs, IsCall
<1>4. PICK h1, file, zip, o, s, p, a, b, q :
        /\ h1 = WithHostFile(c.x, "firmware.zip") /\ file = HostFile(c.x, "firmware.zip")
        /\ zip = Len(h1) + 1
        /\ o = ZipDir(file) /\ s = session.firmware[1]
        /\ p = EachWith("content_archive_create", None, zip, s)
        /\ a = Call("free", zip) /\ b = CallOn("dir_close_file", c.x, file) /\ q = p \o <<a, b>>
  OBVIOUS
<1>5. heap' = Append(h1, o) /\ Then(q) /\ SameLists
  <2>1. Then(p \o <<a, b>>)
    BY <1>3, <1>4 DEF HosFirmwareLoad
  <2> QED BY <1>3, <1>4, <2>1 DEF HosFirmwareLoad
<1>6. Rising(heap, heap')
  <2>1. Rising(heap, h1) /\ IsSequence(h1) /\ \A i \in DOMAIN heap : h1[i].kind = heap[i].kind
    BY <1>3, <1>4, RisingHost
  <2>2. Rising(h1, heap')
    BY <1>5, <2>1, RisingAppend
  <2> QED BY <2>1, <2>2, RisingOn
<1>7. IsSequence(s) /\ \A i \in DOMAIN s : IsArchive(s[i]) /\ ~s[i].encrypted
  <2>1. 1 \in DOMAIN session.firmware
    <3>1. IsSequence(session.firmware)
      BY SessionsAssumption DEF OnDisk
    <3>2. Len(session.firmware) # 0 /\ Len(session.firmware) \in Nat
          /\ DOMAIN session.firmware = 1 .. Len(session.firmware)
      BY <1>3, <3>1, SequenceIs, EmptySeq
    <3> QED BY <3>2
  <2>2. IsSequence(s) /\ \A i \in DOMAIN s : IsArchive(s[i])
    BY <1>4, <2>1, SessionsAssumption DEF OnDisk
  <2>3. \A i \in DOMAIN s : ~s[i].encrypted
    BY <1>3, <1>4 DEF Complete
  <2> QED BY <2>2, <2>3
<1>8. PICK t, m, k : t = <<a, b>> /\ m = Len(p) /\ k = Len(t)
  OBVIOUS
<1>9. /\ IsSequence(p) /\ DOMAIN p = DOMAIN s
      /\ \A i \in DOMAIN s : p[i].op = "content_archive_create" /\ p[i].owner = None
           /\ p[i].e = s[i]
  <2>1. IsSequence(s) /\ p = EachWith("content_archive_create", None, zip, s)
    BY <1>4, <1>7
  <2> QED BY <2>1, FileCalls
<1>10. IsSequence(t) /\ DOMAIN t = {1, 2} /\ t[1] = a /\ t[2] = b
  <2>1. IsSequence(t)
    BY <1>8, Small
  <2> QED BY <1>8, <2>1
<1>11. a.op = "free" /\ b.op = "dir_close_file"
  BY <1>4 DEF Call, CallOn
<1>12. /\ IsSequence(q) /\ \A i \in DOMAIN p : q[i] = p[i]
       /\ \A i \in DOMAIN q : i \in DOMAIN p \/ \E j \in DOMAIN t : i = m + j /\ q[i] = t[j]
  <2>1. q = p \o t /\ m = Len(p) /\ k = Len(t) /\ IsSequence(p) /\ IsSequence(t)
    BY <1>4, <1>8, <1>9, <1>10
  <2>2. Linked(p, t, q, m, k)
    BY <2>1, CallsJoined
  <2> QED BY <2>2 DEF Linked
<1>13. ASSUME NEW j \in DOMAIN q
       PROVE  Suits(session, heap', q[j]) /\ q[j].op # "logos" /\ Needs(session, q[j]) = {}
  <2>1. CASE j \in DOMAIN p
    <3>1. q[j].op = "content_archive_create" /\ q[j].e = s[j] /\ IsArchive(s[j]) /\ ~s[j].encrypted
      BY <1>7, <1>9, <1>12, <2>1
    <3>2. Right(s[j]) = {}
      BY <3>1 DEF Right, HasCtr, IsArchive
    <3>3. Needs(session, q[j]) = {}
      BY <3>1, <3>2 DEF Needs, OpensArchive, GameOps
    <3> QED BY <3>1, <3>3 DEF Suits
  <2>2. CASE \E i \in DOMAIN t : j = m + i /\ q[j] = t[i]
    <3>1. q[j].op \in {"free", "dir_close_file"}
      BY <1>10, <1>11, <2>2
    <3> QED BY <3>1 DEF Suits, Needs, OpensArchive, GameOps
  <2> QED BY <1>12, <2>1, <2>2
<1>14. Meets(session, todo, q, heap, heap', tickets)
  <2>1. Brings(session, heap, todo[1]) = {}
    BY <1>2 DEF HeadIs, Brings, GameOps
  <2> QED BY <1>13, <2>1 DEF Meets
<1> QED BY <1>2, <1>5, <1>6, <1>12, <1>13, <1>14, ShowsNone, LoadsOn

\* A session whose packages are complete loads.
LEMMA LoadsKept ==
  ASSUME Ok, OnDisk, LoadsWell, Complete, [Next]_vars
  PROVE  LoadsWell' /\ ended' = ended
<1>1. CASE \/ Free \/ DirCloseFile \/ DirClose \/ FindKeys \/ HosCreate
           \/ ContentArchiveDestroy \/ DestroyFile \/ CloseArchive \/ CloseWrapped \/ CloseFile
           \/ LoadFirstOne \/ Service \/ HosDisable
           \/ GetLogo \/ LoaderDestroy \/ DestroyPackage \/ NxSysDestroy
  BY <1>1, PlainSteps
<1>2. CASE GetAllLoaders
  BY <1>2, GetAllLoadersLoads
<1>3. CASE LoadGame
  BY <1>3, LoadGameLoads
<1>4. CASE NspCreate
  BY <1>4, NspCreateLoads
<1>5. CASE NszCreate
  BY <1>5, NszCreateLoads
<1>6. CASE LoadTik \/ NspAddFile \/ AddTicket
  BY <1>6, LoadTikLoads, NspAddFileLoads, AddTicketLoads
<1>7. CASE NszAddFile
  BY <1>7, NszAddFileLoads
<1>8. CASE ContentArchiveCreate
  BY <1>8, ContentArchiveCreateLoads
<1>9. CASE PushArchive \/ GetFile
  BY <1>9, PushArchiveLoads, GetFileLoads
<1>10. CASE HosFirmwareLoad
  BY <1>10, HosFirmwareLoadLoads
<1>11. CASE Logos
  BY <1>11, LogosLoads
<1>12. CASE UNCHANGED vars
  <2>1. PICK ses, t, h, g, k : ses = session /\ t = todo /\ h = heap /\ g = games /\ k = tickets
    OBVIOUS
  <2>2. LoadsOk(ses, t, h, g, k)
    BY <2>1 DEF LoadsWell
  <2>3. session' = ses /\ todo' = t /\ heap' = h /\ games' = g /\ tickets' = k /\ ended' = ended
    BY <1>12, <2>1 DEF vars
  <2> QED BY <2>2, <2>3 DEF LoadsWell
<1> QED BY <1>1, <1>2, <1>3, <1>4, <1>5, <1>6, <1>7, <1>8, <1>9, <1>10, <1>11, <1>12 DEF Next

\* Nothing is loaded at first.
LEMMA LoadsBegin ==
  ASSUME Init
  PROVE  LoadsInv
<1>1. PICK t : t = todo
  OBVIOUS
<1>2. /\ t = <<Op("hos_create"), Op("nx_get_all_loaders"), Op("nx_load_first_one"), Op("logos"),
           Op("nx_sys_destroy")>>
      /\ heap = <<>> /\ games = <<>> /\ tickets = <<>> /\ ended = FALSE
  BY <1>1 DEF Init
<1>3. /\ Len(t) = 5 /\ DOMAIN t = 1 .. 5
      /\ t[1].op = "hos_create" /\ t[2].op = "nx_get_all_loaders" /\ t[3].op = "nx_load_first_one"
      /\ t[4].op = "logos" /\ t[5].op = "nx_sys_destroy"
  <2>1. \A name : Op(name).op = name
    BY DEF Op
  <2> QED BY <1>2, <2>1
<1>4. \A i \in DOMAIN t : Suits(session, heap, t[i]) /\ Needs(session, t[i]) = {}
  <2>1. \A i \in DOMAIN t : t[i].op \in {"hos_create", "nx_get_all_loaders", "nx_load_first_one",
          "logos", "nx_sys_destroy"}
    BY <1>3
  <2> QED BY <2>1 DEF Suits, Needs, OpensArchive, GameOps
<1>5. LogosLast(t)
  BY <1>3 DEF LogosLast
<1>6. Loaders(games) = {}
  BY <1>2 DEF Loaders
<1>7. LoadsOk(session, t, heap, games, tickets)
  BY <1>4, <1>5, <1>6 DEF LoadsOk, TicketsMet, LogosMet
<1> QED BY <1>1, <1>2, <1>7 DEF LoadsInv

\* LoadsInv is inductive beside SessionInv.
LEMMA LoadsStays ==
  ASSUME SessionInv, LoadsInv, [Next]_vars
  PROVE  LoadsInv'
<1>1. Complete' = Complete
  <2>1. session' = session
    BY DiskSame DEF vars
  <2> QED BY <2>1 DEF Complete, Opened, TicketsBefore
<1>2. ASSUME Complete PROVE ~ended' /\ LoadsWell'
  <2>1. LoadsWell' /\ ended' = ended
    BY <1>2, LoadsKept DEF SessionInv, LoadsInv, LoadsWell
  <2> QED BY <1>2, <2>1 DEF LoadsInv
<1> QED BY <1>1, <1>2 DEF LoadsInv, LoadsWell

\* The process does not quit on a session whose packages are complete: in an nsp the
\* tickets are loaded before the archives, in an nsz each is found before what needs it.
THEOREM CompleteSessionsLoad == Spec => []CompleteLoads
<1>1. Spec => []SessionInv
  BY SessionInvariant
<1>2. Init => LoadsInv
  BY LoadsBegin
<1>3. SessionInv /\ LoadsInv /\ [Next]_vars => LoadsInv'
  BY LoadsStays
<1>4. LoadsInv => CompleteLoads
  BY DEF LoadsInv, CompleteLoads
<1> QED BY <1>1, <1>2, <1>3, <1>4, PTL DEF Spec

----------------------------------------------------------------------------
(* The descriptor of firmware.zip *)

\* What the loading of firmware and of packages calls between opening and closing
FirmwareOps ==
  {"content_archive_create", "list_push", "get_file", "service", "content_archive_destroy",
   "destroy_file", "close_archive", "close_wrapped", "close_file", "free"}

\* A file whose descriptor is stale is the next to be closed, after calls of the loading,
\* and no file of the host was opened after it.
ClosedNext(t, i) ==
  \E k \in DOMAIN t : /\ t[k].op = "dir_close_file" /\ t[k].x = i
                      /\ \A m \in 1 .. k - 1 : t[m].op \in FirmwareOps
LastOpened(h, i) == i \in DOMAIN h /\ \A j \in DOMAIN h : h[j].kind \in {"host", "map"} => j <= i
DescriptorInv == \A i \in stale : ClosedNext(todo, i) /\ LastOpened(heap, i)

\* No file of the host is opened.
OpensNone(h, h2) ==
  /\ DOMAIN h \subseteq DOMAIN h2
  /\ \A j \in DOMAIN h2 : h2[j].kind \in {"host", "map"} => j \in DOMAIN h /\ h[j].kind = h2[j].kind

\* A step of the loading
LoadingStep == (\E q : AllIn(q, FirmwareOps) /\ Then(q)) /\ OpensNone(heap, heap')

\* Objects that stay what they are
LEMMA OpensSame ==
  ASSUME NEW h, NEW h2, SameKinds(h, h2)
  PROVE  OpensNone(h, h2)
  BY DEF SameKinds, OpensNone

\* One change after another
LEMMA OpensOn ==
  ASSUME NEW h, NEW h1, NEW h2, OpensNone(h, h1), OpensNone(h1, h2)
  PROVE  OpensNone(h, h2)
  BY DEF OpensNone

\* An object more
LEMMA OpensAppend ==
  ASSUME NEW h, IsSequence(h), NEW o, o.kind \notin {"host", "map"}
  PROVE  OpensNone(h, Append(h, o)) /\ IsSequence(Append(h, o))
<1>1. PICK h1, n : h1 = Append(h, o) /\ n = Len(h)
  OBVIOUS
<1>2. n \in Nat /\ DOMAIN h = 1 .. n
  BY <1>1, SequenceIs
<1>3. IsSequence(h1) /\ DOMAIN h1 = 1 .. n + 1 /\ h1[n + 1] = o /\ \A i \in DOMAIN h : h1[i] = h[i]
  BY <1>1, Behind
<1>4. \A j \in DOMAIN h1 : j = n + 1 \/ j \in DOMAIN h
  BY <1>2, <1>3
<1>5. DOMAIN h \subseteq DOMAIN h1
  BY <1>2, <1>3
<1>6. OpensNone(h, h1)
  BY <1>3, <1>4, <1>5 DEF OpensNone
<1> QED BY <1>1, <1>3, <1>6

\* Two objects more
LEMMA OpensAppends ==
  ASSUME NEW h, IsSequence(h), NEW a, NEW b, a.kind \notin {"host", "map"}, b.kind \notin {"host", "map"}
  PROVE  OpensNone(h, h \o <<a, b>>) /\ IsSequence(h \o <<a, b>>)
<1>1. PICK h1, h2 : h1 = Append(h, a) /\ h2 = Append(h1, b)
  OBVIOUS
<1>2. h \o <<a, b>> = h2
  BY <1>1, BehindTwo
<1>3. OpensNone(h, h1) /\ IsSequence(h1)
  BY <1>1, OpensAppend
<1>4. OpensNone(h1, h2) /\ IsSequence(h2)
  BY <1>1, <1>3, OpensAppend
<1> QED BY <1>2, <1>3, <1>4, OpensOn

\* Few calls of the loading
LEMMA LoadingNames ==
  ASSUME NEW a, NEW b, NEW c
  PROVE  /\ AllIn(<<>>, FirmwareOps)
         /\ a.op \in FirmwareOps => AllIn(<<a>>, FirmwareOps)
         /\ a.op \in FirmwareOps /\ b.op \in FirmwareOps => AllIn(<<a, b>>, FirmwareOps)
<1>3. AllIn(<<>>, FirmwareOps)
  <2>1. IsSequence(<<>>) /\ DOMAIN <<>> = {}
    BY Nothing
  <2> QED BY <2>1 DEF AllIn
<1>4. a.op \in FirmwareOps => AllIn(<<a>>, FirmwareOps)
  BY AllFew
<1>5. a.op \in FirmwareOps /\ b.op \in FirmwareOps => AllIn(<<a, b>>, FirmwareOps)
  BY AllFew
<1> QED BY <1>3, <1>4, <1>5

\* The invariant holds until the file is closed.
LEMMA LoadingKeeps ==
  ASSUME Ok, DescriptorInv, NEW name \in FirmwareOps, Calling(name), LoadingStep, stale' = stale
  PROVE  DescriptorInv'
<1>1. PICK q : IsSequence(q) /\ Then(q) /\ \A j \in DOMAIN q : q[j].op \in FirmwareOps
  BY DEF LoadingStep, AllIn
<1>2. todo # <<>> /\ Head(todo).op = name /\ IsSequence(todo)
  BY DEF Calling, Ok, StateOk, CallsOk
<1>3. PICK n, m : n = Len(todo) /\ m = Len(q)
  OBVIOUS
<1>4. Replaces(todo, q, todo', n, m) /\ todo[1].op = name
  <2>1. todo' = q \o Tail(todo)
    BY <1>1 DEF Then
  <2> QED BY <1>1, <1>2, <1>3, <2>1, Replacing
<1>5. ASSUME NEW i \in stale PROVE ClosedNext(todo', i)
  <2>1. PICK k \in DOMAIN todo : /\ todo[k].op = "dir_close_file" /\ todo[k].x = i
                                 /\ \A d \in 1 .. k - 1 : todo[d].op \in FirmwareOps
    BY <1>5 DEF DescriptorInv, ClosedNext
  <2>2. k # 1
    BY <1>4, <2>1 DEF FirmwareOps
  <2>3. k \in 2 .. n /\ n \in Nat /\ m \in Nat
    BY <1>4, <2>1, <2>2 DEF Replaces
  <2>4. PICK v : v = k + m - 1
    OBVIOUS
  <2>5. v \in DOMAIN todo' /\ todo'[v] = todo[k]
    <3>1. v \in m + 1 .. n - 1 + m /\ todo'[v] = todo[k]
      BY <1>4, <2>3, <2>4 DEF Replaces
    <3>2. v \in 1 .. n - 1 + m
      BY <2>3, <3>1
    <3> QED BY <1>4, <3>1, <3>2 DEF Replaces
  <2>6. ASSUME NEW d \in 1 .. v - 1 PROVE todo'[d].op \in FirmwareOps
    <3>1. CASE d <= m
      <4>1. d \in 1 .. m
        BY <2>3, <2>6, <3>1
      <4> QED BY <1>1, <1>4, <4>1 DEF Replaces
    <3>2. CASE ~(d <= m)
      <4>1. d \in m + 1 .. n - 1 + m /\ d - m + 1 \in 1 .. k - 1
        BY <2>3, <2>4, <2>6, <3>2
      <4>2. todo'[d] = todo[d - m + 1]
        BY <1>4, <4>1 DEF Replaces
      <4> QED BY <2>1, <4>1, <4>2
    <3> QED BY <3>1, <3>2
  <2> QED BY <2>1, <2>5, <2>6 DEF ClosedNext
<1>6. ASSUME NEW i \in stale PROVE LastOpened(heap', i)
  BY <1>6 DEF DescriptorInv, LastOpened, LoadingStep, OpensNone
<1> QED BY <1>5, <1>6 DEF DescriptorInv

\* No other call is next while a descriptor is stale, but the one that closes the file.
LEMMA NoneStale ==
  ASSUME Ok, DescriptorInv, NEW name, name \notin FirmwareOps, Calling(name)
  PROVE  \A i \in stale : name = "dir_close_file" /\ Head(todo).x = i
<1>1. todo # <<>> /\ Head(todo).op = name /\ IsSequence(todo)
  BY DEF Calling, Ok, StateOk, CallsOk
<1>2. DOMAIN todo = 1 .. Len(todo) /\ Len(todo) \in Nat /\ todo[1] = Head(todo)
  <2>1. Len(todo) # 0 /\ Len(todo) \in Nat /\ DOMAIN todo = 1 .. Len(todo) /\ todo \in Seq(Range(todo))
    BY <1>1, SequenceIs, EmptySeq
  <2> QED BY <2>1, HeadTailProperties
<1>3. ASSUME NEW i \in stale PROVE name = "dir_close_file" /\ Head(todo).x = i
  <2>1. PICK k \in DOMAIN todo : /\ todo[k].op = "dir_close_file" /\ todo[k].x = i
                                 /\ \A d \in 1 .. k - 1 : todo[d].op \in FirmwareOps
    BY <1>3 DEF DescriptorInv, ClosedNext
  <2>2. k = 1
    <3>1. k # 1 => 1 \in 1 .. k - 1
      BY <1>2, <2>1
    <3> QED BY <1>1, <1>2, <2>1, <3>1
  <2> QED BY <1>1, <1>2, <2>1, <2>2
<1> QED BY <1>3

\* Closing sections, files and archives is loading.
LEMMA ClosingLoads ==
  ASSUME Ok, \/ Free \/ ContentArchiveDestroy \/ DestroyFile \/ CloseArchive \/ CloseWrapped
             \/ CloseFile
  PROVE  Quit \/ LoadingStep
<1>0. HeapOk(heap) /\ AllIn(<<>>, FirmwareOps)
  BY LoadingNames DEF Ok, StateOk
<1>1. CASE Free
  <2>1. heap' = [heap EXCEPT ![Arg.x].live = FALSE] /\ Then(<<>>)
    BY <1>1 DEF Free
  <2> QED BY <1>0, <2>1, RisingClosed, OpensSame DEF LoadingStep
<1>2. CASE ContentArchiveDestroy
  <2>1. Calling("content_archive_destroy")
    BY <1>2 DEF ContentArchiveDestroy
  <2>2. IsCall(session, heap, games, Head(todo)) /\ Head(todo).op = "content_archive_destroy"
    BY <2>1, OkFacts
  <2>3. PICK x, p, q, c : /\ x = Head(todo).x
                          /\ p = EachOn("destroy_file", x, heap[x].pfs_list)
                          /\ q = EachOn("destroy_file", x, heap[x].romfs_list)
                          /\ c = Call("close_archive", x)
    OBVIOUS
  <2>4. IsSequence(heap[x].pfs_list) /\ IsSequence(heap[x].romfs_list)
    BY <1>0, <2>2, <2>3, ObjectFacts DEF IsCall
  <2>5. "destroy_file" \in FirmwareOps /\ c.op \in FirmwareOps
    BY <2>3, CallNames DEF FirmwareOps
  <2>6. AllIn(p, FirmwareOps) /\ AllIn(q, FirmwareOps) /\ AllIn(<<c>>, FirmwareOps)
    BY <2>3, <2>4, <2>5, AllEach, LoadingNames
  <2>7. AllIn((p \o q) \o <<c>>, FirmwareOps)
    BY <2>6, AllJoin
  <2>8. Then((p \o q) \o <<c>>) /\ heap' = heap
    BY <1>2, <2>3 DEF ContentArchiveDestroy, Arg
  <2> QED BY <2>7, <2>8 DEF LoadingStep, OpensNone
<1>3. CASE DestroyFile
  <2>1. Quit \/ (Then(<<>>) /\ \E x, y : heap' = [heap EXCEPT ![x].live = FALSE, ![y].live = FALSE])
    BY <1>3 DEF DestroyFile
  <2>2. ASSUME NEW x, NEW y, heap' = [heap EXCEPT ![x].live = FALSE, ![y].live = FALSE]
        PROVE  OpensNone(heap, heap')
    BY <1>0, <2>2, RisingTwo, OpensSame
  <2> QED BY <1>0, <2>1, <2>2 DEF LoadingStep
<1>4. CASE CloseArchive
  <2>1. PICK x, p, c : x = Arg.x /\ p = CloseOrder(x) /\ c = Call("free", x)
    OBVIOUS
  <2>2. AllIn(p, FirmwareOps)
    <3>1. PICK a, b, d : /\ a = CallOn("close_wrapped", heap[x].dir, heap[x].base)
                         /\ b = Call("free", heap[x].base)
                         /\ d = CallOn("close_file", heap[x].dir, heap[x].base)
      OBVIOUS
    <3>2. a.op \in FirmwareOps /\ b.op \in FirmwareOps /\ d.op \in FirmwareOps
      BY <3>1, CallNames DEF FirmwareOps
    <3>3. AllIn(<<a, b>>, FirmwareOps) /\ AllIn(<<d>>, FirmwareOps)
      BY <3>2, LoadingNames
    <3> QED BY <2>1, <3>1, <3>3 DEF CloseOrder
  <2>3. AllIn(<<c>>, FirmwareOps)
    <3>1. c.op \in FirmwareOps
      BY <2>1, CallNames DEF FirmwareOps
    <3> QED BY <3>1, LoadingNames
  <2>4. AllIn(p \o <<c>>, FirmwareOps) /\ Then(p \o <<c>>) /\ heap' = heap
    BY <1>4, <2>1, <2>2, <2>3, AllJoin DEF CloseArchive
  <2> QED BY <2>4 DEF LoadingStep, OpensNone
<1>5. CASE CloseWrapped
  <2>1. PICK c : c = CallOn("close_file", Arg.dir, heap[Arg.x].base)
    OBVIOUS
  <2>2. c.op \in FirmwareOps
    BY <2>1, CallNames DEF FirmwareOps
  <2>3. AllIn(<<c>>, FirmwareOps) /\ Then(<<c>>) /\ heap' = heap
    BY <1>5, <2>1, <2>2, LoadingNames DEF CloseWrapped
  <2> QED BY <2>3 DEF LoadingStep, OpensNone
<1>6. CASE CloseFile
  <2>1. Calling("close_file")
    BY <1>6 DEF CloseFile
  <2>2. IsCall(session, heap, games, Head(todo)) /\ Head(todo).op = "close_file"
    BY <2>1, OkFacts
  <2>3. PICK d, x, v, w : /\ d = Arg.dir /\ x = Arg.x /\ v = FilesLeft(d, x)
                          /\ w = ([heap EXCEPT ![d].parts = v][x].live /\ heap[d].kind = "romfs"
                                   /\ heap[x].kind \notin {"offset", "map", "mem"})
    OBVIOUS
  <2>4. d \in DOMAIN heap /\ heap[d].kind # "loader"
    BY <2>2, <2>3 DEF IsCall, Arg, IsFileOf, DirKinds
  <2>5. Quit \/ (heap' = [heap EXCEPT ![d].parts = v, ![x].live = w] /\ Then(<<>>))
    BY <1>6, <2>3 DEF CloseFile
  <2>6. ASSUME heap' = [heap EXCEPT ![d].parts = v, ![x].live = w] PROVE OpensNone(heap, heap')
    BY <1>0, <2>4, <2>6, RisingHeld, OpensSame
  <2> QED BY <1>0, <2>5, <2>6 DEF LoadingStep
<1> QED BY <1>1, <1>2, <1>3, <1>4, <1>5, <1>6

\* Opening sections and archives and keeping them is loading.
LEMMA OpeningLoads ==
  ASSUME Ok, PushArchive \/ GetFile \/ Service
  PROVE  Quit \/ LoadingStep
<1>0. HeapOk(heap) /\ IsSequence(heap) /\ AllIn(<<>>, FirmwareOps)
  BY LoadingNames DEF Ok, StateOk, HeapOk
<1>1. CASE PushArchive
  <2>1. Then(<<>>)
    BY <1>1 DEF PushArchive
  <2>2. PICK d, v : d = Arg.dir /\ v = Append(heap[d].parts, Arg.x)
    OBVIOUS
  <2>3. heap' = [heap EXCEPT ![d].parts = v]
    BY <1>1, <2>2 DEF PushArchive
  <2>4. SameKinds(heap, heap')
    <3>1. PICK o, p : o = heap[d] /\ p = [o EXCEPT !.parts = v]
      OBVIOUS
    <3>2. heap' = [heap EXCEPT ![d] = p]
      BY <2>3, <3>1
    <3>3. d \in DOMAIN heap => p.kind = o.kind
      <4>1. d \in DOMAIN heap => o = [kind |-> o.kind, base |-> o.base, dir |-> o.dir,
               parts |-> o.parts, pfs_list |-> o.pfs_list, romfs_list |-> o.romfs_list,
               path |-> o.path, live |-> o.live]
        BY <1>0, <3>1 DEF HeapOk, IsObject
      <4> QED BY <3>1, <4>1
    <3> QED BY <3>1, <3>2, <3>3 DEF SameKinds
  <2> QED BY <1>0, <2>1, <2>4, OpensSame DEF LoadingStep
<1>2. CASE GetFile
  <2>1. Calling("get_file")
    BY <1>2 DEF GetFile
  <2>2. IsCall(session, heap, games, Head(todo)) /\ Head(todo).op = "get_file"
    BY <2>1, OkFacts
  <2>3. PICK n, s : n = Arg.nca /\ s = Arg.section
    OBVIOUS
  <2>4. n \in DOMAIN heap
    BY <2>2, <2>3 DEF IsCall, Arg
  <2>5. PICK o1, o2, h1, item :
          /\ o1 = (IF s.ctr THEN EncryptedFile(n) ELSE DecryptedFile(n))
          /\ o2 = (IF s.fs = "pfs" THEN Pfs(New) ELSE Romfs(New))
          /\ h1 = heap \o <<o1, o2>>
          /\ item = [file |-> New, fs |-> New + 1, ctr |-> s.ctr, icon |-> s.icon]
    OBVIOUS
  <2>6. Quit \/ (heap' = WithSection(n, s, h1) /\ Then(<<>>))
    BY <1>2, <2>3, <2>5 DEF GetFile
  <2>7. o1.kind \in {"aes", "offset"} /\ o2.kind \in {"pfs", "romfs"}
    <3>1. PICK f, a, b, c, d : /\ f = SectionBase(n) /\ a = Aes(f) /\ b = Offset(f)
                               /\ c = Pfs(New) /\ d = Romfs(New)
      OBVIOUS
    <3>2. a.kind = "aes" /\ b.kind = "offset" /\ c.kind = "pfs" /\ d.kind = "romfs"
      <4>1. a.kind = "aes"
        BY <3>1, Made DEF Aes
      <4>2. b.kind = "offset"
        BY <3>1, Made DEF Offset
      <4>3. c.kind = "pfs"
        BY <3>1, Made DEF Pfs
      <4>4. d.kind = "romfs"
        BY <3>1, Made DEF Romfs
      <4> QED BY <4>1, <4>2, <4>3, <4>4
    <3>3. o1 \in {a, b} /\ o2 \in {c, d}
      BY <2>5, <3>1 DEF EncryptedFile, DecryptedFile
    <3> QED BY <3>2, <3>3
  <2>8. OpensNone(heap, h1)
    BY <1>0, <2>5, <2>7, OpensAppends
  <2>9. ASSUME heap' = WithSection(n, s, h1) PROVE OpensNone(heap, heap')
    <3>1. PICK o, v : /\ o = h1[n]
                      /\ v = IF s.fs = "pfs" THEN [o EXCEPT !.pfs_list = Append(o.pfs_list, item)]
                             ELSE [o EXCEPT !.romfs_list = Append(o.romfs_list, item)]
      OBVIOUS
    <3>2. heap' = [h1 EXCEPT ![n] = v]
      BY <2>5, <2>9, <3>1 DEF WithSection
    <3>3. o = heap[n]
      <4>1. \A i \in DOMAIN heap : (heap \o <<o1, o2>>)[i] = heap[i]
        BY <1>0, RisingAppends
      <4> QED BY <2>4, <2>5, <3>1, <4>1
    <3>4. o = [kind |-> o.kind, base |-> o.base, dir |-> o.dir, parts |-> o.parts,
               pfs_list |-> o.pfs_list, romfs_list |-> o.romfs_list, path |-> o.path, live |-> o.live]
      BY <1>0, <2>4, <3>3 DEF HeapOk, IsObject
    <3>5. v.kind = o.kind
      BY <3>1, <3>4
    <3>6. SameKinds(h1, heap')
      BY <3>1, <3>2, <3>5 DEF SameKinds
    <3> QED BY <2>8, <3>6, OpensSame, OpensOn
  <2> QED BY <1>0, <2>6, <2>9 DEF LoadingStep
<1>3. CASE Service
  <2>1. CASE ~Arg.e.svt
    BY <1>0, <1>3, <2>1 DEF Service, LoadingStep, OpensNone
  <2>2. CASE Arg.e.svt
    <3>1. PICK fs : fs = heap[Arg.nca].romfs_list[1].fs
      OBVIOUS
    <3>2. PICK a, b, c : /\ a = Object("service", None) /\ b = Offset(heap[fs].base)
                         /\ c = CallOn("close_file", fs, New + 1)
      OBVIOUS
    <3>3. heap' = heap \o <<a, b>> /\ Then(<<c>>)
      BY <1>3, <2>2, <3>1, <3>2 DEF Service
    <3>4. a.kind = "service" /\ b.kind = "offset"
      BY <3>2, Made DEF Offset
    <3>5. c.op \in FirmwareOps
      BY <3>2, CallNames DEF FirmwareOps
    <3>6. AllIn(<<c>>, FirmwareOps)
      BY <3>5, LoadingNames
    <3>7. OpensNone(heap, heap')
      BY <1>0, <3>3, <3>4, OpensAppends
    <3> QED BY <3>3, <3>6, <3>7 DEF LoadingStep
  <2> QED BY <2>1, <2>2
<1> QED BY <1>1, <1>2, <1>3

\* Opening an archive is loading.
LEMMA CreatingLoads ==
  ASSUME Ok, ContentArchiveCreate
  PROVE  Quit \/ LoadingStep
<1>1. Calling("content_archive_create")
  BY DEF ContentArchiveCreate
<1>2. IsCall(session, heap, games, Head(todo)) /\ Head(todo).op = "content_archive_create"
      /\ HeapOk(heap) /\ IsSequence(heap)
  BY <1>1, OkFacts DEF HeapOk
<1>3. PICK dir, e, l, f, h0 : dir = Arg.dir /\ e = Arg.e /\ l = Arg.owner
        /\ f = ArchiveFile(dir, e.name) /\ h0 = WithArchiveFile(dir)
  OBVIOUS
<1>4. IsArchive(e)
  BY <1>2, <1>3 DEF IsCall, Arg
<1>5. PICK h1, x, o, p, q : /\ h1 = IF e.encrypted THEN Append(h0, Aes(f)) ELSE h0
                            /\ x = Len(h1) + 1
                            /\ o = Inside(dir, Object("nca", IF e.encrypted THEN x - 1 ELSE f))
                            /\ p = IF l # None THEN <<CallOn("list_push", l, x)>>
                                   ELSE <<[op |-> "service", nca |-> x, e |-> e],
                                     Call("content_archive_destroy", x)>>
                            /\ q = Gets(x, e)
  OBVIOUS
<1>6. Quit \/ (heap' = Append(h1, o) /\ Then(q \o p))
  BY <1>3, <1>5 DEF ContentArchiveCreate, Gets
<1>7. AllIn(q, FirmwareOps)
  <2>1. IsSequence(q) /\ \A i \in DOMAIN q : q[i].op = "get_file"
    BY <1>4, <1>5, SectionCalls
  <2> QED BY <2>1 DEF AllIn, FirmwareOps
<1>8. AllIn(p, FirmwareOps)
  <2>1. PICK a, b, c : /\ a = CallOn("list_push", l, x) /\ b = [op |-> "service", nca |-> x, e |-> e]
                       /\ c = Call("content_archive_destroy", x)
    OBVIOUS
  <2>2. a.op \in FirmwareOps /\ b.op \in FirmwareOps /\ c.op \in FirmwareOps
    BY <2>1, CallNames DEF FirmwareOps
  <2>3. AllIn(<<a>>, FirmwareOps) /\ AllIn(<<b, c>>, FirmwareOps)
    BY <2>2, LoadingNames
  <2> QED BY <1>5, <2>1, <2>3
<1>9. AllIn(q \o p, FirmwareOps)
  BY <1>7, <1>8, AllJoin
<1>10. OpensNone(heap, h0) /\ IsSequence(h0)
  <2>1. PICK a, b : a = Offset(heap[dir].base) /\ b = ZipFile(dir)
    OBVIOUS
  <2>2. h0 = Append(heap, a) \/ h0 = Append(heap, b) \/ h0 = heap
    BY <1>3, <2>1 DEF WithArchiveFile
  <2>3. a.kind = "offset" /\ b.kind = "zipfile"
    BY <2>1, Made DEF Offset, ZipFile
  <2>4. OpensNone(heap, Append(heap, a)) /\ IsSequence(Append(heap, a))
    BY <1>2, <2>3, OpensAppend
  <2>5. OpensNone(heap, Append(heap, b)) /\ IsSequence(Append(heap, b))
    BY <1>2, <2>3, OpensAppend
  <2>6. OpensNone(heap, heap)
    BY DEF OpensNone
  <2> QED BY <1>2, <2>2, <2>4, <2>5, <2>6
<1>11. OpensNone(heap, h1) /\ IsSequence(h1)
  <2>1. PICK a : a = Aes(f)
    OBVIOUS
  <2>2. a.kind = "aes"
    BY <2>1, Made DEF Aes
  <2>3. OpensNone(h0, Append(h0, a)) /\ IsSequence(Append(h0, a))
    BY <1>10, <2>2, OpensAppend
  <2>4. h1 = Append(h0, a) \/ h1 = h0
    BY <1>5, <2>1
  <2> QED BY <1>10, <2>3, <2>4, OpensOn
<1>12. OpensNone(heap, Append(h1, o))
  <2>1. o.kind = "nca"
    BY <1>5, Made
  <2>2. OpensNone(h1, Append(h1, o))
    BY <1>11, <2>1, OpensAppend
  <2> QED BY <1>11, <2>2, OpensOn
<1> QED BY <1>6, <1>9, <1>12 DEF LoadingStep

\* Every step keeps the invariant: in the loading the file stays the last opened, and what
\* opens others is only called when no descriptor is stale.
LEMMA DescriptorStep ==
  ASSUME Ok, OnDisk, DescriptorInv, [Next]_vars
  PROVE  DescriptorInv'
<1>0. HeapOk(heap) /\ IsSequence(heap)
  BY DEF Ok, StateOk, HeapOk
<1>1. CASE Quit /\ stale' = stale
  BY <1>1 DEF Quit, DescriptorInv
<1>2. CASE UNCHANGED vars
  BY <1>2 DEF vars, DescriptorInv
<1>3. ASSUME NEW name, Calling(name), name \notin FirmwareOps \cup {"dir_close_file"}
      PROVE  stale = {}
  BY <1>3, NoneStale
<1>4. CASE /\ stale' = stale
           /\ \/ Free \/ ContentArchiveDestroy \/ DestroyFile \/ CloseArchive \/ CloseWrapped
              \/ CloseFile \/ PushArchive \/ GetFile \/ Service \/ ContentArchiveCreate
  <2>1. Quit \/ LoadingStep
    BY <1>4, ClosingLoads, OpeningLoads, CreatingLoads
  <2>2. \E name \in FirmwareOps : Calling(name)
    <3>1. \/ Calling("free") \/ Calling("content_archive_destroy") \/ Calling("destroy_file")
          \/ Calling("close_archive") \/ Calling("close_wrapped") \/ Calling("close_file")
          \/ Calling("list_push") \/ Calling("get_file") \/ Calling("service")
          \/ Calling("content_archive_create")
      BY <1>4 DEF Free, ContentArchiveDestroy, DestroyFile, CloseArchive, CloseWrapped, CloseFile,
         PushArchive, GetFile, Service, ContentArchiveCreate
    <3> QED BY <3>1 DEF FirmwareOps
  <2> QED BY <1>1, <1>4, <2>1, <2>2, LoadingKeeps
<1>5. CASE DirCloseFile
  <2>1. Calling("dir_close_file") /\ stale' = stale \ {Head(todo).x}
    BY <1>5 DEF DirCloseFile, Arg
  <2>2. stale' = {}
    BY <2>1, NoneStale DEF FirmwareOps
  <2> QED BY <2>2 DEF DescriptorInv
<1>6. CASE HosFirmwareLoad
  <2>1. Calling("hos_firmware_load")
    BY <1>6 DEF HosFirmwareLoad
  <2>2. stale = {}
    BY <1>3, <2>1 DEF FirmwareOps
  <2>3. PICK x, f, h1, zip, n : /\ x = Head(todo).x /\ f = Len(heap) + 1 /\ n = Len(todo)
                                /\ h1 = WithHostFile(x, "firmware.zip") /\ zip = Len(h1) + 1
    OBVIOUS
  <2>4. /\ HeapOk(heap) /\ Head(todo).op = "hos_firmware_load" /\ todo # <<>>
        /\ IsCall(session, heap, games, Head(todo))
    BY <2>1, <2>3, OkFacts
  <2>5. x \in DOMAIN heap /\ heap[x].kind = "hostdir" /\ session.firmware # <<>>
    BY <2>3, <2>4 DEF IsCall
  <2>6. heap[x].parts = <<>>
    BY <2>4, <2>5, NoFileOpen DEF Ok
  <2>7. HostOpened(x, "firmware.zip", h1, f)
    <3>1. Opens(x, "firmware.zip", h1, f)
      BY <2>3, <2>4, <2>5, <2>6 DEF Opens
    <3> QED BY <3>1, NewHostFile
  <2>8. PICK o, a, b, p, s : /\ o = ZipDir(f) /\ a = Call("free", zip) /\ b = CallOn("dir_close_file", x, f)
                             /\ s = session.firmware[1]
                             /\ p = EachWith("content_archive_create", None, zip, s)
    OBVIOUS
  <2>9. heap' = Append(h1, o) /\ Then(p \o <<a, b>>) /\ stale' = {f}
    BY <1>6, <2>2, <2>3, <2>7, <2>8 DEF HosFirmwareLoad, HostOpened, Arg, ZipFdopen
  <2>10. LastOpened(heap', f)
    <3>1. IsSequence(h1) /\ Len(h1) = f /\ f \in Nat /\ DOMAIN heap = 1 .. f - 1
      BY <1>0, <2>3, <2>7, SequenceIs DEF HostOpened, HeapOk
    <3>2. o.kind = "zip"
      BY <2>8, Made DEF ZipDir
    <3>3. OpensNone(h1, heap')
      BY <2>9, <3>1, <3>2, OpensAppend
    <3>4. DOMAIN h1 = 1 .. f
      BY <3>1, SequenceIs
    <3>5. ASSUME NEW j \in DOMAIN heap', heap'[j].kind \in {"host", "map"} PROVE j <= f
      <4>1. j \in DOMAIN h1
        BY <3>3, <3>5 DEF OpensNone
      <4> QED BY <3>1, <3>4, <4>1
    <3>6. f \in DOMAIN heap'
      <4>1. f \in DOMAIN h1
        BY <2>7 DEF HostOpened
      <4> QED BY <3>3, <4>1 DEF OpensNone
    <3> QED BY <3>5, <3>6 DEF LastOpened
  <2>11. ClosedNext(todo', f)
    <3>1. IsSequence(s)
      BY <2>5, <2>8, FirmwareIs
    <3>2. AllIn(p, FirmwareOps)
      <4>1. IsSequence(p) /\ DOMAIN p = DOMAIN s
              /\ \A i \in DOMAIN s : p[i].op = "content_archive_create"
        BY <2>8, <3>1, FileCalls
      <4> QED BY <4>1 DEF AllIn, FirmwareOps
    <3>3. PICK t, q, m, k : t = <<a, b>> /\ q = p \o t /\ m = Len(p) /\ k = Len(t)
      OBVIOUS
    <3>4. IsSequence(t) /\ k = 2 /\ DOMAIN t = {1, 2} /\ t[1] = a /\ t[2] = b
      <4>1. IsSequence(t) /\ Len(t) = 2
        BY <3>3, Small
      <4> QED BY <3>3, <4>1
    <3>5. Linked(p, t, q, m, k)
      BY <3>2, <3>3, <3>4, CallsJoined DEF AllIn
    <3>6. a.op \in FirmwareOps /\ b.op = "dir_close_file" /\ b.x = f
      BY <2>8, CallNames DEF FirmwareOps, CallOn
    <3>7. PICK r : r = m + 2
      OBVIOUS
    <3>8. r \in DOMAIN q /\ q[r] = b /\ r \in Nat /\ DOMAIN q = 1 .. r
      BY <3>4, <3>5, <3>7 DEF Linked
    <3>9. ASSUME NEW d \in 1 .. r - 1 PROVE q[d].op \in FirmwareOps
      <4>1. CASE d \in DOMAIN p
        <5>1. q[d] = p[d]
          BY <3>5, <4>1 DEF Linked
        <5> QED BY <3>2, <4>1, <5>1 DEF AllIn
      <4>2. CASE d \notin DOMAIN p
        <5>1. d = m + 1
          BY <3>5, <3>7, <3>9, <4>2 DEF Linked
        <5>2. q[d] = a
          BY <3>4, <3>5, <5>1 DEF Linked
        <5> QED BY <3>6, <5>2
      <4> QED BY <4>1, <4>2
    <3>10. Replaces(todo, q, todo', n, Len(q))
      <4>1. IsSequence(todo) /\ IsSequence(q) /\ todo' = q \o Tail(todo)
        BY <2>9, <3>3, <3>5 DEF Then, Linked, Ok, StateOk, CallsOk
      <4> QED BY <2>3, <2>4, <4>1, Replacing
    <3>11. DOMAIN q \subseteq DOMAIN todo' /\ \A j \in DOMAIN q : todo'[j] = q[j]
      BY <3>10 DEF Replaces
    <3>12. todo'[r].op = "dir_close_file" /\ todo'[r].x = f /\ r \in DOMAIN todo'
      BY <3>6, <3>8, <3>11
    <3>13. ASSUME NEW d \in 1 .. r - 1 PROVE todo'[d].op \in FirmwareOps
      <4>1. d \in DOMAIN q
        BY <3>8, <3>13
      <4> QED BY <3>9, <3>11, <4>1
    <3> QED BY <3>12, <3>13 DEF ClosedNext
  <2> QED BY <2>9, <2>10, <2>11 DEF DescriptorInv
<1>7. CASE /\ stale' = stale
           /\ \/ DirClose \/ FindKeys \/ HosCreate \/ GetAllLoaders \/ LoadGame \/ NspCreate
              \/ NszCreate \/ LoadTik \/ NspAddFile \/ AddTicket \/ NszAddFile \/ LoadFirstOne
              \/ HosDisable \/ Logos \/ GetLogo \/ LoaderDestroy \/ DestroyPackage \/ NxSysDestroy
  <2>1. \E name : Calling(name) /\ name \notin FirmwareOps \cup {"dir_close_file"}
    <3>1. \/ Calling("dir_close") \/ Calling("find_keys") \/ Calling("hos_create")
          \/ Calling("nx_get_all_loaders") \/ Calling("load_game") \/ Calling("nsp")
          \/ Calling("nsz") \/ Calling("load_tik") \/ Calling("nsp_addfile")
          \/ Calling("keys_db_add_ticket") \/ Calling("nsz_addfile")
          \/ Calling("nx_load_first_one") \/ Calling("hos_disable") \/ Calling("logos")
          \/ Calling("loader_get_logo") \/ Calling("loader_destroy")
          \/ Calling("destroy_package") \/ Calling("nx_sys_destroy")
      BY <1>7 DEF DirClose, FindKeys, HosCreate, GetAllLoaders, LoadGame, NspCreate,
         NszCreate, LoadTik, NspAddFile, AddTicket, NszAddFile, LoadFirstOne,
         HosDisable, Logos, GetLogo, LoaderDestroy, DestroyPackage, NxSysDestroy
    <3>2. (FirmwareOps \cup {"dir_close_file"}) \cap {"dir_close", "find_keys", "hos_create",
            "nx_get_all_loaders", "load_game", "nsp", "nsz", "load_tik", "nsp_addfile",
            "keys_db_add_ticket", "nsz_addfile", "nx_load_first_one", "hos_disable", "logos",
            "loader_get_logo", "loader_destroy", "destroy_package", "nx_sys_destroy"} = {}
      BY DEF FirmwareOps
    <3> QED BY <3>1, <3>2
  <2>2. stale' = {}
    BY <1>3, <1>7, <2>1
  <2> QED BY <2>2 DEF DescriptorInv
<1> QED BY <1>2, <1>4, <1>5, <1>6, <1>7 DEF Next

\* zip_fdopen closes the descriptor of firmware.zip, and fclose of its FILE closes it once
\* more: until then hos_enable and what it calls open no other file of the host.
THEOREM SecondCloseIsHarmless == Spec => []SecondCloseHitsNothing
<1>1. Spec => []SessionInv
  BY SessionInvariant
<1>2. Init => DescriptorInv
  BY DEF Init, DescriptorInv
<1>3. SessionInv /\ DescriptorInv /\ [Next]_vars => DescriptorInv'
  BY DescriptorStep DEF SessionInv
<1>4. DescriptorInv => SecondCloseHitsNothing
  BY DEF DescriptorInv, LastOpened, SecondCloseHitsNothing, Objects
<1> QED BY <1>1, <1>2, <1>3, <1>4, PTL DEF Spec
=============================================================================
