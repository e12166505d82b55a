---------------------------- MODULE ArchivesFacts ----------------------------
(***************************************************************************)
(* The inductive invariant of Archives, and the calls that keep it by      *)
(* closing things or making things that belong to no list; SupernxProofs   *)
(* has the others.                                                         *)
(*                                                                         *)
(* The heap is sound: lists hold what they should, and no object is owned  *)
(* twice (HeapOk, ListsOk).  The calls to be made have the arguments they  *)
(* need, in an order in which no call is made too late (CallsOk).  Every   *)
(* live object is trusted to exactly one of these calls, which closes it,  *)
(* and what it lies over is trusted to that call or a later one (TrustOk). *)
(***************************************************************************)
EXTENDS Archives, NumberFacts, SequenceTheorems, TLAPS

\* The files an archive may be opened from, and the directories they are in
FileKinds == {"offset", "mem", "zipfile"}
DirKinds == {"pfs", "romfs", "zip"}

\* A sequence counted from its end
At(T, d) == T[Len(T) + 1 - d]
Turns(T) == 1 .. Len(T)

\* What an object lies over: its base, and the directory it was opened in
Over(h, i) == IF h[i].kind = "loader" THEN {} ELSE {h[i].base, h[i].dir} \ {None}
Below(h, n) == IF h[h[n].base].kind = "aes" THEN h[h[n].base].base ELSE h[n].base

\* The sections of an archive, and the objects they are
Items(h, n) == Range(h[n].pfs_list) \cup Range(h[n].romfs_list)
SectionObjects(h, n) == { p.file : p \in Items(h, n) } \cup { p.fs : p \in Items(h, n) }

\* What is closed with an object: the file, the wrapper and the sections of an archive; the
\* directories and the archives of a loader
Owned(h, o) ==
  CASE h[o].kind = "nca" -> {h[o].base, Below(h, o)} \cup SectionObjects(h, o)
    [] h[o].kind = "loader" -> ({h[o].dir, h[o].base} \ {None}) \cup Range(h[o].parts)
    [] OTHER -> {}
Archive(h, n) == {n} \cup Owned(h, n)
Package(h, l) == {l} \cup Owned(h, l) \cup UNION { Owned(h, n) : n \in Range(h[l].parts) }
Game(h, g) == {g.file} \cup IF g.loader = None THEN {} ELSE Package(h, g.loader)

HeldIn(h, dir, name) == { i \in Range(h[dir].parts) : h[i].path = name }

\* What a call to be made is trusted with: it, or the calls it makes, will close it
Trust(h, g, k, s, c) ==
  CASE c.op \in {"free", "dir_close_file", "dir_close", "keys_db_add_ticket", "close_file"} -> {c.x}
    [] c.op = "content_archive_create" ->
         IF h[c.dir].kind = "romfs" THEN HeldIn(h, c.dir, c.e.name) ELSE {}
    [] c.op \in {"list_push", "content_archive_destroy"} -> Archive(h, c.x)
    [] c.op = "destroy_file" -> {c.x.fs, c.x.file}
    [] c.op = "close_archive" -> {c.x, h[c.x].base, Below(h, c.x)}
    [] c.op = "close_wrapped" -> {h[c.x].base}
    [] c.op = "destroy_package" -> {c.x, h[c.x].dir, h[c.x].base} \ {None}
    [] c.op = "loader_destroy" -> {c.dir} \cup Package(h, c.x)
    [] c.op = "nx_sys_destroy" -> (UNION { Game(h, g[a]) : a \in DOMAIN g }) \cup Range(k)
    [] c.op = "hos_disable" -> Range(s)
    [] OTHER -> {}

\* ... and nothing but that call: free leaves what a wrapper and an archive lie over
Whole(h, g, k, s, c, i) ==
  i \in Trust(h, g, k, s, c) /\ ~(c.op = "free" /\ h[i].kind \in {"aes", "nca"})

Live(h) == { i \in DOMAIN h : h[i].live }

----------------------------------------------------------------------------

\* The fields of an object
IsObject(h, i) ==
  LET o == h[i] IN
  /\ o = [kind |-> o.kind, base |-> o.base, dir |-> o.dir, parts |-> o.parts,
          pfs_list |-> o.pfs_list, romfs_list |-> o.romfs_list, path |-> o.path, live |-> o.live]
  /\ o.base \in 0 .. i - 1 /\ o.dir \in 0 .. i - 1 /\ o.live \in BOOLEAN
  /\ IsSequence(o.parts) /\ IsInjective(o.parts) /\ Range(o.parts) \subseteq DOMAIN h
  /\ IsSequence(o.pfs_list) /\ IsSequence(o.romfs_list)

\* Lists
HoldsFiles(h, i) ==
  h[i].kind \in {"hostdir", "romfs"} =>
    \A j \in Range(h[i].parts) :
      /\ h[j].dir = i /\ h[j].live
      /\ h[j].kind \in IF h[i].kind = "hostdir" THEN {"host"} ELSE {"offset", "mem"}

\* What objects of each kind lie over
IsLayered(h, i) ==
  /\ h[i].base # None => h[h[i].base].kind # "loader"
  /\ h[i].kind \in {"offset", "aes", "pfs", "zip", "zipfile", "nca"} => h[i].base # None
  /\ h[i].kind = "zip" => h[h[i].base].kind = "host"
  /\ h[i].kind = "zipfile" => h[i].dir = None
  /\ h[i].kind = "mem" => h[i].base = None
  /\ h[i].kind = "host" => h[i].base = None /\ (h[i].dir # None => h[h[i].dir].kind = "hostdir")

\* A loader has a package directory, archives, and nca_files if it is of an nsz.
IsLoader(h, l) ==
  h[l].kind = "loader" =>
    /\ h[l].dir # None /\ h[h[l].dir].kind = "pfs"
    /\ h[l].base # None => /\ h[l].dir < h[l].base /\ h[h[l].base].kind = "romfs"
                           /\ h[h[l].base].base = None /\ h[h[l].base].dir = None
    /\ \A n \in Range(h[l].parts) : h[n].kind = "nca"

\* One of the two lists of an archive
IsSectionList(h, n, list, kind) ==
  /\ \A a \in DOMAIN list :
       LET p == list[a] IN
       /\ p.file \in n + 1 .. Len(h) - 1 /\ p.fs = p.file + 1
       /\ h[p.fs].kind = kind /\ h[p.fs].base = p.file /\ h[p.fs].dir = None
       /\ h[p.file].kind \in {"offset", "aes"} /\ h[p.file].base = Below(h, n)
       /\ h[p.file].dir = None
  /\ \A a, b \in DOMAIN list : list[a].fs = list[b].fs => a = b

\* An archive lies over a file of its directory, with or without a wrapper.
IsNca(h, n) ==
  h[n].kind = "nca" =>
    /\ h[h[n].base].kind \in FileKinds \cup {"aes"}
    /\ h[h[n].base].kind = "aes" => h[h[n].base].dir = None
    /\ h[Below(h, n)].kind \in FileKinds
    /\ h[n].dir # None /\ h[h[n].dir].kind \in DirKinds
    /\ h[Below(h, n)].dir \in {None, h[n].dir}
    /\ h[Below(h, n)].kind = "zipfile" => h[h[n].dir].kind = "zip"
    /\ h[h[n].dir].base # None /\ h[Below(h, n)].kind = "offset"
         => h[Below(h, n)].base = h[h[n].dir].base
    /\ IsSectionList(h, n, h[n].pfs_list, "pfs")
    /\ IsSectionList(h, n, h[n].romfs_list, "romfs")

\* Nothing is owned twice.
OwnedOnce(h) == \A o, p \in DOMAIN h : o # p => Owned(h, o) \cap Owned(h, p) = {}
Unowned(h, i) == \A o \in DOMAIN h : i \notin Owned(h, o)

\* What archives lie over outside themselves
Ground(h, l) == {h[l].dir, h[l].base, h[h[l].dir].base}
Grounded(h, l, n) == \A i \in Archive(h, n) : Over(h, i) \subseteq Archive(h, n) \cup Ground(h, l)
IsGrounded(h, l) == h[l].kind = "loader" => \A n \in Range(h[l].parts) : Grounded(h, l, n)

HeapOk(h) ==
  /\ IsSequence(h)
  /\ \A i \in DOMAIN h :
       /\ IsObject(h, i) /\ HoldsFiles(h, i) /\ IsLayered(h, i) /\ IsLoader(h, i)
       /\ IsNca(h, i) /\ IsGrounded(h, i)
  /\ OwnedOnce(h)

\* An object of a kind that lies over nothing
IsAlone(h, i, kind) == i \in DOMAIN h /\ h[i].kind = kind /\ h[i].base = None /\ h[i].dir = None

\* A loader, the file its package is
IsPackageOver(h, l, file) ==
  l \in DOMAIN h /\ h[l].kind = "loader" /\ h[h[l].dir].base = file /\ h[h[l].dir].dir = None

\* The list of games
GamesOk(h, g) ==
  /\ IsSequence(g)
  /\ \A a \in DOMAIN g :
       /\ g[a] = [file |-> g[a].file, loader |-> g[a].loader, type |-> g[a].type]
       /\ IsAlone(h, g[a].file, "map")
       /\ g[a].loader # None => IsPackageOver(h, g[a].loader, g[a].file)
       /\ \A b \in DOMAIN g : a # b =>
            /\ g[a].file # g[b].file
            /\ g[a].loader = g[b].loader => g[a].loader = None

\* A list of tickets or services
ListOk(h, k, kind) == IsSequence(k) /\ IsInjective(k) /\ \A i \in Range(k) : IsAlone(h, i, kind)

ListsOk(h, g, k, s) == GamesOk(h, g) /\ ListOk(h, k, "tik") /\ ListOk(h, s, "service")

----------------------------------------------------------------------------

\* The loaders of the games, and the operations
Loaders(g) == { g[a].loader : a \in DOMAIN g } \ {None}
OpsOfPackages == {"load_tik", "nsp_addfile", "nsz_addfile"}
Ops ==
  OpsOfPackages \cup
  {"hos_create", "nx_get_all_loaders", "nx_load_first_one", "logos", "nx_sys_destroy",
    "hos_disable",
   "free", "dir_close_file", "dir_close", "find_keys", "load_game", "nsp", "nsz",
   "keys_db_add_ticket", "content_archive_create", "list_push", "get_file",
   "content_archive_destroy", "destroy_file", "close_archive", "close_wrapped", "close_file",
   "hos_firmware_load", "service", "loader_get_logo", "loader_destroy", "destroy_package"}

\* A file that a directory may close
IsFileOf(h, x, dir) ==
  /\ h[x].kind \in FileKinds
  /\ h[dir].kind \in DirKinds
  /\ h[x].dir \in {None, dir}
  /\ h[x].kind = "zipfile" => h[dir].kind = "zip"
  /\ h[dir].base # None /\ h[x].kind = "offset" => h[x].base = h[dir].base

\* The arguments of a call
IsCall(ses, h, g, c) ==
  /\ c.op \in Ops
  /\ c.op \in {"free", "dir_close_file", "dir_close", "keys_db_add_ticket", "list_push",
               "content_archive_destroy", "close_archive", "close_wrapped", "close_file",
               "hos_firmware_load", "loader_get_logo", "loader_destroy", "destroy_package"}
       => c.x \in DOMAIN h
  /\ c.op \in {"dir_close_file", "find_keys", "load_game", "nsp", "nsz", "list_push",
               "destroy_file", "close_wrapped", "close_file", "loader_destroy",
               "content_archive_create"} \cup OpsOfPackages
       => c.dir \in DOMAIN h
  /\ c.op = "free" => /\ h[c.x].kind \notin FileKinds
                      /\ h[c.x].kind = "host" => h[c.x].dir = None
  /\ c.op = "dir_close_file" => h[c.x].kind = "host" /\ h[c.x].dir = c.dir
       /\ h[c.dir].kind = "hostdir"
  /\ c.op = "dir_close" => IsAlone(h, c.x, "hostdir")
  /\ c.op \in {"find_keys", "load_game"} => h[c.dir].kind = "hostdir"
  /\ c.op \in {"load_game", "nsp", "nsz"} => c.x \in DOMAIN ses.games
  /\ c.op \in OpsOfPackages => c.owner \in Loaders(g) /\ c.dir = h[c.owner].dir
  /\ c.op \in {"load_tik", "nsp_addfile"} => h[c.owner].base = None
       /\ (c.e.kind \in {"nca", "cnmt"} => IsArchive(c.e))
  /\ c.op = "nsz_addfile" => h[c.owner].base # None
       /\ (c.e.kind \in {"nca", "ncz"} => IsArchive(c.e))
  /\ c.op = "keys_db_add_ticket" => IsAlone(h, c.x, "tik")
  /\ c.op = "content_archive_create" =>
       /\ IsArchive(c.e)
       /\ c.owner = None => h[c.dir].kind = "zip"
       /\ c.owner # None => c.owner \in Loaders(g)
                            /\ c.dir = IF h[c.owner].base = None THEN h[c.owner].dir ELSE h[c.owner].base
  /\ c.op = "list_push" => c.dir \in Loaders(g) /\ h[c.x].kind = "nca"
  /\ c.op \in {"get_file", "service"} => c.nca \in DOMAIN h /\ h[c.nca].kind = "nca"
  /\ c.op = "get_file" => c.section.fs \in {"pfs", "romfs"}
  /\ c.op \in {"content_archive_destroy", "close_archive"} => h[c.x].kind = "nca"
  /\ c.op = "destroy_file" => h[c.dir].kind = "nca" /\ c.x \in Items(h, c.dir)
  /\ c.op = "close_wrapped" => h[c.x].kind = "aes" /\ IsFileOf(h, h[c.x].base, c.dir)
  /\ c.op = "close_file" => IsFileOf(h, c.x, c.dir)
  /\ c.op = "hos_firmware_load" => h[c.x].kind = "hostdir" /\ ses.firmware # <<>>
  /\ c.op = "loader_get_logo" => c.x \in Loaders(g)
  /\ c.op = "loader_destroy" => IsAlone(h, c.dir, "map") /\ IsPackageOver(h, c.x, c.dir)
  /\ c.op = "destroy_package" => h[c.x].kind = "loader"

\* The calls to be made after one, and what they assure it of
After(t, d) == { At(t, e) : e \in 1 .. d - 1 }
Assured(h, g, k, s, C, i) == \E b \in C : Whole(h, g, k, s, b, i)
Later(C, op) == \E b \in C : b.op = op

\* What a call needs to be open is assured until it is made.
IsPlaced(h, g, k, s, c, C) ==
  /\ c.op \in {"dir_close_file", "find_keys", "load_game", "destroy_file", "close_wrapped",
       "close_file"}
       => Assured(h, g, k, s, C, c.dir)
  /\ c.op = "hos_firmware_load" => Assured(h, g, k, s, C, c.x)
  /\ c.op = "content_archive_create" /\ c.owner = None => Assured(h, g, k, s, C, c.dir)
  /\ c.op = "content_archive_create" /\ c.owner # None => Later(C, "nx_sys_destroy")
  /\ c.op \in OpsOfPackages \cup {"nx_get_all_loaders", "load_game", "nsp", "nsz",
       "keys_db_add_ticket", "list_push", "loader_get_logo", "logos"}
       => Later(C, "nx_sys_destroy")
  /\ c.op = "close_wrapped" => Call("free", c.x) \in C
  /\ (c.op = "content_archive_create" /\ c.owner = None)
       \/ c.op \in {"hos_firmware_load", "service"} => Later(C, "hos_disable")
  /\ c.op \in {"get_file", "service"} =>
       \E b \in C : b.op \in {"list_push", "content_archive_destroy"} /\ b.x = c.nca

\* The game whose package is being opened is the last.
Opening(t, g) ==
  /\ \A a \in DOMAIN g : g[a].loader = None => a = Len(g)
       /\ \E d \in Turns(t) : At(t, d).op \in {"nsp", "nsz"}
  /\ \A d \in Turns(t) : At(t, d).op \in {"nsp", "nsz"} => g # <<>>
       /\ g[Len(g)].file = At(t, d).dir /\ g[Len(g)].loader = None

\* What a call finds when it is made, and must find until then: an archive of an nsz is
\* not in nca_files, then it is; an archive to be put on a list is on none; and a ticket to
\* be added is the newest.
IsReady(h, k, c) ==
  /\ c.op = "nsz_addfile" /\ c.e.kind \in {"nca", "ncz"}
       => HeldIn(h, h[c.owner].base, c.e.name) = {}
  /\ c.op = "content_archive_create" /\ c.owner # None /\ h[c.owner].base # None =>
       \E i \in DOMAIN h : HeldIn(h, c.dir, c.e.name) = {i} /\ Unowned(h, i)
                           /\ h[i].base \in {None, h[h[c.owner].dir].base}
  /\ c.op = "list_push" => Unowned(h, c.x) /\ Grounded(h, c.dir, c.x)
  /\ c.op = "keys_db_add_ticket" => \A i \in Range(k) : i < c.x

\* The archives of an nsz have different names.
Differ(c, b) ==
  c.op = "nsz_addfile" /\ b.op = "nsz_addfile" /\ {c.e.kind, b.e.kind} \subseteq {"nca", "ncz"}
    => c.e.name # b.e.name
Apart(t) == \A e \in Turns(t) : \A d \in 1 .. e - 1 : Differ(At(t, d), At(t, e))

\* The archive of the service has a romfs when it is served.
Serving(t, h) == \A d \in Turns(t) : LET c == At(t, d) IN
  c.op = "service" /\ c.e.svt => h[c.nca].romfs_list # <<>> \/
     \E e \in d + 1 .. Len(t) : At(t, e).op = "get_file" /\ At(t, e).nca = c.nca
       /\ At(t, e).section.fs = "romfs"

\* The order in which calls may be nested
Level(op) ==
  CASE op = "nx_sys_destroy" -> 1
    [] op = "logos" -> 2
    [] op \in {"nx_load_first_one", "hos_disable"} -> 3
    [] op = "nx_get_all_loaders" -> 4
    [] op = "hos_create" -> 5
    [] op \in {"find_keys", "load_game", "hos_firmware_load", "dir_close", "loader_get_logo",
      "loader_destroy"} -> 6
    [] op = "dir_close_file" -> 7
    [] op \in {"nsp", "nsz"} -> 8
    [] op \in OpsOfPackages -> 9
    [] op = "keys_db_add_ticket" -> 10
    [] op = "content_archive_create" -> 11
    [] OTHER -> 0
Once == {1, 2, 3, 4, 5, 8, 10}
Above(b, c) == Level(b) # 0 /\ Level(c) # 0 => Level(b) < Level(c)
  \/ (Level(b) = Level(c) /\ Level(c) \notin Once)
InOrder(t) == \A e \in Turns(t) : \A d \in 1 .. e - 1 : Above(At(t, d).op, At(t, e).op)

\* The calls to be made
CallsOk(ses, t, h, g, k, s) ==
  /\ IsSequence(t)
  /\ \A d \in Turns(t) : IsCall(ses, h, g, At(t, d)) /\ IsReady(h, k, At(t, d))
       /\ IsPlaced(h, g, k, s, At(t, d), After(t, d))
  /\ InOrder(t) /\ Opening(t, g) /\ Apart(t) /\ Serving(t, h)

\* A ticket that was known when it was loaded, which nobody frees
Dropped(h, k, i) == h[i].kind = "tik" /\ \E j \in Range(k) : j < i /\ h[j].path = h[i].path

\* Every live object is in the trust of exactly one call, but for dropped tickets; and what
\* an object lies over is trusted to that call or a later one.
TrustOk(t, h, g, k, s) ==
  /\ \A d \in Turns(t) : Trust(h, g, k, s, At(t, d)) \subseteq Live(h)
  /\ \A e \in Turns(t) : \A d \in 1 .. e - 1 : Trust(h, g, k, s, At(t, d)) \cap Trust(h, g, k, s,
       At(t, e)) = {}
  /\ \A i \in Live(h) : Dropped(h, k, i) \/ \E d \in Turns(t) : i \in Trust(h, g, k, s, At(t, d))
  /\ \A d \in Turns(t) : \A i \in DOMAIN h : Whole(h, g, k, s, At(t, d), i) =>
       \A j \in Over(h, i) : \E e \in 1 .. d : Whole(h, g, k, s, At(t, e), j)

HeapInv == HeapOk(heap)
ListsInv == ListsOk(heap, games, tickets, services)
CallsInv == CallsOk(session, todo, heap, games, tickets, services)
TrustInv == TrustOk(todo, heap, games, tickets, services)

----------------------------------------------------------------------------
(* Sequences of calls *)

\* A sequence in the sense of the model.
LEMMA SequenceIs ==
  ASSUME NEW s, IsSequence(s)
  PROVE  Len(s) \in Nat /\ DOMAIN s = 1 .. Len(s) /\ s \in Seq(Range(s))
         /\ \A i \in DOMAIN s : s[i] \in Range(s)
  BY DEF IsSequence, Range

\* A function on 1 .. n is a sequence of that length.
LEMMA SequenceBy ==
  ASSUME NEW s, NEW n \in Nat, DOMAIN s = 1 .. n, s = [i \in 1 .. n |-> s[i]]
  PROVE  IsSequence(s) /\ Len(s) = n
<1>1. s \in [1 .. n -> Range(s)]
  BY DEF Range
<1>2. s \in Seq(Range(s)) /\ Len(s) = n
  BY <1>1
<1> QED BY <1>2 DEF IsSequence

\* Whatever a sequence is of, it is one of its own elements.
LEMMA SequenceOf ==
  ASSUME NEW S, NEW s \in Seq(S)
  PROVE  IsSequence(s)
<1>1. s \in [1 .. Len(s) -> S] /\ Len(s) \in Nat
  OBVIOUS
<1>2. DOMAIN s = 1 .. Len(s) /\ s = [i \in 1 .. Len(s) |-> s[i]]
  BY <1>1
<1> QED BY <1>1, <1>2, SequenceBy

\* A place of a sequence changed
LEMMA Changed ==
  ASSUME NEW h, IsSequence(h), NEW i \in DOMAIN h, NEW v
  PROVE  LET h1 == [h EXCEPT ![i] = v]
         IN  /\ IsSequence(h1) /\ Len(h1) = Len(h) /\ DOMAIN h1 = DOMAIN h
             /\ h1[i] = v /\ \A j \in DOMAIN h : j # i => h1[j] = h[j]
<1> DEFINE h1 == [h EXCEPT ![i] = v]
<1>1. Len(h) \in Nat /\ DOMAIN h = 1 .. Len(h) /\ DOMAIN h1 = 1 .. Len(h)
  BY SequenceIs
<1>2. h1[i] = v /\ \A j \in DOMAIN h : j # i => h1[j] = h[j]
  BY <1>1
<1>3. h1 = [j \in 1 .. Len(h) |-> h1[j]]
  BY <1>1
<1> HIDE DEF h1
<1>4. IsSequence(h1) /\ Len(h1) = Len(h)
  BY <1>1, <1>3, SequenceBy
<1> QED BY <1>1, <1>2, <1>4 DEF h1

\* An element put behind
LEMMA Behind ==
  ASSUME NEW h, IsSequence(h), NEW o
  PROVE  LET h1 == Append(h, o)
         IN  /\ IsSequence(h1) /\ Len(h1) = Len(h) + 1 /\ DOMAIN h1 = 1 .. Len(h) + 1
             /\ h1[Len(h) + 1] = o /\ \A j \in DOMAIN h : h1[j] = h[j]
             /\ Range(h1) = Range(h) \cup {o}
<1> DEFINE h1 == Append(h, o)
           S == Range(h) \cup {o}
<1>1. Len(h) \in Nat /\ DOMAIN h = 1 .. Len(h) /\ h \in Seq(S)
  <2>1. h \in Seq(Range(h)) /\ Range(h) \subseteq S
    BY DEF IsSequence
  <2>2. h \in Seq(S)
    BY <2>1, SeqMonotonic
  <2> QED BY <2>2, SequenceIs
<1>2. h1 \in Seq(S) /\ Len(h1) = Len(h) + 1 /\ h1[Len(h) + 1] = o
        /\ \A j \in 1 .. Len(h) : h1[j] = h[j]
  BY <1>1
<1> HIDE DEF h1, S
<1>3. IsSequence(h1) /\ DOMAIN h1 = 1 .. Len(h) + 1
  BY <1>1, <1>2, SequenceOf
<1>4. Range(h1) = Range(h) \cup {o}
  BY <1>1, <1>2, <1>3 DEF Range
<1> QED BY <1>1, <1>2, <1>3, <1>4 DEF h1

\* One or two put behind at once
LEMMA BehindTwo ==
  ASSUME NEW h, IsSequence(h), NEW a, NEW b
  PROVE  h \o <<a>> = Append(h, a) /\ h \o <<a, b>> = Append(Append(h, a), b)
<1> DEFINE S == Range(h) \cup {a, b}
<1>1. h \in Seq(Range(h)) /\ Range(h) \subseteq S /\ a \in S /\ b \in S
  BY DEF IsSequence
<1>2. h \in Seq(S)
  BY <1>1, SeqMonotonic
<1> HIDE DEF S
<1>3. h \o <<a>> = Append(h, a)
  BY <1>1, <1>2
<1>4. h \o <<a, b>> = Append(Append(h, a), b)
  BY <1>1, <1>2
<1> QED BY <1>3, <1>4

\* Three elements put behind a sequence, one by one.
LEMMA BehindThree ==
  ASSUME NEW h, IsSequence(h), NEW a, NEW b, NEW c
  PROVE  h \o <<a, b, c>> = Append(Append(Append(h, a), b), c)
<1> DEFINE S == Range(h) \cup {a, b, c}
<1>1. h \in Seq(Range(h)) /\ Range(h) \subseteq S /\ a \in S /\ b \in S /\ c \in S
  BY DEF IsSequence
<1>2. h \in Seq(S)
  BY <1>1, SeqMonotonic
<1> HIDE DEF S
<1> QED BY <1>1, <1>2

\* Two sequences, one behind the other
LEMMA Joining ==
  ASSUME NEW p, NEW q, IsSequence(p), IsSequence(q)
  PROVE  /\ IsSequence(p \o q) /\ Len(p \o q) = Len(p) + Len(q)
         /\ \A i \in 1 .. Len(p) + Len(q) : (p \o q)[i] = IF i <= Len(p) THEN p[i] ELSE q[i - Len(p)]
<1> DEFINE S == Range(p) \cup Range(q)
<1>1. p \in Seq(S) /\ q \in Seq(S)
  <2>1. p \in Seq(Range(p)) /\ q \in Seq(Range(q)) /\ Range(p) \subseteq S /\ Range(q) \subseteq S
    BY DEF IsSequence
  <2> QED BY <2>1, SeqMonotonic
<1> HIDE DEF S
<1>2. p \o q \in Seq(S) /\ Len(p \o q) = Len(p) + Len(q)
      /\ \A i \in 1 .. Len(p) + Len(q) : (p \o q)[i] = IF i <= Len(p) THEN p[i] ELSE q[i - Len(p)]
  BY <1>1, ConcatProperties, Zenon
<1> QED BY <1>2, SequenceOf

\* Small sequences
LEMMA Small ==
  ASSUME NEW a, NEW b, NEW c
  PROVE  /\ IsSequence(<<>>) /\ IsSequence(<<a>>) /\ IsSequence(<<a, b>>) /\ IsSequence(<<a, b, c>>)
         /\ Len(<<>>) = 0 /\ Len(<<a>>) = 1 /\ Len(<<a, b>>) = 2 /\ Len(<<a, b, c>>) = 3
<1>1. <<>> \in Seq({a}) /\ <<a>> \in Seq({a, b, c}) /\ <<a, b>> \in Seq({a, b, c})
        /\ <<a, b, c>> \in Seq({a, b, c})
  OBVIOUS
<1>2. IsSequence(<<>>) /\ IsSequence(<<a>>) /\ IsSequence(<<a, b>>) /\ IsSequence(<<a, b, c>>)
  BY <1>1, SequenceOf
<1> QED BY <1>2

\* R is T with the calls of q for its first.
Puts(T, q, R, n, m) ==
  /\ IsSequence(R) /\ n \in Nat \ {0} /\ m \in Nat /\ Len(R) = n - 1 + m
  /\ At(T, n) = Head(T) /\ Turns(T) = 1 .. n /\ Turns(R) = 1 .. n - 1 + m
  /\ \A d \in 1 .. n - 1 : At(R, d) = At(T, d)
  /\ \A a \in 1 .. m : n + m - a \in n .. n - 1 + m /\ At(R, n + m - a) = q[a]
  /\ \A d \in n .. n - 1 + m : n + m - d \in 1 .. m /\ At(R, d) = q[n + m - d]

\* The calls q in place of the next one are what Puts says.
LEMMA Pushing ==
  ASSUME NEW S, IsSequence(S), S # <<>>, NEW q, IsSequence(q), NEW R, R = q \o Tail(S)
  PROVE  Puts(S, q, R, Len(S), Len(q))
<1>n. PICK n : n = Len(S)
  OBVIOUS
<1>m. PICK m : m = Len(q)
  OBVIOUS
<1> SUFFICES Puts(S, q, R, n, m)
  BY <1>n, <1>m
<1> DEFINE t == Tail(S)
<1>1. n \in Nat \ {0} /\ S \in Seq(Range(S)) /\ m \in Nat
  <2>1. n \in Nat /\ S \in Seq(Range(S)) /\ m \in Nat
    BY <1>n, <1>m, SequenceIs
  <2> QED BY <1>n, <2>1
<1>2. t \in Seq(Range(S)) /\ Len(t) = n - 1 /\ \A i \in 1 .. n - 1 : t[i] = S[i + 1]
  BY <1>n, <1>1
<1>3. IsSequence(t)
  BY <1>2, SequenceOf
<1> HIDE DEF t
<1>4. /\ IsSequence(R) /\ Len(R) = m + (n - 1)
      /\ \A i \in 1 .. m + (n - 1) : R[i] = IF i <= m THEN q[i] ELSE t[i - m]
  BY <1>m, <1>2, <1>3, Joining DEF t
<1>5. Head(S) = S[1]
  BY <1>1
<1>6. ASSUME NEW d \in 1 .. n - 1 PROVE At(R, d) = At(S, d)
  <2>1. At(R, d) = R[m + (n - 1) + 1 - d]
    BY <1>4, <1>n, <1>m DEF At
  <2>2. /\ m + (n - 1) + 1 - d \in 1 .. m + (n - 1) /\ ~(m + (n - 1) + 1 - d <= m)
        /\ m + (n - 1) + 1 - d - m = n - d /\ n - d \in 1 .. n - 1 /\ n - d + 1 = n + 1 - d
    BY <1>1
  <2>3. R[m + (n - 1) + 1 - d] = t[n - d] /\ t[n - d] = S[n + 1 - d]
    <3>1. t[n - d] = S[n - d + 1]
      BY <1>2, <2>2
    <3>2. \A i \in 1 .. m + (n - 1) : ~(i <= m) => R[i] = t[i - m]
      BY <1>4
    <3>3. ASSUME NEW j \in 1 .. m + (n - 1), j = m + (n - 1) + 1 - d
          PROVE  R[j] = t[n - d]
      <4>1. ~(j <= m) /\ j - m = n - d
        BY <1>1, <2>2, <3>3
      <4>2. R[j] = t[j - m]
        BY <3>2, <4>1
      <4> QED BY <4>1, <4>2
    <3> QED BY <2>2, <3>1, <3>3
  <2> QED BY <1>n, <2>1, <2>3 DEF At
<1>7. ASSUME NEW a \in 1 .. m PROVE n + m - a \in n .. n - 1 + m /\ At(R, n + m - a) = q[a]
  <2>1. n + m - a \in n .. n - 1 + m /\ m + (n - 1) + 1 - (n + m - a) = a
          /\ a \in 1 .. m + (n - 1) /\ a <= m
    BY <1>1
  <2>2. At(R, n + m - a) = R[a]
    BY <1>n, <1>4, <2>1 DEF At
  <2> QED BY <1>4, <2>1, <2>2
<1>8. ASSUME NEW d \in n .. n - 1 + m PROVE n + m - d \in 1 .. m /\ At(R, d) = q[n + m - d]
  <2>1. n + m - d \in 1 .. m /\ n + m - (n + m - d) = d
    BY <1>1
  <2> QED BY <1>7, <2>1
<1>9. At(S, n) = Head(S)
  BY <1>1, <1>5, <1>n DEF At
<1>10. Len(R) = n - 1 + m
  BY <1>1, <1>4
<1> QED BY <1>n, <1>m, <1>1, <1>4, <1>6, <1>7, <1>8, <1>9, <1>10 DEF Turns, Puts

----------------------------------------------------------------------------
(* What stays as the heap grows *)

\* What no step changes of an object
Stable(h, h2) ==
  /\ IsSequence(h) /\ IsSequence(h2) /\ DOMAIN h \subseteq DOMAIN h2
  /\ \A i \in DOMAIN h : /\ h2[i].kind = h[i].kind /\ h2[i].base = h[i].base
                         /\ h2[i].dir = h[i].dir /\ h2[i].path = h[i].path

\* The same of a step that puts nothing on the lists of archives and loaders
Steady(h, h2) ==
  /\ Stable(h, h2)
  /\ \A i \in DOMAIN h : /\ h2[i].pfs_list = h[i].pfs_list /\ h2[i].romfs_list = h[i].romfs_list
                         /\ h[i].kind = "loader" => h2[i].parts = h[i].parts

\* The numbers and lists of an object of the heap.
LEMMA ObjectFacts ==
  ASSUME NEW h, HeapOk(h), NEW i \in DOMAIN h
  PROVE  /\ Len(h) \in Nat /\ DOMAIN h = 1 .. Len(h) /\ i \in Nat
         /\ h[i].base \in {None} \cup DOMAIN h /\ h[i].dir \in {None} \cup DOMAIN h
         /\ h[i].base \in Nat /\ h[i].dir \in Nat /\ h[i].base < i /\ h[i].dir < i
         /\ IsSequence(h[i].parts) /\ IsInjective(h[i].parts)
         /\ Range(h[i].parts) \subseteq DOMAIN h
         /\ IsSequence(h[i].pfs_list) /\ IsSequence(h[i].romfs_list)
         /\ Over(h, i) \subseteq DOMAIN h /\ \A j \in Over(h, i) : j < i
<1>1. Len(h) \in Nat /\ DOMAIN h = 1 .. Len(h) /\ IsObject(h, i)
  BY SequenceIs DEF HeapOk
<1>2. h[i].base \in Nat /\ h[i].dir \in Nat /\ h[i].base < i /\ h[i].dir < i /\ i <= Len(h)
        /\ i \in Nat
  BY <1>1 DEF IsObject
<1>3. h[i].base \in {None} \cup DOMAIN h /\ h[i].dir \in {None} \cup DOMAIN h
  BY <1>1, <1>2 DEF None
<1> QED BY <1>1, <1>2, <1>3 DEF IsObject, Over

\* What an archive lies over and what its two lists hold.
LEMMA SectionFacts ==
  ASSUME NEW h, HeapOk(h), NEW n \in DOMAIN h, h[n].kind = "nca"
  PROVE  /\ h[n].base \in DOMAIN h /\ Below(h, n) \in DOMAIN h /\ Below(h, n) <= h[n].base
         /\ h[n].base < n
         /\ \A p \in Items(h, n) :
              /\ p.file \in DOMAIN h /\ p.fs \in DOMAIN h /\ n < p.file /\ p.fs = p.file + 1
              /\ h[p.fs].kind \in {"pfs", "romfs"} /\ h[p.fs].base = p.file /\ h[p.fs].dir = None
              /\ h[p.file].kind \in {"offset", "aes"} /\ h[p.file].base = Below(h, n)
              /\ h[p.file].dir = None
<1>1. IsNca(h, n) /\ IsLayered(h, n)
  BY DEF HeapOk
<1>2. h[n].base \in DOMAIN h /\ h[n].base < n
  BY <1>1, ObjectFacts DEF IsLayered
<1>3. Below(h, n) \in DOMAIN h /\ Below(h, n) <= h[n].base
  <2>1. CASE h[h[n].base].kind = "aes"
    <3>1. IsLayered(h, h[n].base)
      BY <1>2 DEF HeapOk
    <3>2. h[h[n].base].base \in DOMAIN h /\ h[h[n].base].base < h[n].base
      BY <1>2, <2>1, <3>1, ObjectFacts DEF IsLayered
    <3> QED BY <1>2, <2>1, <3>2, ObjectFacts DEF Below
  <2>2. CASE h[h[n].base].kind # "aes"
    BY <1>2, <2>2, ObjectFacts DEF Below
  <2> QED BY <2>1, <2>2
<1>4. ASSUME NEW p \in Items(h, n)
      PROVE  /\ p.file \in DOMAIN h /\ p.fs \in DOMAIN h /\ n < p.file /\ p.fs = p.file + 1
             /\ h[p.fs].kind \in {"pfs", "romfs"} /\ h[p.fs].base = p.file /\ h[p.fs].dir = None
             /\ h[p.file].kind \in {"offset", "aes"} /\ h[p.file].base = Below(h, n)
             /\ h[p.file].dir = None
  <2>1. Len(h) \in Nat /\ DOMAIN h = 1 .. Len(h) /\ n \in Nat
    BY ObjectFacts
  <2>2. ASSUME NEW list, NEW kind \in {"pfs", "romfs"}, IsSectionList(h, n, list, kind),
               p \in Range(list)
        PROVE  <1>4!2
    <3>1. PICK a \in DOMAIN list : list[a] = p
      BY <2>2 DEF Range
    <3>2. /\ p.file \in n + 1 .. Len(h) - 1 /\ p.fs = p.file + 1
          /\ h[p.fs].kind = kind /\ h[p.fs].base = p.file /\ h[p.fs].dir = None
          /\ h[p.file].kind \in {"offset", "aes"} /\ h[p.file].base = Below(h, n)
          /\ h[p.file].dir = None
      BY <2>2, <3>1 DEF IsSectionList
    <3>3. p.file \in DOMAIN h /\ p.fs \in DOMAIN h /\ n < p.file
      BY <2>1, <3>2
    <3> QED BY <3>2, <3>3
  <2>3. CASE p \in Range(h[n].pfs_list)
    BY <1>1, <2>2, <2>3 DEF IsNca
  <2>4. CASE p \in Range(h[n].romfs_list)
    BY <1>1, <2>2, <2>4 DEF IsNca
  <2> QED BY <2>3, <2>4 DEF Items
<1> QED BY <1>2, <1>3, <1>4

\* What is owned is on the heap, and only archives and loaders own.
LEMMA OwnedFacts ==
  ASSUME NEW h, HeapOk(h), NEW o \in DOMAIN h
  PROVE  /\ Owned(h, o) \subseteq DOMAIN h /\ o \notin Owned(h, o)
         /\ h[o].kind \notin {"nca", "loader"} => Owned(h, o) = {}
<1>1. CASE h[o].kind = "nca"
  BY <1>1, SectionFacts, ObjectFacts DEF Owned, SectionObjects
<1>2. CASE h[o].kind = "loader"
  <2>1. \A n \in Range(h[o].parts) : h[n].kind = "nca"
    BY <1>2 DEF HeapOk, IsLoader
  <2>2. Owned(h, o) = ({h[o].dir, h[o].base} \ {None}) \cup Range(h[o].parts)
    BY <1>2 DEF Owned
  <2> QED BY <1>2, <2>1, <2>2, ObjectFacts
<1>3. CASE h[o].kind \notin {"nca", "loader"}
  BY <1>3 DEF Owned
<1> QED BY <1>1, <1>2, <1>3

\* Nothing that lies over others changes.
LEMMA StableFacts ==
  ASSUME NEW h, HeapOk(h), NEW h2, Stable(h, h2), NEW i \in DOMAIN h
  PROVE  /\ i \in DOMAIN h2 /\ Over(h2, i) = Over(h, i) /\ IsLayered(h2, i)
         /\ h[i].kind = "nca" => Below(h2, i) = Below(h, i)
<1>1. Over(h2, i) = Over(h, i) /\ i \in DOMAIN h2
  BY DEF Over, Stable
<1>2. IsLayered(h2, i)
  <2>1. IsLayered(h, i)
    BY DEF HeapOk
  <2>2. h[i].base \in {None} \cup DOMAIN h /\ h[i].dir \in {None} \cup DOMAIN h
    BY ObjectFacts
  <2>3. /\ h2[i].kind = h[i].kind /\ h2[i].base = h[i].base /\ h2[i].dir = h[i].dir
        /\ h[i].base # None => h2[h[i].base].kind = h[h[i].base].kind
        /\ h[i].dir # None => h2[h[i].dir].kind = h[h[i].dir].kind
    BY <2>2 DEF Stable
  <2> QED BY <2>1, <2>3 DEF IsLayered
<1>3. h[i].kind = "nca" => Below(h2, i) = Below(h, i)
  BY SectionFacts DEF Below, Stable
<1> QED BY <1>1, <1>2, <1>3

\* The lists of an archive stay right while the heap is stable.
LEMMA SectionListStays ==
  ASSUME NEW h, HeapOk(h), NEW h2, Stable(h, h2), NEW n \in DOMAIN h, h[n].kind = "nca",
         NEW list, NEW kind, IsSectionList(h, n, list, kind)
  PROVE  IsSectionList(h2, n, list, kind)
<1>1. Len(h) \in Nat /\ DOMAIN h = 1 .. Len(h) /\ Len(h2) \in Nat /\ DOMAIN h2 = 1 .. Len(h2)
        /\ n \in Nat
  BY SequenceIs DEF Stable
<1>2. Len(h) <= Len(h2)
  BY <1>1 DEF Stable
<1>3. Below(h2, n) = Below(h, n)
  BY StableFacts
<1>4. ASSUME NEW a \in DOMAIN list
      PROVE  LET p == list[a] IN
             /\ p.file \in n + 1 .. Len(h2) - 1 /\ p.fs = p.file + 1
             /\ h2[p.fs].kind = kind /\ h2[p.fs].base = p.file /\ h2[p.fs].dir = None
             /\ h2[p.file].kind \in {"offset", "aes"} /\ h2[p.file].base = Below(h2, n)
             /\ h2[p.file].dir = None
  <2> DEFINE p == list[a]
  <2>1. /\ p.file \in n + 1 .. Len(h) - 1 /\ p.fs = p.file + 1
        /\ h[p.fs].kind = kind /\ h[p.fs].base = p.file /\ h[p.fs].dir = None
        /\ h[p.file].kind \in {"offset", "aes"} /\ h[p.file].base = Below(h, n)
        /\ h[p.file].dir = None
    BY DEF IsSectionList
  <2>2. p.file \in DOMAIN h /\ p.fs \in DOMAIN h /\ p.file \in n + 1 .. Len(h2) - 1
    BY <1>1, <1>2, <2>1
  <2> QED BY <1>3, <2>1, <2>2 DEF Stable
<1> QED BY <1>4 DEF IsSectionList

\* While lists are steady, what is owned is the same.
LEMMA SteadyFacts ==
  ASSUME NEW h, HeapOk(h), NEW h2, Steady(h, h2), NEW i \in DOMAIN h
  PROVE  /\ Owned(h2, i) = Owned(h, i) /\ Items(h2, i) = Items(h, i)
         /\ Archive(h2, i) = Archive(h, i)
         /\ h[i].kind = "loader" => Package(h2, i) = Package(h, i)
         /\ IsLoader(h2, i) /\ IsNca(h2, i)
<1>1. Stable(h, h2)
  BY DEF Steady
<1>2. ASSUME NEW j \in DOMAIN h PROVE Owned(h2, j) = Owned(h, j) /\ Items(h2, j) = Items(h, j)
  <2>1. /\ h2[j].kind = h[j].kind /\ h2[j].base = h[j].base /\ h2[j].dir = h[j].dir
        /\ h2[j].pfs_list = h[j].pfs_list /\ h2[j].romfs_list = h[j].romfs_list
        /\ h[j].kind = "loader" => h2[j].parts = h[j].parts
        /\ h[j].kind = "nca" => Below(h2, j) = Below(h, j)
    BY <1>1, StableFacts DEF Steady, Stable
  <2>2. Items(h2, j) = Items(h, j)
    BY <2>1 DEF Items
  <2>3. SectionObjects(h2, j) = SectionObjects(h, j)
    BY <2>2 DEF SectionObjects
  <2> QED BY <2>1, <2>2, <2>3 DEF Owned
<1>3. Archive(h2, i) = Archive(h, i)
  BY <1>2 DEF Archive
<1>4. h[i].kind = "loader" => Package(h2, i) = Package(h, i)
  <2>1. SUFFICES ASSUME h[i].kind = "loader" PROVE Package(h2, i) = Package(h, i)
    OBVIOUS
  <2>2. h2[i].parts = h[i].parts /\ Range(h[i].parts) \subseteq DOMAIN h
    BY <2>1, ObjectFacts DEF Steady
  <2> QED BY <1>2, <2>2 DEF Package
<1>5. IsLoader(h2, i)
  <2>1. SUFFICES ASSUME h[i].kind = "loader" PROVE IsLoader(h2, i)
    BY <1>1 DEF IsLoader, Stable
  <2>2. IsLoader(h, i) /\ h2[i].parts = h[i].parts /\ Range(h[i].parts) \subseteq DOMAIN h
    BY <2>1, ObjectFacts DEF HeapOk, Steady
  <2>3. h[i].base \in {None} \cup DOMAIN h /\ h[i].dir \in {None} \cup DOMAIN h
    BY ObjectFacts
  <2> QED BY <1>1, <2>1, <2>2, <2>3 DEF IsLoader, Stable
<1>6. IsNca(h2, i)
  <2>1. SUFFICES ASSUME h[i].kind = "nca" PROVE IsNca(h2, i)
    BY <1>1 DEF IsNca, Stable
  <2>2. /\ IsNca(h, i) /\ Below(h2, i) = Below(h, i) /\ Below(h, i) \in DOMAIN h
        /\ h[i].base \in DOMAIN h
    BY <1>1, <2>1, StableFacts, SectionFacts DEF HeapOk
  <2>3. h[i].dir \in {None} \cup DOMAIN h
    BY ObjectFacts
  <2>4. IsSectionList(h2, i, h2[i].pfs_list, "pfs")
          /\ IsSectionList(h2, i, h2[i].romfs_list, "romfs")
    BY <1>1, <2>1, <2>2, SectionListStays DEF IsNca, Steady
  <2>5. /\ h2[i].kind = h[i].kind /\ h2[i].base = h[i].base /\ h2[i].dir = h[i].dir
        /\ h2[h[i].base].kind = h[h[i].base].kind /\ h2[h[i].base].dir = h[h[i].base].dir
        /\ h2[Below(h, i)].kind = h[Below(h, i)].kind /\ h2[Below(h, i)].base = h[Below(h, i)].base
        /\ h2[Below(h, i)].dir = h[Below(h, i)].dir
        /\ h[i].dir # None => h2[h[i].dir].kind = h[h[i].dir].kind
             /\ h2[h[i].dir].base = h[h[i].dir].base
    BY <1>1, <2>2, <2>3 DEF Stable
  <2> QED BY <2>1, <2>2, <2>4, <2>5 DEF IsNca
<1> QED BY <1>2, <1>3, <1>4, <1>5, <1>6

\* An archive and what it owns are on the heap.
LEMMA ArchiveFacts ==
  ASSUME NEW h, HeapOk(h), NEW n \in DOMAIN h
  PROVE  Archive(h, n) \subseteq DOMAIN h /\ n \in Archive(h, n)
  BY OwnedFacts DEF Archive

\* The ground of a package stays what it was ...
LEMMA GroundStays ==
  ASSUME NEW h, HeapOk(h), NEW h2, Stable(h, h2), NEW l \in DOMAIN h, h[l].kind = "loader"
  PROVE  Ground(h2, l) = Ground(h, l)
<1>1. IsLoader(h, l) /\ h[l].dir \in {None} \cup DOMAIN h
  BY ObjectFacts DEF HeapOk
<1>2. h[l].dir \in DOMAIN h
  BY <1>1 DEF IsLoader
<1> QED BY <1>2 DEF Ground, Stable

\* ... and what stood on it still does ...
LEMMA GroundedStays ==
  ASSUME NEW h, HeapOk(h), NEW h2, Stable(h, h2), NEW l \in DOMAIN h, h[l].kind = "loader",
         NEW n \in DOMAIN h, Archive(h2, n) = Archive(h, n), Grounded(h, l, n)
  PROVE  Grounded(h2, l, n)
<1>1. Ground(h2, l) = Ground(h, l)
  BY GroundStays
<1>2. Archive(h, n) \subseteq DOMAIN h
  BY ArchiveFacts
<1>3. \A i \in Archive(h, n) : Over(h2, i) = Over(h, i)
  BY <1>2, StableFacts
<1> QED BY <1>1, <1>3 DEF Grounded

\* ... so that every package stays grounded.
LEMMA SteadyGrounded ==
  ASSUME NEW h, HeapOk(h), NEW h2, Steady(h, h2), NEW i \in DOMAIN h
  PROVE  IsGrounded(h2, i)
<1>1. Stable(h, h2)
  BY DEF Steady
<1>2. SUFFICES ASSUME h[i].kind = "loader", NEW n \in Range(h2[i].parts) PROVE Grounded(h2, i, n)
  BY <1>1 DEF IsGrounded, Stable
<1>3. h2[i].parts = h[i].parts /\ IsGrounded(h, i) /\ Range(h[i].parts) \subseteq DOMAIN h
  BY <1>2, ObjectFacts DEF HeapOk, Steady
<1>4. n \in DOMAIN h /\ Grounded(h, i, n)
  BY <1>2, <1>3 DEF IsGrounded
<1>5. Archive(h2, n) = Archive(h, n)
  BY <1>4, SteadyFacts
<1> QED BY <1>1, <1>2, <1>4, <1>5, GroundedStays

\* A heap in which the old objects own what they did
LEMMA HeapBy ==
  ASSUME NEW h, HeapOk(h), NEW h2, Steady(h, h2),
         \A i \in DOMAIN h2 : IsObject(h2, i) /\ HoldsFiles(h2, i),
         \A i \in DOMAIN h2 \ DOMAIN h : IsLayered(h2, i) /\ IsLoader(h2, i) /\ IsNca(h2, i)
           /\ IsGrounded(h2, i),
         \A o \in DOMAIN h2 : \A p \in DOMAIN h2 \ DOMAIN h : o # p
           => Owned(h2, o) \cap Owned(h2, p) = {}
  PROVE  HeapOk(h2)
<1>1. Stable(h, h2) /\ IsSequence(h2)
  BY DEF Steady, Stable
<1>2. \A i \in DOMAIN h2 : IsLayered(h2, i) /\ IsLoader(h2, i) /\ IsNca(h2, i) /\ IsGrounded(h2, i)
  BY <1>1, StableFacts, SteadyFacts, SteadyGrounded
<1>3. ASSUME NEW o \in DOMAIN h2, NEW p \in DOMAIN h2, o # p
      PROVE Owned(h2, o) \cap Owned(h2, p) = {}
  <2>1. CASE o \in DOMAIN h /\ p \in DOMAIN h
    <3>1. Owned(h2, o) = Owned(h, o) /\ Owned(h2, p) = Owned(h, p)
      BY <2>1, SteadyFacts
    <3>2. Owned(h, o) \cap Owned(h, p) = {}
      BY <1>3, <2>1 DEF HeapOk, OwnedOnce
    <3> QED BY <3>1, <3>2
  <2>2. CASE p \notin DOMAIN h
    BY <1>3, <2>2
  <2>3. CASE o \notin DOMAIN h
    BY <1>3, <2>3
  <2> QED BY <2>1, <2>2, <2>3
<1> QED BY <1>1, <1>2, <1>3 DEF HeapOk, OwnedOnce

\* What a new object must be
IsNew(h, o) ==
  /\ o = [kind |-> o.kind, base |-> o.base, dir |-> o.dir, parts |-> <<>>,
          pfs_list |-> <<>>, romfs_list |-> <<>>, path |-> o.path, live |-> TRUE]
  /\ o.base \in {None} \cup DOMAIN h /\ o.dir \in {None} \cup DOMAIN h

\* The empty sequence.
LEMMA Nothing == Range(<<>>) = {} /\ IsSequence(<<>>) /\ IsInjective(<<>>)
<1>1. DOMAIN <<>> = {}
  OBVIOUS
<1> QED BY <1>1, Small DEF Range, IsInjective

\* A new object at the end of the heap leaves all others as they were.
LEMMA NewObject ==
  ASSUME NEW h, HeapOk(h), NEW o, IsNew(h, o)
  PROVE  LET h2 == Append(h, o)  n == Len(h) + 1 IN
         /\ DOMAIN h2 = DOMAIN h \cup {n} /\ Len(h2) = n /\ n \notin DOMAIN h /\ n \in Nat
         /\ h2[n] = o /\ \A i \in DOMAIN h : h2[i] = h[i]
         /\ Steady(h, h2) /\ Live(h2) = Live(h) \cup {n}
         /\ IsLayered(h2, n) /\ IsLoader(h2, n) /\ IsNca(h2, n)
              /\ (\A i \in Owned(h2, n) : Unowned(h, i))
              => HeapOk(h2)
<1> DEFINE h2 == Append(h, o)
           n == Len(h) + 1
<1>1. IsSequence(h) /\ Len(h) \in Nat /\ DOMAIN h = 1 .. Len(h)
  BY SequenceIs DEF HeapOk
<1>2. /\ IsSequence(h2) /\ Len(h2) = n /\ DOMAIN h2 = 1 .. Len(h) + 1
      /\ h2[n] = o /\ \A i \in DOMAIN h : h2[i] = h[i]
  BY <1>1, Behind
<1> HIDE DEF h2
<1>3. n \in Nat /\ DOMAIN h2 = DOMAIN h \cup {n} /\ n \notin DOMAIN h
  BY <1>1, <1>2
<1>4. Steady(h, h2)
  BY <1>1, <1>2, <1>3 DEF Steady, Stable
<1>5. Live(h2) = Live(h) \cup {n}
  <2>1. o.live = TRUE
    BY DEF IsNew
  <2> QED BY <1>2, <1>3, <2>1 DEF Live
<1>6. ASSUME IsLayered(h2, n), IsLoader(h2, n), IsNca(h2, n), \A i \in Owned(h2, n) : Unowned(h, i)
      PROVE  HeapOk(h2)
  <2>1. /\ o.kind = h2[n].kind /\ o.parts = <<>> /\ o.pfs_list = <<>> /\ o.romfs_list = <<>>
        /\ o.live = TRUE
    BY <1>2 DEF IsNew
  <2>2. ASSUME NEW i \in DOMAIN h2 PROVE IsObject(h2, i)
    <3>1. CASE i = n
      <4>1. o.base \in 0 .. n - 1 /\ o.dir \in 0 .. n - 1
        BY <1>1 DEF IsNew, None
      <4> QED BY <1>2, <1>3, <3>1, <4>1, <2>1, Nothing DEF IsObject, IsNew
    <3>2. CASE i \in DOMAIN h
      BY <1>2, <1>3, <3>2 DEF HeapOk, IsObject
    <3> QED BY <1>3, <3>1, <3>2
  <2>3. ASSUME NEW i \in DOMAIN h2 PROVE HoldsFiles(h2, i)
    <3>1. CASE i = n
      BY <1>2, <3>1, <2>1, Nothing DEF HoldsFiles
    <3>2. CASE i \in DOMAIN h
      <4>1. HoldsFiles(h, i) /\ Range(h[i].parts) \subseteq DOMAIN h
        BY <3>2, ObjectFacts DEF HeapOk
      <4> QED BY <1>2, <3>2, <4>1 DEF HoldsFiles
    <3> QED BY <1>3, <3>1, <3>2
  <2>4. IsGrounded(h2, n)
    BY <1>2, <2>1, Nothing DEF IsGrounded
  <2>5. ASSUME NEW p \in DOMAIN h PROVE Owned(h2, p) \cap Owned(h2, n) = {}
    <3>1. Owned(h2, p) = Owned(h, p)
      BY <1>4, SteadyFacts
    <3> QED BY <1>6, <3>1 DEF Unowned
  <2>6. \A i \in DOMAIN h2 \ DOMAIN h : i = n
    BY <1>3
  <2>7. \A i \in DOMAIN h2 \ DOMAIN h : IsLayered(h2, i) /\ IsLoader(h2, i) /\ IsNca(h2, i)
          /\ IsGrounded(h2, i)
    BY <2>6, <2>4, <1>6
  <2>8. \A p \in DOMAIN h2 : \A i \in DOMAIN h2 \ DOMAIN h : p # i
          => Owned(h2, p) \cap Owned(h2, i) = {}
    BY <2>6, <2>5, <1>3
  <2> QED BY <1>4, <2>2, <2>3, <2>7, <2>8, HeapBy
<1> QED BY <1>2, <1>3, <1>4, <1>5, <1>6 DEF h2

----------------------------------------------------------------------------
(* What steps do to the heap *)

\* An object of the heap with another one in its place
LEMMA Replaced ==
  ASSUME NEW h, HeapOk(h), NEW h2, DOMAIN h2 = DOMAIN h, h2 = [i \in DOMAIN h |-> h2[i]]
  PROVE  IsSequence(h2) /\ Len(h2) = Len(h)
<1>1. IsSequence(h)
  BY DEF HeapOk
<1>2. Len(h) \in Nat /\ DOMAIN h = 1 .. Len(h)
  BY <1>1, SequenceIs
<1> QED BY <1>2, SequenceBy

\* Objects are closed: none that is in the list of a directory.
Closes(h, h2, x) ==
  /\ HeapOk(h) /\ x \in DOMAIN h /\ h2 = [h EXCEPT ![x].live = FALSE]
  /\ \A i \in DOMAIN h : h[i].kind \in {"hostdir", "romfs"} => x \notin Range(h[i].parts)

\* What follows from it.
Closed(h, h2, x) ==
  /\ HeapOk(h2) /\ Steady(h, h2) /\ DOMAIN h2 = DOMAIN h /\ Len(h2) = Len(h)
  /\ \A i \in DOMAIN h : h2[i].parts = h[i].parts
  /\ Live(h2) = Live(h) \ {x}

\* Closing an object leaves the heap sound and only that one dead.
LEMMA Closing ==
  ASSUME NEW h, NEW h2, NEW x, Closes(h, h2, x)
  PROVE  Closed(h, h2, x)
<1> SUFFICES
  ASSUME HeapOk(h), x \in DOMAIN h, h2 = [h EXCEPT ![x].live = FALSE],
         \A i \in DOMAIN h : h[i].kind \in {"hostdir", "romfs"} => x \notin Range(h[i].parts)
  PROVE  /\ HeapOk(h2) /\ Steady(h, h2) /\ DOMAIN h2 = DOMAIN h /\ Len(h2) = Len(h)
         /\ \A i \in DOMAIN h : h2[i].parts = h[i].parts
         /\ Live(h2) = Live(h) \ {x}
  BY DEF Closes, Closed
<1>1. IsObject(h, x)
  BY DEF HeapOk
<1>2. /\ IsSequence(h2) /\ DOMAIN h2 = DOMAIN h /\ Len(h2) = Len(h)
      /\ h2[x] = [h[x] EXCEPT !.live = FALSE]
      /\ \A i \in DOMAIN h : i # x => h2[i] = h[i]
  <2>1. /\ DOMAIN h2 = DOMAIN h /\ h2[x] = [h[x] EXCEPT !.live = FALSE]
        /\ \A i \in DOMAIN h : i # x => h2[i] = h[i]
        /\ h2 = [i \in DOMAIN h |-> h2[i]]
    OBVIOUS
  <2>2. IsSequence(h2) /\ Len(h2) = Len(h)
    BY ONLY HeapOk(h), <2>1, Replaced
  <2> QED BY <2>1, <2>2
<1>3. /\ h2[x] = [kind |-> h[x].kind, base |-> h[x].base, dir |-> h[x].dir, parts |-> h[x].parts,
                  pfs_list |-> h[x].pfs_list, romfs_list |-> h[x].romfs_list, path |-> h[x].path,
                  live |-> FALSE]
  BY <1>1, <1>2 DEF IsObject
<1>4. \A i \in DOMAIN h :
        /\ h2[i].kind = h[i].kind /\ h2[i].base = h[i].base /\ h2[i].dir = h[i].dir
        /\ h2[i].path = h[i].path
        /\ h2[i].parts = h[i].parts /\ h2[i].pfs_list = h[i].pfs_list
        /\ h2[i].romfs_list = h[i].romfs_list
  <2>1. ASSUME NEW i \in DOMAIN h, i # x PROVE h2[i] = h[i]
    BY <1>2, <2>1
  <2> QED BY <1>3, <2>1
<1>5. Steady(h, h2)
  BY <1>2, <1>4 DEF Steady, Stable, HeapOk
<1>6. Live(h2) = Live(h) \ {x}
  <2>1. h2[x].live = FALSE
    BY <1>3
  <2> QED BY <1>2, <2>1 DEF Live
<1>7. ASSUME NEW i \in DOMAIN h PROVE IsObject(h2, i)
  <2>1. IsObject(h, i)
    BY DEF HeapOk
  <2>2. CASE i = x
    BY <1>2, <1>3, <2>1, <2>2 DEF IsObject
  <2>3. CASE i # x
    BY <1>2, <2>1, <2>3 DEF IsObject
  <2> QED BY <2>2, <2>3
<1>8. ASSUME NEW i \in DOMAIN h PROVE HoldsFiles(h2, i)
  <2>1. SUFFICES ASSUME h[i].kind \in {"hostdir", "romfs"}, NEW j \in Range(h[i].parts)
                 PROVE  /\ h2[j].dir = i /\ h2[j].live
                        /\ h2[j].kind \in IF h2[i].kind = "hostdir" THEN {"host"} ELSE {"offset",
                             "mem"}
    BY <1>4 DEF HoldsFiles
  <2>2. j # x /\ j \in DOMAIN h /\ HoldsFiles(h, i)
    BY <2>1, ObjectFacts DEF HeapOk
  <2>3. h2[j] = h[j] /\ h2[i].kind = h[i].kind
    BY <1>2, <1>4, <2>2
  <2> QED BY <2>1, <2>2, <2>3 DEF HoldsFiles
<1>9. HeapOk(h2)
  BY <1>2, <1>5, <1>7, <1>8, HeapBy
<1> QED BY <1>2, <1>4, <1>5, <1>6, <1>9

\* The list of a directory changes.
Lists(h, h2, x, s) ==
  /\ HeapOk(h) /\ x \in DOMAIN h /\ h[x].kind # "loader" /\ h2 = [h EXCEPT ![x].parts = s]
  /\ IsSequence(s) /\ IsInjective(s) /\ Range(s) \subseteq DOMAIN h
  /\ h[x].kind \in {"hostdir", "romfs"} =>
       \A j \in Range(s) :
         /\ h[j].dir = x /\ h[j].live
         /\ h[j].kind \in IF h[x].kind = "hostdir" THEN {"host"} ELSE {"offset", "mem"}

\* What follows from it.
Listed(h, h2, x, s) ==
  /\ HeapOk(h2) /\ Steady(h, h2) /\ DOMAIN h2 = DOMAIN h /\ Len(h2) = Len(h)
  /\ h2[x].parts = s /\ \A i \in DOMAIN h : i # x => h2[i].parts = h[i].parts
  /\ \A i \in DOMAIN h : h2[i].live = h[i].live
  /\ Live(h2) = Live(h)

\* A shorter list of files leaves the heap sound.
LEMMA Listing ==
  ASSUME NEW h, NEW h2, NEW x, NEW s, Lists(h, h2, x, s)
  PROVE  Listed(h, h2, x, s)
<1> SUFFICES
  ASSUME HeapOk(h), x \in DOMAIN h, h[x].kind # "loader",
         IsSequence(s), IsInjective(s), Range(s) \subseteq DOMAIN h,
         h2 = [h EXCEPT ![x].parts = s],
         h[x].kind \in {"hostdir", "romfs"} =>
           \A j \in Range(s) :
             /\ h[j].dir = x /\ h[j].live
             /\ h[j].kind \in IF h[x].kind = "hostdir" THEN {"host"} ELSE {"offset", "mem"}
  PROVE  /\ HeapOk(h2) /\ Steady(h, h2) /\ DOMAIN h2 = DOMAIN h /\ Len(h2) = Len(h)
         /\ h2[x].parts = s /\ \A i \in DOMAIN h : i # x => h2[i].parts = h[i].parts
         /\ \A i \in DOMAIN h : h2[i].live = h[i].live
         /\ Live(h2) = Live(h)
  BY Zenon DEF Lists, Listed
<1>1. IsObject(h, x)
  BY DEF HeapOk
<1>2. /\ IsSequence(h2) /\ DOMAIN h2 = DOMAIN h /\ Len(h2) = Len(h)
      /\ h2[x] = [h[x] EXCEPT !.parts = s]
      /\ \A i \in DOMAIN h : i # x => h2[i] = h[i]
  <2>1. /\ DOMAIN h2 = DOMAIN h /\ h2[x] = [h[x] EXCEPT !.parts = s]
        /\ \A i \in DOMAIN h : i # x => h2[i] = h[i]
        /\ h2 = [i \in DOMAIN h |-> h2[i]]
    OBVIOUS
  <2>2. IsSequence(h2) /\ Len(h2) = Len(h)
    BY ONLY HeapOk(h), <2>1, Replaced
  <2> QED BY <2>1, <2>2
<1>3. /\ h2[x] = [kind |-> h[x].kind, base |-> h[x].base, dir |-> h[x].dir, parts |-> s,
                  pfs_list |-> h[x].pfs_list, romfs_list |-> h[x].romfs_list, path |-> h[x].path,
                  live |-> h[x].live]
  BY <1>1, <1>2 DEF IsObject
<1>4. \A i \in DOMAIN h :
        /\ h2[i].kind = h[i].kind /\ h2[i].base = h[i].base /\ h2[i].dir = h[i].dir
        /\ h2[i].path = h[i].path
        /\ h2[i].pfs_list = h[i].pfs_list /\ h2[i].romfs_list = h[i].romfs_list
        /\ h2[i].live = h[i].live
  <2>1. ASSUME NEW i \in DOMAIN h, i # x PROVE h2[i] = h[i]
    BY <1>2, <2>1
  <2> QED BY <1>3, <2>1
<1>5. Steady(h, h2)
  BY <1>2, <1>4 DEF Steady, Stable, HeapOk
<1>6. Live(h2) = Live(h)
  BY <1>2, <1>4 DEF Live
<1>7. ASSUME NEW i \in DOMAIN h PROVE IsObject(h2, i)
  <2>1. IsObject(h, i)
    BY DEF HeapOk
  <2>2. CASE i = x
    BY <1>2, <1>3, <2>1, <2>2 DEF IsObject
  <2>3. CASE i # x
    BY <1>2, <2>1, <2>3 DEF IsObject
  <2> QED BY <2>2, <2>3
<1>8. ASSUME NEW i \in DOMAIN h PROVE HoldsFiles(h2, i)
  <2>1. SUFFICES ASSUME h[i].kind \in {"hostdir", "romfs"}, NEW j \in Range(h2[i].parts)
                 PROVE  /\ h2[j].dir = i /\ h2[j].live
                        /\ h2[j].kind \in IF h2[i].kind = "hostdir" THEN {"host"} ELSE {"offset",
                             "mem"}
    BY <1>4 DEF HoldsFiles
  <2>2. j \in DOMAIN h /\ h[j].dir = i /\ h[j].live
        /\ h[j].kind \in IF h[i].kind = "hostdir" THEN {"host"} ELSE {"offset", "mem"}
    <3>1. CASE i = x
      BY <1>3, <2>1, <3>1
    <3>2. CASE i # x
      <4>1. h2[i].parts = h[i].parts /\ HoldsFiles(h, i)
        BY <1>2, <3>2 DEF HeapOk
      <4> QED BY <2>1, <4>1, ObjectFacts DEF HoldsFiles
    <3> QED BY <3>1, <3>2
  <2> QED BY <1>4, <2>2
<1>9. HeapOk(h2)
  BY <1>2, <1>5, <1>7, <1>8, HeapBy
<1> QED BY <1>2, <1>3, <1>4, <1>5, <1>6, <1>9

\* RemoveAt of SequencesExt, element by element.
LEMMA RemovedAt ==
  ASSUME NEW S, NEW s \in Seq(S), NEW i \in 1 .. Len(s)
  PROVE  RemoveAt(s, i) = [j \in 1 .. Len(s) - 1 |-> IF j < i THEN s[j] ELSE s[j + 1]]
<1> DEFINE a == SubSeq(s, 1, i - 1)
           b == SubSeq(s, i + 1, Len(s))
           t == a \o b
           u == [j \in 1 .. Len(s) - 1 |-> IF j < i THEN s[j] ELSE s[j + 1]]
<1>1. Len(s) \in Nat /\ i \in 1 .. Len(s) /\ DOMAIN s = 1 .. Len(s)
        /\ \A j \in 1 .. Len(s) : s[j] \in S
  OBVIOUS
<1>2. a \in Seq(S) /\ Len(a) = i - 1 /\ \A j \in 1 .. i - 1 : a[j] = s[j]
  BY <1>1, SubSeqProperties
<1>3. b \in Seq(S) /\ Len(b) = Len(s) - i /\ \A j \in 1 .. Len(s) - i : b[j] = s[i + j]
  <2>1. \A j \in i + 1 .. Len(s) : s[j] \in S
    BY <1>1
  <2>2. /\ SubSeq(s, i + 1, Len(s)) \in Seq(S)
        /\ Len(SubSeq(s, i + 1, Len(s))) = IF i + 1 <= Len(s) THEN Len(s) - (i + 1) + 1 ELSE 0
        /\ \A j \in 1 .. Len(s) - (i + 1) + 1 : SubSeq(s, i + 1, Len(s))[j] = s[i + 1 + j - 1]
    BY <1>1, <2>1, SubSeqProperties
  <2>3. \A j \in 1 .. Len(s) - i : j \in 1 .. Len(s) - (i + 1) + 1 /\ i + 1 + j - 1 = i + j
    <3>1. Len(s) \in Nat /\ i \in Nat
      BY <1>1
    <3> HIDE DEF a, b, t, u
    <3> QED BY <3>1
  <2>4. Len(b) = Len(s) - i
    <3>1. Len(b) = IF i + 1 <= Len(s) THEN Len(s) - (i + 1) + 1 ELSE 0
      BY <2>2, Zenon
    <3>2. Len(s) \in Nat /\ i \in 1 .. Len(s)
      BY <1>1
    <3> HIDE DEF a, b, t, u
    <3> QED BY <3>1, <3>2
  <2> QED BY <2>2, <2>3, <2>4
<1> HIDE DEF a, b
<1>4. t \in Seq(S) /\ Len(t) = Len(s) - 1
  <2>1. t \in Seq(S) /\ Len(t) = Len(a) + Len(b)
    BY <1>2, <1>3, ConcatProperties, Zenon
  <2> HIDE DEF t
  <2> QED BY <1>1, <1>2, <1>3, <2>1
<1>5. u \in Seq(S) /\ Len(u) = Len(s) - 1
  BY <1>1
<1>6. \A j \in 1 .. Len(t) : t[j] = u[j]
  <2> TAKE j \in 1 .. Len(t)
  <2>1. t[j] = IF j <= i - 1 THEN a[j] ELSE b[j - (i - 1)]
    <3>1. \A k \in 1 .. Len(a) + Len(b) : t[k] = IF k <= Len(a) THEN a[k] ELSE b[k - Len(a)]
      BY <1>2, <1>3, ConcatProperties, Zenon
    <3>2. j \in 1 .. Len(a) + Len(b)
      BY <1>1, <1>2, <1>3, <1>4
    <3> QED BY <1>2, <3>1, <3>2, Zenon
  <2>2. j \in 1 .. Len(s) - 1
    BY <1>4
  <2>3. u[j] = IF j < i THEN s[j] ELSE s[j + 1]
    BY <2>2
  <2> HIDE DEF u, t
  <2>4. CASE j < i
    BY <1>1, <1>2, <2>1, <2>3, <2>4
  <2>5. CASE ~(j < i)
    <3>1. j - (i - 1) \in 1 .. Len(s) - i /\ i + (j - (i - 1)) = j + 1 /\ ~(j <= i - 1)
      BY <1>1, <2>2, <2>5
    <3> QED BY <1>3, <2>1, <2>3, <2>5, <3>1
  <2> QED BY <2>4, <2>5
<1> HIDE DEF u, t
<1>7. t = u
  BY <1>4, <1>5, <1>6, SeqEqual
<1> QED BY <1>7, Zenon DEF RemoveAt, t, a, b, u

\* A list from which one element is taken has the others.
LEMMA TakenOut ==
  ASSUME NEW S, NEW s \in Seq(S), IsInjective(s), NEW i \in DOMAIN s
  PROVE  LET t == RemoveAt(s, i)
         IN  t \in Seq(S) /\ IsInjective(t) /\ Len(t) = Len(s) - 1 /\ Range(t) = Range(s) \ {s[i]}
<1> DEFINE t == RemoveAt(s, i)
           rest == [j \in 1 .. Len(s) - 1 |-> IF j < i THEN s[j] ELSE s[j + 1]]
<1>1. Len(s) \in Nat /\ i \in 1 .. Len(s) /\ DOMAIN s = 1 .. Len(s)
        /\ \A j \in 1 .. Len(s) : s[j] \in S
  OBVIOUS
<1>2. t = rest
  BY <1>1, RemovedAt, Zenon
<1> HIDE DEF t
<1>4. t \in Seq(S) /\ Len(t) = Len(s) - 1
  <2>1. rest \in [1 .. Len(s) - 1 -> S] /\ Len(s) - 1 \in Nat
    BY <1>1
  <2> HIDE DEF rest
  <2> QED BY <1>2, <2>1
<1>5. \A j \in 1 .. Len(t) : t[j] = s[IF j < i THEN j ELSE j + 1]
  BY <1>2, <1>4
<1> HIDE DEF rest
<1>6. DOMAIN t = 1 .. Len(s) - 1
  BY <1>4
<1>7. IsInjective(t)
  <2> SUFFICES ASSUME NEW j \in 1 .. Len(t), NEW k \in 1 .. Len(t), t[j] = t[k] PROVE j = k
    BY <1>4, <1>6, Zenon DEF IsInjective
  <2> DEFINE u == IF j < i THEN j ELSE j + 1
             v == IF k < i THEN k ELSE k + 1
  <2>1. u \in 1 .. Len(s) /\ v \in 1 .. Len(s)
    BY <1>1, <1>4
  <2>2. s[u] = s[v]
    BY <1>5
  <2>3. u = v
    BY <1>1, <2>1, <2>2 DEF IsInjective
  <2> QED BY <1>1, <1>4, <2>3
<1>8. Range(t) = Range(s) \ {s[i]}
  <2>1. ASSUME NEW j \in 1 .. Len(t) PROVE t[j] \in Range(s) \ {s[i]}
    <3> DEFINE u == IF j < i THEN j ELSE j + 1
    <3>1. u \in 1 .. Len(s) /\ u # i
      BY <1>1, <1>4
    <3>2. t[j] = s[u]
      BY <1>5
    <3> HIDE DEF u
    <3>3. s[u] # s[i]
      BY <1>1, <3>1 DEF IsInjective
    <3> QED BY <1>1, <3>1, <3>2, <3>3 DEF Range
  <2>2. ASSUME NEW k \in 1 .. Len(s), k # i PROVE s[k] \in Range(t)
    <3>1. CASE k < i
      BY <1>1, <1>4, <1>5, <1>6, <3>1 DEF Range
    <3>2. CASE k > i
      <4>1. k - 1 \in 1 .. Len(t) /\ t[k - 1] = s[k]
        BY <1>1, <1>4, <1>5, <3>2
      <4> QED BY <1>4, <1>6, <4>1 DEF Range
    <3> QED BY <1>1, <2>2, <3>1, <3>2
  <2> QED BY <1>1, <1>4, <1>6, <2>1, <2>2 DEF Range
<1> QED BY <1>4, <1>7, <1>8, Zenon DEF t

\* A list without one of its files has the others.
LEMMA WithoutFacts ==
  ASSUME NEW s, IsSequence(s), IsInjective(s), NEW x
  PROVE  /\ IsSequence(Without(s, x)) /\ IsInjective(Without(s, x))
         /\ Range(Without(s, x)) = Range(s) \ {x}
<1>1. CASE x \notin Range(s)
  BY <1>1 DEF Without
<1>2. CASE x \in Range(s)
  <2> DEFINE i == CHOOSE i \in DOMAIN s : s[i] = x
  <2>1. i \in DOMAIN s /\ s[i] = x
    BY <1>2 DEF Range
  <2>2. Without(s, x) = RemoveAt(s, i)
    BY <1>2 DEF Without
  <2> HIDE DEF i
  <2>3. s \in Seq(Range(s))
    BY DEF IsSequence
  <2>4. RemoveAt(s, i) \in Seq(Range(s)) /\ IsInjective(RemoveAt(s, i))
          /\ Range(RemoveAt(s, i)) = Range(s) \ {s[i]}
    BY <2>1, <2>3, TakenOut
  <2>5. IsSequence(RemoveAt(s, i))
    BY <2>4, SequenceOf
  <2> QED BY <2>1, <2>2, <2>4, <2>5
<1> QED BY <1>1, <1>2

\* A list with one more element.
LEMMA OneMore ==
  ASSUME NEW s, IsSequence(s), IsInjective(s), NEW x, x \notin Range(s)
  PROVE  IsSequence(Append(s, x)) /\ IsInjective(Append(s, x))
         /\ Range(Append(s, x)) = Range(s) \cup {x}
<1> DEFINE t == Append(s, x)
           n == Len(s)
<1>1. n \in Nat /\ DOMAIN s = 1 .. n /\ \A i \in DOMAIN s : s[i] \in Range(s)
  BY SequenceIs
<1>2. /\ IsSequence(t) /\ DOMAIN t = 1 .. n + 1 /\ t[n + 1] = x /\ (\A i \in DOMAIN s : t[i] = s[i])
      /\ Range(t) = Range(s) \cup {x}
  BY Behind
<1> HIDE DEF t, n
<1>3. ASSUME NEW a \in DOMAIN t, NEW b \in DOMAIN t, t[a] = t[b] PROVE a = b
  <2>1. \A i \in DOMAIN t : i = n + 1 \/ i \in DOMAIN s
    BY <1>1, <1>2
  <2> QED BY <1>1, <1>2, <1>3, <2>1 DEF IsInjective
<1> QED BY <1>2, <1>3 DEF IsInjective, t

\* An archive is put on the list of its loader.
KeepsOne(h, h2, x, n) ==
  /\ HeapOk(h) /\ x \in DOMAIN h /\ h[x].kind = "loader" /\ n \in DOMAIN h /\ h[n].kind = "nca"
  /\ Unowned(h, n) /\ Grounded(h, x, n)
  /\ h2 = [h EXCEPT ![x].parts = Append(@, n)]

\* What follows from it.
Kept(h, h2, x, n) ==
  /\ HeapOk(h2) /\ Stable(h, h2) /\ DOMAIN h2 = DOMAIN h /\ Len(h2) = Len(h)
  /\ \A i \in DOMAIN h : i # x => h2[i] = h[i]
  /\ Range(h2[x].parts) = Range(h[x].parts) \cup {n}
  /\ Owned(h2, x) = Owned(h, x) \cup {n}
  /\ \A i \in DOMAIN h : i # x => Owned(h2, i) = Owned(h, i) /\ Archive(h2, i) = Archive(h, i)
  /\ Live(h2) = Live(h)

\* A package that keeps one more archive leaves the heap sound.
LEMMA Keeping ==
  ASSUME NEW h, NEW h2, NEW x, NEW n, KeepsOne(h, h2, x, n)
  PROVE  Kept(h, h2, x, n)
<1> SUFFICES ASSUME HeapOk(h), x \in DOMAIN h, h[x].kind = "loader",
         n \in DOMAIN h, h[n].kind = "nca", Unowned(h, n), Grounded(h, x, n),
         h2 = [h EXCEPT ![x].parts = Append(@, n)]
  PROVE  /\ HeapOk(h2) /\ Stable(h, h2) /\ DOMAIN h2 = DOMAIN h /\ Len(h2) = Len(h)
         /\ \A i \in DOMAIN h : i # x => h2[i] = h[i]
         /\ Range(h2[x].parts) = Range(h[x].parts) \cup {n}
         /\ Owned(h2, x) = Owned(h, x) \cup {n}
         /\ \A i \in DOMAIN h : i # x => Owned(h2, i) = Owned(h, i)
              /\ Archive(h2, i) = Archive(h, i)
         /\ Live(h2) = Live(h)
  BY DEF KeepsOne, Kept
<1> DEFINE s == Append(h[x].parts, n)
<1>1. IsObject(h, x) /\ IsLoader(h, x) /\ IsGrounded(h, x) /\ n # x
  BY DEF HeapOk
<1>2. /\ DOMAIN h2 = DOMAIN h /\ h2[x] = [h[x] EXCEPT !.parts = s]
      /\ \A i \in DOMAIN h : i # x => h2[i] = h[i]
      /\ h2 = [i \in DOMAIN h |-> h2[i]]
  OBVIOUS
<1> HIDE DEF s
<1>3. IsSequence(h2) /\ Len(h2) = Len(h)
  BY ONLY HeapOk(h), <1>2, Replaced
<1>4. h2[x] = [kind |-> h[x].kind, base |-> h[x].base, dir |-> h[x].dir, parts |-> s,
               pfs_list |-> h[x].pfs_list, romfs_list |-> h[x].romfs_list, path |-> h[x].path,
               live |-> h[x].live]
  BY <1>1, <1>2 DEF IsObject
<1>5. \A i \in DOMAIN h :
        /\ h2[i].kind = h[i].kind /\ h2[i].base = h[i].base /\ h2[i].dir = h[i].dir
        /\ h2[i].path = h[i].path
        /\ h2[i].pfs_list = h[i].pfs_list /\ h2[i].romfs_list = h[i].romfs_list
        /\ h2[i].live = h[i].live
  <2>1. ASSUME NEW i \in DOMAIN h, i # x PROVE h2[i] = h[i]
    BY <1>2, <2>1
  <2> QED BY <1>4, <2>1
<1>6. Stable(h, h2)
  BY <1>2, <1>3, <1>5 DEF Stable, HeapOk
<1>7. Live(h2) = Live(h)
  BY <1>2, <1>5 DEF Live
<1>8. n \notin Range(h[x].parts)
  <2>1. n \notin Owned(h, x)
    BY DEF Unowned
  <2> QED BY <2>1 DEF Owned
<1>9. IsSequence(s) /\ IsInjective(s) /\ Range(s) = Range(h[x].parts) \cup {n}
  BY <1>1, <1>8, OneMore DEF IsObject, s
<1>10. h2[x].parts = s
  BY <1>4
<1>11. ASSUME NEW i \in DOMAIN h PROVE /\ Items(h2, i) = Items(h, i)
                                       /\ SectionObjects(h2, i) = SectionObjects(h, i)
                                       /\ h[i].kind = "nca" => Below(h2, i) = Below(h, i)
  <2>1. Items(h2, i) = Items(h, i)
    BY <1>5 DEF Items
  <2>2. SectionObjects(h2, i) = SectionObjects(h, i)
    BY <2>1 DEF SectionObjects
  <2>3. h[i].kind = "nca" => Below(h2, i) = Below(h, i)
    BY <1>6, StableFacts
  <2> QED BY <2>1, <2>2, <2>3
<1>12. Owned(h2, x) = Owned(h, x) \cup {n}
  BY <1>4, <1>9 DEF Owned
<1>13. ASSUME NEW i \in DOMAIN h, i # x
       PROVE Owned(h2, i) = Owned(h, i) /\ Archive(h2, i) = Archive(h, i)
  <2>1. Owned(h2, i) = Owned(h, i)
    BY <1>2, <1>11, <1>13 DEF Owned
  <2> QED BY <2>1 DEF Archive
<1>14. ASSUME NEW i \in DOMAIN h
       PROVE  IsObject(h2, i) /\ HoldsFiles(h2, i) /\ IsLayered(h2, i) /\ IsLoader(h2, i)
              /\ IsNca(h2, i) /\ IsGrounded(h2, i)
  <2>1. IsObject(h, i) /\ HoldsFiles(h, i) /\ IsLoader(h, i) /\ IsNca(h, i) /\ IsGrounded(h, i)
    BY DEF HeapOk
  <2>2. IsObject(h2, i)
    <3>1. CASE i = x
      BY <1>2, <1>4, <1>9, <2>1, <3>1 DEF IsObject
    <3>2. CASE i # x
      BY <1>2, <2>1, <3>2 DEF IsObject
    <3> QED BY <3>1, <3>2
  <2>3. HoldsFiles(h2, i)
    <3>1. SUFFICES ASSUME h[i].kind \in {"hostdir", "romfs"}, NEW j \in Range(h2[i].parts)
                   PROVE  /\ h2[j].dir = i /\ h2[j].live
                          /\ h2[j].kind \in IF h2[i].kind = "hostdir" THEN {"host"} ELSE {"offset", "mem"}
      BY <1>5 DEF HoldsFiles
    <3>2. h2[i].parts = h[i].parts
      BY <1>2, <3>1
    <3>3. j \in DOMAIN h
      BY <3>1, <3>2, ObjectFacts
    <3> QED BY <1>5, <2>1, <3>1, <3>2, <3>3 DEF HoldsFiles
  <2>4. IsLayered(h2, i)
    BY <1>6, StableFacts
  <2>5. IsLoader(h2, i)
    <3>1. SUFFICES ASSUME h[i].kind = "loader" PROVE IsLoader(h2, i)
      BY <1>5 DEF IsLoader
    <3>2. \A j \in Range(h2[i].parts) : j \in DOMAIN h /\ h[j].kind = "nca"
      <4>1. \A j \in Range(h[i].parts) : j \in DOMAIN h /\ h[j].kind = "nca"
        BY <2>1, <3>1, ObjectFacts DEF IsLoader
      <4>2. h2[i].parts = h[i].parts \/ (i = x /\ Range(h2[i].parts) = Range(h[x].parts) \cup {n})
        BY <1>2, <1>9, <1>10
      <4> QED BY <4>1, <4>2
    <3>3. h[i].base \in {None} \cup DOMAIN h /\ h[i].dir \in {None} \cup DOMAIN h
      BY ObjectFacts
    <3> QED BY <1>5, <2>1, <3>1, <3>2, <3>3 DEF IsLoader
  <2>6. IsNca(h2, i)
    <3>1. SUFFICES ASSUME h[i].kind = "nca" PROVE IsNca(h2, i)
      BY <1>5 DEF IsNca
    <3>2. /\ Below(h2, i) = Below(h, i) /\ Below(h, i) \in DOMAIN h /\ h[i].base \in DOMAIN h
          /\ h[i].dir \in {None} \cup DOMAIN h
      BY <1>6, <3>1, StableFacts, SectionFacts, ObjectFacts
    <3>3. IsSectionList(h2, i, h2[i].pfs_list, "pfs")
            /\ IsSectionList(h2, i, h2[i].romfs_list, "romfs")
      BY <1>5, <1>6, <2>1, <3>1, SectionListStays DEF IsNca
    <3>4. /\ h2[i].kind = h[i].kind /\ h2[i].base = h[i].base /\ h2[i].dir = h[i].dir
          /\ h2[h[i].base].kind = h[h[i].base].kind /\ h2[h[i].base].dir = h[h[i].base].dir
          /\ h2[Below(h, i)].kind = h[Below(h, i)].kind
          /\ h2[Below(h, i)].base = h[Below(h, i)].base
          /\ h[i].dir # None => h2[h[i].dir].kind = h[h[i].dir].kind
               /\ h2[h[i].dir].base = h[h[i].dir].base
      BY <1>5, <3>2
    <3> QED BY <2>1, <3>1, <3>2, <3>3, <3>4 DEF IsNca
  <2>7. IsGrounded(h2, i)
    <3>1. SUFFICES ASSUME h[i].kind = "loader", NEW a \in Range(h2[i].parts)
          PROVE Grounded(h2, i, a)
      BY <1>5 DEF IsGrounded
    <3>2. a \in DOMAIN h /\ Grounded(h, i, a) /\ a # x
      <4>1. \A j \in Range(h[i].parts) : j \in DOMAIN h /\ Grounded(h, i, j) /\ h[j].kind = "nca"
        BY <2>1, <3>1, ObjectFacts DEF IsGrounded, IsLoader
      <4>2. a \in Range(h[i].parts) \/ (i = x /\ a = n)
        BY <1>2, <1>9, <1>10, <3>1
      <4> QED BY <1>1, <4>1, <4>2
    <3> QED BY <1>6, <1>13, <3>1, <3>2, GroundedStays
  <2> QED BY <2>2, <2>3, <2>4, <2>5, <2>6, <2>7
<1>15. OwnedOnce(h2)
  <2>1. SUFFICES ASSUME NEW o \in DOMAIN h, NEW p \in DOMAIN h, o # p
        PROVE Owned(h2, o) \cap Owned(h2, p) = {}
    BY <1>2 DEF OwnedOnce
  <2>2. Owned(h, o) \cap Owned(h, p) = {} /\ n \notin Owned(h, o) /\ n \notin Owned(h, p)
    BY <2>1 DEF HeapOk, OwnedOnce, Unowned
  <2> QED BY <1>12, <1>13, <2>1, <2>2
<1> QED BY <1>2, <1>3, <1>6, <1>7, <1>9, <1>10, <1>12, <1>13, <1>14, <1>15 DEF HeapOk

\* A section that may go on a list of archive n.
IsSection(h, n, p, kind) ==
  /\ p.file \in n + 1 .. Len(h) - 1 /\ p.fs = p.file + 1
  /\ h[p.fs].kind = kind /\ h[p.fs].base = p.file /\ h[p.fs].dir = None
  /\ h[p.file].kind \in {"offset", "aes"} /\ h[p.file].base = Below(h, n) /\ h[p.file].dir = None

\* A section more on one list of an archive.
LEMMA SectionListWith ==
  ASSUME NEW h, NEW n, NEW list, NEW kind, IsSequence(list), IsSectionList(h, n, list, kind),
         NEW p, IsSection(h, n, p, kind), \A q \in Range(list) : q.fs # p.fs
  PROVE  IsSectionList(h, n, Append(list, p), kind)
<1> DEFINE t == Append(list, p)
           m == Len(list)
<1>1. m \in Nat /\ DOMAIN list = 1 .. m /\ \A i \in DOMAIN list : list[i] \in Range(list)
  BY SequenceIs
<1>2. DOMAIN t = 1 .. m + 1 /\ t[m + 1] = p /\ \A i \in DOMAIN list : t[i] = list[i]
  BY Behind
<1> HIDE DEF t, m
<1>3. \A i \in DOMAIN t : i = m + 1 \/ i \in DOMAIN list
  BY <1>1, <1>2
<1>4. \A a \in DOMAIN list : IsSection(h, n, list[a], kind)
  BY DEF IsSectionList, IsSection
<1>5. \A a \in DOMAIN t : IsSection(h, n, t[a], kind)
  BY <1>2, <1>3, <1>4
<1>6. ASSUME NEW a \in DOMAIN t, NEW b \in DOMAIN t, t[a].fs = t[b].fs PROVE a = b
  BY <1>1, <1>2, <1>3, <1>6 DEF IsSectionList
<1> QED BY <1>5, <1>6 DEF IsSectionList, IsSection, t

\* A directory is put on the list of its archive.
AddsSection(h, h2, n, p, kind) ==
  /\ HeapOk(h) /\ n \in DOMAIN h /\ h[n].kind = "nca" /\ kind \in {"pfs", "romfs"}
  /\ IsSection(h, n, p, kind)
  /\ Unowned(h, p.file) /\ Unowned(h, p.fs)
  /\ h2 = IF kind = "pfs" THEN [h EXCEPT ![n].pfs_list = Append(@, p)]
          ELSE [h EXCEPT ![n].romfs_list = Append(@, p)]

\* What follows from it.
SectionAdded(h, h2, n, p, kind) ==
  /\ HeapOk(h2) /\ Stable(h, h2) /\ DOMAIN h2 = DOMAIN h /\ Len(h2) = Len(h)
  /\ \A i \in DOMAIN h : h2[i].parts = h[i].parts
  /\ \A i \in DOMAIN h : i # n => h2[i] = h[i]
  /\ Items(h2, n) = Items(h, n) \cup {p}
  /\ Owned(h2, n) = Owned(h, n) \cup {p.file, p.fs}
  /\ \A i \in DOMAIN h : i # n => Owned(h2, i) = Owned(h, i) /\ Archive(h2, i) = Archive(h, i)
  /\ kind = "romfs" \/ h[n].romfs_list # <<>> => h2[n].romfs_list # <<>>
  /\ Live(h2) = Live(h)

\* An archive with a section more leaves the heap sound.
LEMMA Sectioning ==
  ASSUME NEW h, NEW h2, NEW n, NEW p, NEW kind, AddsSection(h, h2, n, p, kind)
  PROVE  SectionAdded(h, h2, n, p, kind)
<1> SUFFICES ASSUME HeapOk(h), n \in DOMAIN h, h[n].kind = "nca",
         kind \in {"pfs", "romfs"}, IsSection(h, n, p, kind),
         Unowned(h, p.file), Unowned(h, p.fs),
         h2 = IF kind = "pfs" THEN [h EXCEPT ![n].pfs_list = Append(@, p)]
                      ELSE [h EXCEPT ![n].romfs_list = Append(@, p)]
  PROVE  /\ HeapOk(h2) /\ Stable(h, h2) /\ DOMAIN h2 = DOMAIN h /\ Len(h2) = Len(h)
         /\ \A i \in DOMAIN h : h2[i].parts = h[i].parts
         /\ \A i \in DOMAIN h : i # n => h2[i] = h[i]
         /\ Items(h2, n) = Items(h, n) \cup {p}
         /\ Owned(h2, n) = Owned(h, n) \cup {p.file, p.fs}
         /\ \A i \in DOMAIN h : i # n => Owned(h2, i) = Owned(h, i)
              /\ Archive(h2, i) = Archive(h, i)
         /\ kind = "romfs" \/ h[n].romfs_list # <<>> => h2[n].romfs_list # <<>>
         /\ Live(h2) = Live(h)
  BY DEF AddsSection, SectionAdded
<1> DEFINE s == IF kind = "pfs" THEN Append(h[n].pfs_list, p) ELSE h[n].pfs_list
           r == IF kind = "pfs" THEN h[n].romfs_list ELSE Append(h[n].romfs_list, p)
<1>1. IsObject(h, n) /\ IsNca(h, n) /\ n \in Nat /\ Len(h) \in Nat /\ DOMAIN h = 1 .. Len(h)
  BY ObjectFacts DEF HeapOk
<1>2. /\ DOMAIN h2 = DOMAIN h /\ \A i \in DOMAIN h : i # n => h2[i] = h[i]
      /\ h2 = [i \in DOMAIN h |-> h2[i]]
  <2>1. CASE kind = "pfs"
    BY <2>1
  <2>2. CASE kind # "pfs"
    BY <2>2
  <2> QED BY <2>1, <2>2
<1>3. h2[n] = [kind |-> "nca", base |-> h[n].base, dir |-> h[n].dir, parts |-> h[n].parts,
               pfs_list |-> s, romfs_list |-> r, path |-> h[n].path, live |-> h[n].live]
  <2>1. h[n] = [kind |-> "nca", base |-> h[n].base, dir |-> h[n].dir, parts |-> h[n].parts,
          pfs_list |-> h[n].pfs_list,
                romfs_list |-> h[n].romfs_list, path |-> h[n].path, live |-> h[n].live]
    BY <1>1 DEF IsObject
  <2>2. CASE kind = "pfs"
    <3>1. h2[n] = [h[n] EXCEPT !.pfs_list = Append(h[n].pfs_list, p)]
      BY <2>2
    <3> QED BY <2>1, <2>2, <3>1
  <2>3. CASE kind # "pfs"
    <3>1. h2[n] = [h[n] EXCEPT !.romfs_list = Append(h[n].romfs_list, p)]
      BY <2>3
    <3> QED BY <2>1, <2>3, <3>1
  <2> QED BY <2>2, <2>3
<1>4. /\ IsSequence(s) /\ IsSequence(r) /\ Range(s) \cup Range(r) = Items(h, n) \cup {p}
      /\ kind = "romfs" \/ h[n].romfs_list # <<>> => r # <<>>
  <2>1. IsSequence(h[n].pfs_list) /\ IsSequence(h[n].romfs_list)
    BY <1>1 DEF IsObject
  <2>2. ASSUME NEW q, IsSequence(q) PROVE IsSequence(Append(q, p))
               /\ Range(Append(q, p)) = Range(q) \cup {p} /\ Append(q, p) # <<>>
    <3>1. IsSequence(Append(q, p)) /\ Range(Append(q, p)) = Range(q) \cup {p}
      BY <2>2, Behind
    <3> QED BY <3>1, Nothing
  <2> QED BY <2>1, <2>2 DEF Items
<1> HIDE DEF s, r
<1>5. IsSequence(h2) /\ Len(h2) = Len(h)
  BY ONLY HeapOk(h), <1>2, Replaced
<1>6. \A i \in DOMAIN h :
        /\ h2[i].kind = h[i].kind /\ h2[i].base = h[i].base /\ h2[i].dir = h[i].dir
        /\ h2[i].path = h[i].path
        /\ h2[i].parts = h[i].parts /\ h2[i].live = h[i].live
  <2>1. ASSUME NEW i \in DOMAIN h, i # n PROVE h2[i] = h[i]
    BY <1>2, <2>1
  <2> QED BY <1>3, <2>1
<1>7. Stable(h, h2)
  BY <1>2, <1>5, <1>6 DEF Stable, HeapOk
<1>8. Live(h2) = Live(h)
  BY <1>2, <1>6 DEF Live
<1>9. Items(h2, n) = Items(h, n) \cup {p} /\ Below(h2, n) = Below(h, n)
  <2>1. Items(h2, n) = Items(h, n) \cup {p}
    <3>1. h2[n].pfs_list = s /\ h2[n].romfs_list = r
      BY <1>3
    <3> QED BY <1>4, <3>1 DEF Items
  <2>2. Below(h2, n) = Below(h, n)
    BY ONLY HeapOk(h), n \in DOMAIN h, h[n].kind = "nca", <1>7, StableFacts
  <2> QED BY <2>1, <2>2
<1>10. Owned(h2, n) = Owned(h, n) \cup {p.file, p.fs}
  <2>1. SectionObjects(h2, n) = SectionObjects(h, n) \cup {p.file, p.fs}
    BY <1>9 DEF SectionObjects
  <2> QED BY <1>3, <1>9, <2>1 DEF Owned
<1>11. ASSUME NEW i \in DOMAIN h, i # n
       PROVE Owned(h2, i) = Owned(h, i) /\ Archive(h2, i) = Archive(h, i)
  <2>1. h2[i] = h[i]
    BY <1>2, <1>11
  <2>2. Items(h2, i) = Items(h, i)
    BY <2>1 DEF Items
  <2>3. SectionObjects(h2, i) = SectionObjects(h, i)
    BY <2>2 DEF SectionObjects
  <2>4. h[i].kind = "nca" => Below(h2, i) = Below(h, i)
    BY <1>7, StableFacts
  <2>5. Owned(h2, i) = Owned(h, i)
    BY <2>1, <2>3, <2>4 DEF Owned
  <2> QED BY <2>5 DEF Archive
<1>12. \A q \in Items(h, n) : q.fs # p.fs
  <2>1. \A q \in Items(h, n) : q.fs \in Owned(h, n)
    BY DEF Owned, SectionObjects
  <2> QED BY <2>1 DEF Unowned
<1>13. IsSectionList(h2, n, s, "pfs") /\ IsSectionList(h2, n, r, "romfs")
  <2>1. IsSectionList(h2, n, h[n].pfs_list, "pfs") /\ IsSectionList(h2, n, h[n].romfs_list, "romfs")
    BY <1>1, <1>7, SectionListStays DEF IsNca
  <2>2. IsSection(h2, n, p, kind)
    <3>1. p.file \in DOMAIN h /\ p.fs \in DOMAIN h
      BY <1>1 DEF IsSection
    <3> QED BY <1>5, <1>6, <1>9, <3>1 DEF IsSection
  <2>3. (\A q \in Range(h[n].pfs_list) : q.fs # p.fs)
          /\ \A q \in Range(h[n].romfs_list) : q.fs # p.fs
    BY <1>12 DEF Items
  <2>4. IsSequence(h[n].pfs_list) /\ IsSequence(h[n].romfs_list)
    BY <1>1 DEF IsObject
  <2>5. CASE kind = "pfs"
    <3>1. IsSectionList(h2, n, Append(h[n].pfs_list, p), "pfs")
      BY <2>1, <2>2, <2>3, <2>4, <2>5, SectionListWith
    <3> QED BY <2>1, <2>5, <3>1 DEF s, r
  <2>6. CASE kind = "romfs"
    <3>1. IsSectionList(h2, n, Append(h[n].romfs_list, p), "romfs")
      BY <2>1, <2>2, <2>3, <2>4, <2>6, SectionListWith
    <3> QED BY <2>1, <2>6, <3>1 DEF s, r
  <2> QED BY <2>5, <2>6
<1>14. Archive(h2, n) = Archive(h, n) \cup {p.file, p.fs}
  BY <1>10 DEF Archive
<1>15. ASSUME NEW i \in DOMAIN h
       PROVE  IsObject(h2, i) /\ HoldsFiles(h2, i) /\ IsLayered(h2, i) /\ IsLoader(h2, i)
              /\ IsNca(h2, i) /\ IsGrounded(h2, i)
  <2>1. IsObject(h, i) /\ HoldsFiles(h, i) /\ IsLoader(h, i) /\ IsNca(h, i) /\ IsGrounded(h, i)
    BY DEF HeapOk
  <2>2. IsObject(h2, i)
    <3>1. CASE i = n
      BY <1>2, <1>3, <1>4, <2>1, <3>1 DEF IsObject
    <3>2. CASE i # n
      BY <1>2, <2>1, <3>2 DEF IsObject
    <3> QED BY <3>1, <3>2
  <2>3. HoldsFiles(h2, i)
    <3>1. SUFFICES ASSUME h[i].kind \in {"hostdir", "romfs"}, NEW j \in Range(h[i].parts)
                   PROVE  /\ h2[j].dir = i /\ h2[j].live
                          /\ h2[j].kind \in IF h2[i].kind = "hostdir" THEN {"host"} ELSE {"offset", "mem"}
      BY <1>6 DEF HoldsFiles
    <3>2. j \in DOMAIN h
      BY <3>1, ObjectFacts
    <3> QED BY <1>6, <2>1, <3>1, <3>2 DEF HoldsFiles
  <2>4. IsLayered(h2, i)
    BY <1>7, StableFacts
  <2>5. IsLoader(h2, i)
    <3>1. SUFFICES ASSUME h[i].kind = "loader" PROVE IsLoader(h2, i)
      BY <1>6 DEF IsLoader
    <3>2. \A j \in Range(h2[i].parts) : j \in DOMAIN h /\ h[j].kind = "nca"
      BY <1>6, <2>1, <3>1, ObjectFacts DEF IsLoader
    <3>3. h[i].base \in {None} \cup DOMAIN h /\ h[i].dir \in {None} \cup DOMAIN h
      BY ObjectFacts
    <3> QED BY <1>6, <2>1, <3>1, <3>2, <3>3 DEF IsLoader
  <2>6. IsNca(h2, i)
    <3>1. SUFFICES ASSUME h[i].kind = "nca" PROVE IsNca(h2, i)
      BY <1>6 DEF IsNca
    <3>2. /\ Below(h2, i) = Below(h, i) /\ Below(h, i) \in DOMAIN h /\ h[i].base \in DOMAIN h
          /\ h[i].dir \in {None} \cup DOMAIN h
      BY <1>7, <3>1, StableFacts, SectionFacts, ObjectFacts
    <3>3. IsSectionList(h2, i, h2[i].pfs_list, "pfs")
            /\ IsSectionList(h2, i, h2[i].romfs_list, "romfs")
      <4>1. CASE i = n
        BY <1>3, <1>13, <4>1
      <4>2. CASE i # n
        <5>1. h2[i].pfs_list = h[i].pfs_list /\ h2[i].romfs_list = h[i].romfs_list
          BY <1>2, <4>2
        <5> QED BY <1>7, <2>1, <3>1, <5>1, SectionListStays DEF IsNca
      <4> QED BY <4>1, <4>2
    <3>4. /\ h2[i].kind = h[i].kind /\ h2[i].base = h[i].base /\ h2[i].dir = h[i].dir
          /\ h2[h[i].base].kind = h[h[i].base].kind /\ h2[h[i].base].dir = h[h[i].base].dir
          /\ h2[Below(h, i)].kind = h[Below(h, i)].kind
          /\ h2[Below(h, i)].base = h[Below(h, i)].base
          /\ h[i].dir # None => h2[h[i].dir].kind = h[h[i].dir].kind
               /\ h2[h[i].dir].base = h[h[i].dir].base
      BY <1>6, <3>2
    <3> QED BY <2>1, <3>1, <3>2, <3>3, <3>4 DEF IsNca
  <2>7. IsGrounded(h2, i)
    <3>1. SUFFICES ASSUME h[i].kind = "loader", NEW a \in Range(h[i].parts) PROVE Grounded(h2, i, a)
      BY <1>6 DEF IsGrounded
    <3>2. a \in DOMAIN h /\ Grounded(h, i, a)
      BY <2>1, <3>1, ObjectFacts DEF IsGrounded
    <3>3. CASE a # n
      BY <1>7, <1>11, <3>1, <3>2, <3>3, GroundedStays
    <3>4. CASE a = n
      <4>1. Ground(h2, i) = Ground(h, i) /\ Archive(h, n) \subseteq DOMAIN h
        BY <1>7, <3>1, GroundStays, ArchiveFacts
      <4>2. \A j \in Archive(h, n) : Over(h2, j) \subseteq Archive(h2, n) \cup Ground(h2, i)
        <5>1. \A j \in Archive(h, n) : Over(h2, j) = Over(h, j)
          BY <1>7, <4>1, StableFacts
        <5> QED BY <1>14, <3>2, <3>4, <4>1, <5>1 DEF Grounded
      <4>3. p.file \in DOMAIN h /\ p.fs \in DOMAIN h
        BY <1>1 DEF IsSection
      <4>4. Over(h2, p.file) \subseteq Archive(h2, n) /\ Over(h2, p.fs) \subseteq Archive(h2, n)
        <5>1. Below(h, n) \in Archive(h2, n) /\ p.file \in Archive(h2, n)
          <6>1. Below(h, n) \in Owned(h, n)
            BY DEF Owned
          <6> QED BY <1>14, <6>1 DEF Archive
        <5>2. h2[p.file].base = Below(h, n) /\ h2[p.file].dir = None /\ h2[p.fs].base = p.file
                /\ h2[p.fs].dir = None
          BY <1>6, <4>3 DEF IsSection
        <5> QED BY <5>1, <5>2 DEF Over
      <4> QED BY <1>14, <3>4, <4>2, <4>4 DEF Grounded
    <3> QED BY <3>3, <3>4
  <2> QED BY <2>2, <2>3, <2>4, <2>5, <2>6, <2>7
<1>16. OwnedOnce(h2)
  <2>1. SUFFICES ASSUME NEW o \in DOMAIN h, NEW q \in DOMAIN h, o # q
        PROVE Owned(h2, o) \cap Owned(h2, q) = {}
    BY <1>2 DEF OwnedOnce
  <2>2. Owned(h, o) \cap Owned(h, q) = {} /\ {p.file, p.fs} \cap Owned(h, o) = {}
          /\ {p.file, p.fs} \cap Owned(h, q) = {}
    BY <2>1 DEF HeapOk, OwnedOnce, Unowned
  <2> QED BY <1>10, <1>11, <2>1, <2>2
<1>17. HeapOk(h2)
  BY <1>2, <1>5, <1>15, <1>16 DEF HeapOk
<1> QED BY <1>2, <1>3, <1>4, <1>5, <1>6, <1>7, <1>8, <1>9, <1>10, <1>11, <1>17

----------------------------------------------------------------------------
(* Trust and its handing over *)

\* What a call is trusted with is live.
LEMMA LiveFacts ==
  ASSUME NEW t, NEW h, NEW g, NEW k, NEW s, TrustOk(t, h, g, k, s), NEW d \in Turns(t),
         NEW i \in Trust(h, g, k, s, At(t, d))
  PROVE  i \in Live(h) /\ i \in DOMAIN h
  BY DEF TrustOk, Live

\* What a call that stays is trusted with, it still is.
LEMMA WholeStays ==
  ASSUME NEW h, NEW g, NEW k, NEW s, NEW h2, NEW g2, NEW k2, NEW s2, Stable(h, h2), NEW c,
         Trust(h, g, k, s, c) \subseteq Trust(h2, g2, k2, s2, c), NEW i \in DOMAIN h,
         Whole(h, g, k, s, c, i)
  PROVE  Whole(h2, g2, k2, s2, c, i)
  BY DEF Whole, Stable

\* The step of a call but for what is particular to it: q is put before the others.
Making(t, h, g, k, s, q, R, n, m) ==
  /\ HeapOk(h) /\ TrustOk(t, h, g, k, s) /\ IsSequence(t) /\ t # <<>> /\ IsSequence(q)
  /\ R = q \o Tail(t) /\ n = Len(t) /\ m = Len(q)

\* A step that makes objects puts its calls before the others.
LEMMA MakingPuts ==
  ASSUME NEW t, NEW h, NEW g, NEW k, NEW s, NEW q, NEW R, NEW n, NEW m,
         Making(t, h, g, k, s, q, R, n, m)
  PROVE  Puts(t, q, R, n, m)
<1>1. Puts(t, q, R, Len(t), Len(q))
  <2>1. IsSequence(t) /\ t # <<>> /\ IsSequence(q) /\ R = q \o Tail(t)
    BY DEF Making
  <2> QED BY <2>1, Pushing, Zenon
<1> QED BY <1>1 DEF Making

\* Calls q that can be put before those of C
Takes(ses, h, g, k, s, C, q) ==
  /\ IsSequence(q)
  /\ \A a \in DOMAIN q : /\ IsCall(ses, h, g, q[a]) /\ IsReady(h, k, q[a])
                         /\ IsPlaced(h, g, k, s, q[a], C \cup { q[b] : b \in a + 1 .. Len(q) })
  /\ \A b \in DOMAIN q : \A a \in 1 .. b - 1 :
       Above(q[b].op, q[a].op) /\ Trust(h, g, k, s, q[a]) \cap Trust(h, g, k, s, q[b]) = {}
  /\ \A a \in DOMAIN q : \A i \in DOMAIN h : Whole(h, g, k, s, q[a], i) =>
       \A j \in Over(h, i) : Assured(h, g, k, s, C \cup { q[b] : b \in a .. Len(q) }, j)

\* What a run of calls is trusted with.
Entrusted(h, g, k, s, q) == UNION { Trust(h, g, k, s, q[a]) : a \in DOMAIN q }

\* A call is made: it hands what it is trusted with, and the new objects, to the calls it
\* puts before the others, and Z to one of those, at z, or closes it.
Handed(t, h, g, k, s, q, n, h2, g2, k2, s2, fresh, z, Z) ==
  /\ fresh \cap DOMAIN h = {} /\ z \in 0 .. n - 1
  /\ z = 0 => Z = {}
  /\ z # 0 => At(t, z).op # "free"
  /\ \A d \in 1 .. n - 1 :
       Trust(h2, g2, k2, s2, At(t, d)) = Trust(h, g, k, s, At(t, d)) \cup IF d = z THEN Z ELSE {}
  /\ Live(h) \ Trust(h, g, k, s, Head(t)) \subseteq Live(h2)
  /\ Live(h2) \subseteq Live(h) \cup fresh
  /\ \A i \in Live(h) : Dropped(h, k, i) => Dropped(h2, k2, i)
  /\ Z \cup Entrusted(h2, g2, k2, s2,
       q) \subseteq (Trust(h, g, k, s, Head(t)) \cup fresh) \cap Live(h2)
  /\ Z \cap Entrusted(h2, g2, k2, s2, q) = {}
  /\ \A i \in (Trust(h, g, k, s, Head(t)) \cup fresh) \cap Live(h2) :
       Dropped(h2, k2, i) \/ i \in Z \/ i \in Entrusted(h2, g2, k2, s2, q)
  /\ \A i \in Z : \A j \in Over(h2, i) : Assured(h2, g2, k2, s2, After(t, z + 1), j)

\* Trust is kept by a step whose calls take over what the call made was trusted with.
LEMMA HandOver ==
  ASSUME NEW ses, NEW t, NEW h, NEW g, NEW k, NEW s, NEW q, NEW R, NEW n, NEW m,
         Making(t, h, g, k, s, q, R, n, m),
         NEW h2, NEW g2, NEW k2, NEW s2, Stable(h, h2), Takes(ses, h2, g2, k2, s2, After(t, n), q),
         NEW fresh, NEW z, NEW Z, Handed(t, h, g, k, s, q, n, h2, g2, k2, s2, fresh, z, Z)
  PROVE  TrustOk(R, h2, g2, k2, s2)
<1>p. Puts(t, q, R, n, m) /\ HeapOk(h) /\ TrustOk(t, h, g, k, s)
  BY MakingPuts DEF Making
<1>a. /\ fresh \cap DOMAIN h = {} /\ z \in 0 .. n - 1 /\ (z = 0 => Z = {})
           /\ (z # 0 => At(t, z).op # "free")
  BY DEF Handed
<1>b. \A d \in 1 .. n - 1 :
       Trust(h2, g2, k2, s2, At(t, d)) = Trust(h, g, k, s, At(t, d)) \cup IF d = z THEN Z ELSE {}
  BY DEF Handed
<1>k. DOMAIN q = 1 .. m /\ m = Len(q)
  BY SequenceIs DEF Making
<1>c. /\ Live(h) \ Trust(h, g, k, s, Head(t)) \subseteq Live(h2)
      /\ Live(h2) \subseteq Live(h) \cup fresh
      /\ \A i \in Live(h) : Dropped(h, k, i) => Dropped(h2, k2, i)
      /\ Z \subseteq (Trust(h, g, k, s, Head(t)) \cup fresh) \cap Live(h2)
  BY DEF Handed
<1>d. \A i \in (Trust(h, g, k, s, Head(t)) \cup fresh) \cap Live(h2) :
       Dropped(h2, k2, i) \/ i \in Z \/ \E a \in 1 .. m : i \in Trust(h2, g2, k2, s2, q[a])
  BY <1>k DEF Handed, Entrusted
<1>e. \A a \in 1 .. m : \A i \in DOMAIN h2 : Whole(h2, g2, k2, s2, q[a], i) =>
       \A j \in Over(h2, i) : \/ \E e \in 1 .. n - 1 : Whole(h2, g2, k2, s2, At(t, e), j)
                              \/ \E b \in a .. m : Whole(h2, g2, k2, s2, q[b], j)
  <2>1. \A a \in 1 .. m : \A i \in DOMAIN h2 : Whole(h2, g2, k2, s2, q[a], i) =>
          \A j \in Over(h2, i) : Assured(h2, g2, k2, s2, After(t, n) \cup { q[b] : b \in a .. m },
            j)
    BY <1>k, Zenon DEF Takes
  <2>2. \A a, j : Assured(h2, g2, k2, s2, After(t, n) \cup { q[b] : b \in a .. m }, j) =>
          \/ \E e \in 1 .. n - 1 : Whole(h2, g2, k2, s2, At(t, e), j)
          \/ \E b \in a .. m : Whole(h2, g2, k2, s2, q[b], j)
    BY Zenon DEF Assured, After
  <2> QED BY <2>1, <2>2, Zenon
<1>f. \A i \in Z : \A j \in Over(h2, i) : \E e \in 1 .. z : Whole(h2, g2, k2, s2, At(t, e), j)
  <2>0. PICK y : y = z + 1
    OBVIOUS
  <2>1. \A j : Assured(h2, g2, k2, s2, After(t, y), j)
          => \E e \in 1 .. y - 1 : Whole(h2, g2, k2, s2, At(t, e), j)
    BY Zenon DEF Assured, After
  <2>2. y - 1 = z
    BY <1>p, <1>a, <2>0 DEF Puts
  <2>3. \A i \in Z : \A j \in Over(h2, i) : Assured(h2, g2, k2, s2, After(t, z + 1), j)
    BY Zenon DEF Handed
  <2> QED BY <2>0, <2>1, <2>2, <2>3
<1> DEFINE U(d) == Trust(h, g, k, s, At(t, d))
           V(d) == Trust(h2, g2, k2, s2, At(R, d))
           H == Trust(h, g, k, s, Head(t))
           Y(a) == Trust(h2, g2, k2, s2, q[a])
<1>1. /\ n \in Nat \ {0} /\ m \in Nat /\ At(t, n) = Head(t) /\ Turns(t) = 1 .. n
      /\ Turns(R) = 1 .. n - 1 + m
      /\ \A d \in 1 .. n - 1 : At(R, d) = At(t, d)
      /\ \A a \in 1 .. m : n + m - a \in n .. n - 1 + m /\ At(R, n + m - a) = q[a]
      /\ \A d \in n .. n - 1 + m : n + m - d \in 1 .. m /\ At(R, d) = q[n + m - d]
  BY <1>p DEF Puts
<1>2. /\ n \in Turns(t) /\ U(n) = H
      /\ \A d \in 1 .. n - 1 : d \in Turns(t) /\ d \in Turns(R)
      /\ \A d \in Turns(R) : d \in 1 .. n - 1 \/ d \in n .. n - 1 + m
      /\ \A d \in n .. n - 1 + m : d \in Turns(R)
      /\ n - 1 \in Nat
  BY <1>1
<1>3. /\ \A d \in Turns(t) : U(d) \subseteq Live(h)
      /\ \A e \in Turns(t) : \A d \in 1 .. e - 1 : U(d) \cap U(e) = {}
  BY <1>p DEF TrustOk
<1>4. \A d \in 1 .. n - 1 : U(d) \cap (H \cup fresh) = {}
  <2>1. \A d \in 1 .. n - 1 : U(d) \cap U(n) = {} /\ U(d) \subseteq DOMAIN h
    BY <1>2, <1>3 DEF Live
  <2> QED BY <1>2, <1>a, <2>1
<1>5. \A d \in 1 .. n - 1 : V(d) = U(d) \cup IF d = z THEN Z ELSE {}
  BY <1>1, <1>b
<1>6. ASSUME NEW d \in n .. n - 1 + m PROVE \E a \in 1 .. m : a = n + m - d /\ V(d) = Y(a)
  BY <1>1
<1>7. /\ \A d \in 1 .. n - 1 : \A i \in DOMAIN h : Whole(h, g, k, s, At(t, d), i)
           => Whole(h2, g2, k2, s2, At(R, d), i)
      /\ z # 0 => \A i \in Z : Whole(h2, g2, k2, s2, At(R, z), i)
  <2>1. ASSUME NEW d \in 1 .. n - 1, NEW i \in DOMAIN h, Whole(h, g, k, s, At(t, d), i)
        PROVE  Whole(h2, g2, k2, s2, At(R, d), i)
    <3>1. Trust(h, g, k, s, At(t, d)) \subseteq Trust(h2, g2, k2, s2, At(t, d))
            /\ At(R, d) = At(t, d)
      BY <1>1, <1>b
    <3> QED BY <2>1, <3>1, WholeStays
  <2>2. ASSUME z # 0, NEW i \in Z PROVE Whole(h2, g2, k2, s2, At(R, z), i)
    <3>1. z \in 1 .. n - 1
      BY <1>1, <1>a, <2>2
    <3> QED BY <1>1, <1>5, <1>a, <2>2, <3>1 DEF Whole, V
  <2> QED BY <2>1, <2>2
<1>61. /\ \A a \in 1 .. m : Y(a) \subseteq (H \cup fresh) \cap Live(h2) /\ Y(a) \cap Z = {}
       /\ \A b \in 1 .. m : \A a \in 1 .. b - 1 : Y(a) \cap Y(b) = {}
  <2>1. \A a \in 1 .. m : Y(a) \subseteq Entrusted(h2, g2, k2, s2, q)
    BY <1>k DEF Entrusted
  <2>2. Entrusted(h2, g2, k2, s2, q) \subseteq (H \cup fresh) \cap Live(h2)
          /\ Z \cap Entrusted(h2, g2, k2, s2, q) = {}
    BY DEF Handed
  <2>3. \A b \in 1 .. m : \A a \in 1 .. b - 1 : Y(a) \cap Y(b) = {}
    BY <1>k DEF Takes
  <2> QED BY <2>1, <2>2, <2>3
<1> HIDE DEF U, V, H, Y
<1>8. \A d \in Turns(R) : V(d) \subseteq Live(h2)
  <2>1. ASSUME NEW d \in 1 .. n - 1 PROVE V(d) \subseteq Live(h2)
    BY <1>2, <1>3, <1>4, <1>5, <1>c DEF H
  <2>2. ASSUME NEW d \in n .. n - 1 + m PROVE V(d) \subseteq Live(h2)
    BY <1>6, <1>61
  <2> QED BY <1>2, <2>1, <2>2
<1>9. \A e \in Turns(R) : \A d \in 1 .. e - 1 : V(d) \cap V(e) = {}
  <2>1. ASSUME NEW e \in 1 .. n - 1, NEW d \in 1 .. e - 1 PROVE V(d) \cap V(e) = {}
    <3>1. d \in 1 .. n - 1 /\ d # e
      BY <1>1
    <3>2. U(d) \cap U(e) = {} /\ U(d) \cap Z = {} /\ U(e) \cap Z = {}
      BY <1>2, <1>3, <1>4, <1>c, <3>1 DEF H
    <3> QED BY <1>5, <3>1, <3>2
  <2>2. ASSUME NEW e \in n .. n - 1 + m, NEW d \in 1 .. n - 1 PROVE V(d) \cap V(e) = {}
    <3>1. V(e) \subseteq H \cup fresh /\ V(e) \cap Z = {}
      BY <1>6, <1>61
    <3> QED BY <1>4, <1>5, <1>c, <3>1 DEF H
  <2>3. ASSUME NEW e \in n .. n - 1 + m, NEW d \in n .. e - 1 PROVE V(d) \cap V(e) = {}
    <3>1. d \in n .. n - 1 + m
      BY <1>1
    <3>2. PICK a \in 1 .. m : a = n + m - d /\ V(d) = Y(a)
      BY <1>6, <3>1
    <3>3. PICK b \in 1 .. m : b = n + m - e /\ V(e) = Y(b)
      BY <1>6
    <3>4. b \in 1 .. a - 1
      BY <1>1, <3>2, <3>3
    <3>5. Y(b) \cap Y(a) = {}
      BY <1>61, <3>4
    <3> QED BY <3>2, <3>3, <3>5
  <2>4. SUFFICES ASSUME NEW e \in Turns(R), NEW d \in 1 .. e - 1 PROVE V(d) \cap V(e) = {}
    OBVIOUS
  <2>5. e \in 1 .. n - 1 \/ (e \in n .. n - 1 + m /\ d \in 1 .. n - 1)
          \/ (e \in n .. n - 1 + m /\ d \in n .. e - 1)
    BY <1>1, <1>2
  <2> QED BY <2>1, <2>2, <2>3, <2>5
<1>10. ASSUME NEW i \in Live(h2) PROVE Dropped(h2, k2, i) \/ \E d \in Turns(R) : i \in V(d)
  <2>1. CASE i \in H \cup fresh
    <3>1. Dropped(h2, k2, i) \/ i \in Z \/ \E a \in 1 .. m : i \in Y(a)
      BY <1>d, <2>1 DEF Y, H
    <3>2. i \in Z => i \in V(z) /\ z \in Turns(R)
      BY <1>1, <1>2, <1>5, <1>a
    <3>3. \A a \in 1 .. m : V(n + m - a) = Y(a) /\ n + m - a \in Turns(R)
      BY <1>1, <1>2 DEF V, Y
    <3> QED BY <3>1, <3>2, <3>3
  <2>2. CASE i \notin H \cup fresh
    <3>1. i \in Live(h)
      BY <1>c, <2>2
    <3>2. Dropped(h, k, i) \/ \E d \in Turns(t) : i \in U(d)
      BY <1>p, <3>1 DEF TrustOk, U
    <3>3. \A d \in Turns(t) : i \in U(d) => d \in 1 .. n - 1
      <4>1. \A d \in Turns(t) : d = n \/ d \in 1 .. n - 1
        BY <1>1
      <4> QED BY <1>2, <2>2, <4>1
    <3> QED BY <1>2, <1>5, <1>c, <3>1, <3>2, <3>3
  <2> QED BY <2>1, <2>2
<1>11. ASSUME NEW d \in Turns(R), NEW i \in DOMAIN h2, Whole(h2, g2, k2, s2, At(R, d), i),
              NEW j \in Over(h2, i)
       PROVE  \E e \in 1 .. d : Whole(h2, g2, k2, s2, At(R, e), j)
  <2>1. CASE d \in 1 .. n - 1 /\ i \in U(d)
    <3>1. i \in DOMAIN h
      BY <1>2, <1>3, <2>1 DEF Live
    <3>2. Over(h2, i) = Over(h, i) /\ h2[i].kind = h[i].kind /\ Over(h, i) \subseteq DOMAIN h
      BY <1>p, <3>1, StableFacts, ObjectFacts DEF Stable
    <3>3. Whole(h, g, k, s, At(t, d), i)
      <4>1. At(R, d) = At(t, d)
        BY <1>1, <2>1
      <4>2. i \in Trust(h, g, k, s, At(t, d))
        BY <2>1 DEF U
      <4> QED BY <1>11, <3>2, <4>1, <4>2 DEF Whole
    <3>4. PICK e \in 1 .. d : Whole(h, g, k, s, At(t, e), j)
      BY <1>2, <1>p, <1>11, <2>1, <3>1, <3>2, <3>3 DEF TrustOk
    <3>5. e \in 1 .. n - 1
      BY <1>1, <2>1
    <3> QED BY <1>7, <1>11, <3>2, <3>4, <3>5
  <2>2. CASE d \in 1 .. n - 1 /\ i \notin U(d)
    <3>1. d = z /\ i \in Z
      BY <1>5, <1>11, <2>2 DEF Whole, V
    <3>2. PICK e \in 1 .. z : Whole(h2, g2, k2, s2, At(t, e), j)
      BY <1>11, <1>f, <3>1
    <3>3. e \in 1 .. n - 1 /\ e \in 1 .. d
      BY <1>1, <1>a, <3>1
    <3> QED BY <1>1, <3>2, <3>3
  <2>3. CASE d \in n .. n - 1 + m
    <3>1. n + m - d \in 1 .. m /\ At(R, d) = q[n + m - d]
      BY <1>1, <2>3
    <3>2. \/ \E e \in 1 .. n - 1 : Whole(h2, g2, k2, s2, At(t, e), j)
          \/ \E b \in n + m - d .. m : Whole(h2, g2, k2, s2, q[b], j)
      BY <1>11, <1>e, <3>1
    <3>3. ASSUME NEW e \in 1 .. n - 1, Whole(h2, g2, k2, s2, At(t, e), j)
          PROVE \E f \in 1 .. d : Whole(h2, g2, k2, s2, At(R, f), j)
      <4>1. e \in 1 .. d
        BY <1>1, <2>3
      <4> QED BY <1>1, <3>3, <4>1
    <3>5. ASSUME NEW b \in n + m - d .. m, Whole(h2, g2, k2, s2, q[b], j)
          PROVE \E f \in 1 .. d : Whole(h2, g2, k2, s2, At(R, f), j)
      <4>1. b \in 1 .. m /\ n + m - b \in 1 .. d
        BY <1>1, <2>3, <3>1
      <4>2. At(R, n + m - b) = q[b]
        BY <1>1, <4>1
      <4> QED BY <3>5, <4>1, <4>2
    <3> QED BY <3>2, <3>3, <3>5
  <2> QED BY <1>2, <2>1, <2>2, <2>3
<1> QED BY <1>8, <1>9, <1>10, <1>11 DEF TrustOk, V

----------------------------------------------------------------------------
(* Calls that stay as they are *)

\* What the loader of a game is.
LEMMA LoaderFacts ==
  ASSUME NEW h, HeapOk(h), NEW g, GamesOk(h, g), NEW l \in Loaders(g)
  PROVE  /\ l \in DOMAIN h /\ h[l].kind = "loader" /\ l # None
         /\ h[l].dir \in DOMAIN h /\ h[h[l].dir].kind = "pfs" /\ h[h[l].dir].dir = None
         /\ h[h[l].dir].base \in DOMAIN h
         /\ h[l].base # None => /\ h[l].base \in DOMAIN h /\ h[h[l].base].kind = "romfs"
                                /\ h[h[l].base].base = None /\ h[h[l].base].dir = None
         /\ \A n \in Range(h[l].parts) : n \in DOMAIN h /\ h[n].kind = "nca"
<1>1. PICK a \in DOMAIN g : l = g[a].loader /\ l # None
  BY DEF Loaders
<1>2. IsPackageOver(h, l, g[a].file)
  BY <1>1 DEF GamesOk
<1>3. IsLoader(h, l) /\ l \in DOMAIN h /\ h[l].kind = "loader"
  BY <1>2 DEF IsPackageOver, HeapOk
<1>4. h[l].dir \in DOMAIN h /\ (h[l].base # None => h[l].base \in DOMAIN h)
  BY <1>3, ObjectFacts DEF IsLoader
<1>5. h[h[l].dir].base \in DOMAIN h
  BY <1>3, <1>4, ObjectFacts DEF IsLoader, HeapOk, IsLayered
<1>6. \A n \in Range(h[l].parts) : n \in DOMAIN h /\ h[n].kind = "nca"
  BY <1>3, ObjectFacts DEF IsLoader
<1> QED BY <1>1, <1>2, <1>3, <1>4, <1>5, <1>6 DEF IsLoader, IsPackageOver

\* What puts nothing back of an archive's lists
Growing(h, h2, g, g2) ==
  /\ Stable(h, h2) /\ \A i \in DOMAIN h : h[i].kind = "nca" => Items(h, i) \subseteq Items(h2, i)
  /\ Loaders(g) \subseteq Loaders(g2)

\* An object that lies over nothing still does ...
LEMMA AloneStays ==
  ASSUME NEW h, NEW h2, Stable(h, h2), NEW i, NEW kind, IsAlone(h, i, kind)
  PROVE  IsAlone(h2, i, kind)
  BY DEF IsAlone, Stable

\* ... a package is over its file ...
LEMMA PackageOverStays ==
  ASSUME NEW h, HeapOk(h), NEW h2, Stable(h, h2), NEW l, NEW file, IsPackageOver(h, l, file)
  PROVE  IsPackageOver(h2, l, file)
<1>1. l \in DOMAIN h /\ h[l].kind = "loader" /\ h[h[l].dir].base = file /\ h[h[l].dir].dir = None
  BY DEF IsPackageOver
<1>2. h[l].dir \in DOMAIN h
  BY <1>1, ObjectFacts DEF HeapOk, IsLoader
<1> QED BY <1>1, <1>2 DEF IsPackageOver, Stable

\* ... and a file is of its directory, while the heap is stable.
LEMMA FileOfStays ==
  ASSUME NEW h, NEW h2, Stable(h, h2), NEW x \in DOMAIN h, NEW dir \in DOMAIN h, IsFileOf(h, x, dir)
  PROVE  IsFileOf(h2, x, dir)
<1>1. /\ h2[x].kind = h[x].kind /\ h2[x].base = h[x].base /\ h2[x].dir = h[x].dir
      /\ h2[dir].kind = h[dir].kind /\ h2[dir].base = h[dir].base
  BY DEF Stable
<1> QED BY <1>1 DEF IsFileOf

\* The arguments of a call stay what they are.
LEMMA CallStays ==
  ASSUME NEW ses, NEW h, HeapOk(h), NEW g, GamesOk(h, g), NEW h2, NEW g2, Growing(h, h2, g, g2),
         NEW c, IsCall(ses, h, g, c)
  PROVE  IsCall(ses, h2, g2, c)
<1>1. Stable(h, h2) /\ DOMAIN h \subseteq DOMAIN h2 /\ Loaders(g) \subseteq Loaders(g2)
  BY DEF Growing, Stable
<1>2. ASSUME NEW i \in DOMAIN h PROVE h2[i].kind = h[i].kind /\ h2[i].base = h[i].base
             /\ h2[i].dir = h[i].dir
  BY <1>1 DEF Stable
<1>3. c.op \in Ops
  BY DEF IsCall
<1>4. CASE c.op \in {"hos_create", "nx_get_all_loaders", "nx_load_first_one", "logos",
           "nx_sys_destroy", "hos_disable"}
  BY <1>4 DEF IsCall, OpsOfPackages
<1>5. CASE c.op \in {"free", "dir_close_file", "find_keys", "load_game", "nsp", "nsz",
           "list_push", "content_archive_destroy",
                     "close_archive", "hos_firmware_load", "loader_get_logo", "destroy_package",
                     "get_file", "service"}
  BY <1>1, <1>2, <1>3, <1>5 DEF IsCall, OpsOfPackages
<1>6. CASE c.op \in OpsOfPackages
  <2>1. c.owner \in Loaders(g)
    BY <1>6 DEF IsCall
  <2>2. c.owner \in DOMAIN h
    BY <2>1, LoaderFacts
  <2> QED BY <1>1, <1>2, <1>3, <1>6, <2>1, <2>2 DEF IsCall, OpsOfPackages
<1>7. CASE c.op \in {"dir_close", "keys_db_add_ticket"}
  BY <1>1, <1>2, <1>3, <1>7, AloneStays DEF IsCall, OpsOfPackages
<1>8. CASE c.op = "content_archive_create"
  <2>1. c.owner # None => c.owner \in DOMAIN h
    BY <1>8, LoaderFacts DEF IsCall
  <2> QED BY <1>1, <1>2, <1>3, <1>8, <2>1 DEF IsCall, OpsOfPackages
<1>9. CASE c.op = "destroy_file"
  <2>1. c.dir \in DOMAIN h /\ h[c.dir].kind = "nca" /\ c.x \in Items(h, c.dir)
    BY <1>9 DEF IsCall
  <2>2. c.x \in Items(h2, c.dir)
    BY <2>1 DEF Growing
  <2> QED BY <1>1, <1>2, <1>3, <1>9, <2>1, <2>2 DEF IsCall, OpsOfPackages
<1>10. CASE c.op = "close_wrapped"
  <2>1. c.dir \in DOMAIN h /\ c.x \in DOMAIN h /\ h[c.x].kind = "aes"
          /\ IsFileOf(h, h[c.x].base, c.dir)
    BY <1>10 DEF IsCall
  <2>2. h[c.x].base \in DOMAIN h
    BY <2>1, ObjectFacts DEF HeapOk, IsLayered
  <2>3. IsFileOf(h2, h2[c.x].base, c.dir)
    BY <1>1, <1>2, <2>1, <2>2, FileOfStays
  <2> QED BY <1>1, <1>2, <1>3, <1>10, <2>1, <2>3 DEF IsCall, OpsOfPackages
<1>11. CASE c.op = "close_file"
  <2>1. c.dir \in DOMAIN h /\ c.x \in DOMAIN h /\ IsFileOf(h, c.x, c.dir)
    BY <1>11 DEF IsCall
  <2>2. IsFileOf(h2, c.x, c.dir)
    BY <1>1, <2>1, FileOfStays
  <2> QED BY <1>1, <1>3, <1>11, <2>1, <2>2 DEF IsCall, OpsOfPackages
<1>12. CASE c.op = "loader_destroy"
  <2>1. c.dir \in DOMAIN h /\ c.x \in DOMAIN h /\ IsAlone(h, c.dir, "map")
          /\ IsPackageOver(h, c.x, c.dir)
    BY <1>12 DEF IsCall
  <2>2. IsAlone(h2, c.dir, "map") /\ IsPackageOver(h2, c.x, c.dir)
    BY <1>1, <2>1, AloneStays, PackageOverStays
  <2> QED BY <1>1, <1>3, <1>12, <2>1, <2>2 DEF IsCall, OpsOfPackages
<1> QED BY <1>3, <1>4, <1>5, <1>6, <1>7, <1>8, <1>9, <1>10, <1>11, <1>12 DEF Ops

\* What the calls that stay are trusted with is no less.
Trusting(t, h, g, k, s, h2, g2, k2, s2, n) ==
  /\ Stable(h, h2)
  /\ \A d \in 1 .. n - 1 : Trust(h, g, k, s, At(t, d)) \subseteq Trust(h2, g2, k2, s2, At(t, d))

\* What is wholly trusted to a call is live.
LEMMA WholeIn ==
  ASSUME NEW t, NEW h, NEW g, NEW k, NEW s, TrustOk(t, h, g, k, s), NEW d \in Turns(t), NEW i,
         Whole(h, g, k, s, At(t, d), i)
  PROVE  i \in Live(h) /\ i \in DOMAIN h
  BY DEF TrustOk, Live, Whole

\* A call is in its place if no less is assured and no fewer calls follow.
LEMMA PlacedStays ==
  ASSUME NEW h, NEW g, NEW k, NEW s, NEW h2, NEW g2, NEW k2, NEW s2, NEW c, NEW C, NEW D,
         \A i : Assured(h, g, k, s, C, i) => Assured(h2, g2, k2, s2, D, i), C \subseteq D,
         IsPlaced(h, g, k, s, c, C)
  PROVE  IsPlaced(h2, g2, k2, s2, c, D)
<1>1. \A op : Later(C, op) => Later(D, op)
  BY DEF Later
<1>2. c.op \in {"get_file", "service"} =>
        \E b \in D : b.op \in {"list_push", "content_archive_destroy"} /\ b.x = c.nca
  BY DEF IsPlaced
<1>3. c.op = "close_wrapped" => Call("free", c.x) \in D
  BY DEF IsPlaced
<1> QED BY <1>1, <1>2, <1>3 DEF IsPlaced

\* What is assured by the calls that stay
LEMMA Onward ==
  ASSUME NEW t, NEW h, NEW g, NEW k, NEW s, TrustOk(t, h, g, k, s), NEW n \in Turns(t),
         NEW c \in 1 .. n,
         NEW h2, NEW g2, NEW k2, NEW s2, Trusting(t, h, g, k, s, h2, g2, k2, s2, n),
         NEW i, Assured(h, g, k, s, After(t, c), i)
  PROVE  Assured(h2, g2, k2, s2, After(t, c), i)
<1>1. PICK e \in 1 .. c - 1 : Whole(h, g, k, s, At(t, e), i)
  BY DEF Assured, After
<1>2. e \in 1 .. n - 1 /\ e \in Turns(t)
  BY SMT DEF Turns
<1>3. i \in DOMAIN h
  BY <1>1, <1>2, WholeIn
<1>4. Whole(h2, g2, k2, s2, At(t, e), i)
  BY <1>1, <1>2, <1>3, WholeStays DEF Trusting
<1> QED BY <1>4 DEF Assured, After

\* The levels of the new calls: no lower than that of the call made, and falling
Rises(c, q) == \A a \in DOMAIN q : Level(q[a].op) # 0 => Level(c.op) # 0
  /\ Level(c.op) <= Level(q[a].op)

\* No call of q is below the level of c, and none twice that may be there once.
Falling(c, q) ==
  /\ Rises(c, q)
  /\ \A b \in DOMAIN q : \A a \in 1 .. b - 1 : Above(q[b].op, q[a].op)

\* The levels are the numbers to eleven.
LEMMA LevelFacts ==
  ASSUME NEW op
  PROVE  Level(op) \in 0 .. 11
<1>1. Level(op) \in {0, 1, 2, 3, 4, 5, 6, 7, 8, 9, 10, 11}
  BY Zenon DEF Level
<1> QED BY <1>1

\* Calls that are put first, none below the level of the one made, are in order.
LEMMA OrderStays ==
  ASSUME NEW t, NEW q, NEW R, NEW n, NEW m, Puts(t, q, R, n, m), IsSequence(q), m = Len(q),
         InOrder(t), Falling(Head(t), q)
  PROVE  InOrder(R)
<1>1. SUFFICES ASSUME NEW e \in Turns(R), NEW d \in 1 .. e - 1 PROVE Above(At(R, d).op, At(R, e).op)
  BY DEF InOrder
<1>2. /\ n \in Nat \ {0} /\ m \in Nat /\ At(t, n) = Head(t) /\ Turns(t) = 1 .. n
      /\ Turns(R) = 1 .. n - 1 + m
      /\ \A f \in 1 .. n - 1 : At(R, f) = At(t, f)
      /\ \A f \in n .. n - 1 + m : n + m - f \in 1 .. m /\ At(R, f) = q[n + m - f]
  BY DEF Puts
<1>3. CASE e \in 1 .. n - 1
  <2>1. e \in Turns(t) /\ At(R, e) = At(t, e) /\ At(R, d) = At(t, d)
    BY <1>2, <1>3
  <2> QED BY <2>1 DEF InOrder
<1>4. DOMAIN q = 1 .. m
  BY SequenceIs
<1>5. CASE e \in n .. n - 1 + m /\ d \in 1 .. n - 1
  <2>1. PICK a \in 1 .. m : At(R, e) = q[a]
    BY <1>2, <1>5
  <2>2. Above(At(t, d).op, Head(t).op) /\ At(R, d) = At(t, d)
    <3>1. n \in Turns(t) /\ d \in 1 .. n - 1
      BY <1>2, <1>5
    <3> QED BY <1>2, <3>1 DEF InOrder
  <2>3. Level(q[a].op) # 0 => Level(Head(t).op) # 0 /\ Level(Head(t).op) <= Level(q[a].op)
    BY <1>4 DEF Falling, Rises
  <2>4. Level(q[a].op) \in 0 .. 11 /\ Level(Head(t).op) \in 0 .. 11
          /\ Level(At(t, d).op) \in 0 .. 11
    BY LevelFacts
  <2> HIDE DEF Level
  <2> QED BY <2>1, <2>2, <2>3, <2>4 DEF Above
<1>6. CASE e \in n .. n - 1 + m /\ d \in n .. e - 1
  <2>1. PICK a \in 1 .. m : a = n + m - e /\ At(R, e) = q[a]
    BY <1>2, <1>6
  <2>2. PICK b \in 1 .. m : b = n + m - d /\ At(R, d) = q[b]
    <3>1. d \in n .. n - 1 + m
      BY <1>2, <1>6
    <3> QED BY <1>2, <3>1
  <2>3. a \in 1 .. b - 1
    BY <1>2, <2>1, <2>2
  <2> QED BY <1>4, <2>1, <2>2, <2>3 DEF Falling
<1> QED BY <1>2, <1>3, <1>5, <1>6

\* The calls after a step
LEMMA CallsBy ==
  ASSUME NEW ses, NEW t, NEW h, NEW g, NEW k, NEW s, NEW q, NEW R, NEW n, NEW m,
         Making(t, h, g, k, s, q, R, n, m),
         GamesOk(h, g), CallsOk(ses, t, h, g, k, s),
         NEW h2, NEW g2, NEW k2, NEW s2, Trusting(t, h, g, k, s, h2, g2, k2, s2, n),
         Growing(h, h2, g, g2),
         \A d \in 1 .. n - 1 : IsReady(h2, k2, At(t, d)),
         Takes(ses, h2, g2, k2, s2, After(t, n), q), Rises(Head(t), q), Opening(R, g2), Apart(R),
         Serving(R, h2)
  PROVE  CallsOk(ses, R, h2, g2, k2, s2)
<1>1. Puts(t, q, R, n, m)
  BY MakingPuts
<1>2. ASSUME NEW d \in Turns(R)
      PROVE  IsCall(ses, h2, g2, At(R, d)) /\ IsReady(h2, k2, At(R, d))
             /\ IsPlaced(h2, g2, k2, s2, At(R, d), After(R, d))
  <2>1. CASE d \in 1 .. n - 1
    <3>1. /\ d \in Turns(t) /\ At(R, d) = At(t, d) /\ n \in Turns(t) /\ d \in 1 .. n
          /\ \A e \in 1 .. d - 1 : At(R, e) = At(t, e)
      BY <1>1, <2>1 DEF Puts
    <3>2. IsCall(ses, h, g, At(t, d)) /\ IsPlaced(h, g, k, s, At(t, d), After(t, d))
      BY <3>1 DEF CallsOk
    <3>3. IsCall(ses, h2, g2, At(t, d))
      BY <3>2, CallStays DEF Making
    <3>4. After(R, d) = After(t, d)
      BY <3>1 DEF After
    <3>5. \A i : Assured(h, g, k, s, After(t, d), i) => Assured(h2, g2, k2, s2, After(t, d), i)
      BY <3>1, Onward DEF Making
    <3>6. IsPlaced(h2, g2, k2, s2, At(t, d), After(t, d))
      BY ONLY <3>2, <3>5, PlacedStays
    <3> QED BY <2>1, <3>1, <3>3, <3>4, <3>6
  <2>2. CASE d \in n .. n - 1 + m
    <3>1. PICK a \in 1 .. m : a = n + m - d /\ At(R, d) = q[a]
      BY <1>1, <2>2 DEF Puts
    <3>2. After(R, d) = After(t, n) \cup { q[b] : b \in a + 1 .. m }
      <4>0. /\ n \in Nat \ {0} /\ m \in Nat /\ d = n + m - a
            /\ \A e \in 1 .. n - 1 : At(R, e) = At(t, e)
            /\ \A b \in 1 .. m : At(R, n + m - b) = q[b]
            /\ \A e \in n .. n - 1 + m : n + m - e \in 1 .. m /\ At(R, e) = q[n + m - e]
        BY <1>1, <3>1 DEF Puts
      <4>1. ASSUME NEW e \in 1 .. d - 1 PROVE At(R, e) \in After(t,
                   n) \cup { q[b] : b \in a + 1 .. m }
        <5>1. CASE e \in 1 .. n - 1
          BY <4>0, <5>1 DEF After
        <5>2. CASE e \notin 1 .. n - 1
          <6>1. e \in n .. n - 1 + m /\ n + m - e \in a + 1 .. m
            BY <4>0, <5>2
          <6>2. PICK b \in a + 1 .. m : b = n + m - e
            BY <6>1
          <6>3. At(R, e) = q[b]
            BY <4>0, <6>1, <6>2
          <6> QED BY <6>3
        <5> QED BY <5>1, <5>2
      <4>2. ASSUME NEW e \in 1 .. n - 1 PROVE At(t, e) \in After(R, d)
        <5>1. e \in 1 .. d - 1 /\ At(R, e) = At(t, e)
          BY <4>0
        <5> QED BY <5>1 DEF After
      <4>3. ASSUME NEW b \in a + 1 .. m PROVE q[b] \in After(R, d)
        <5>1. n + m - b \in 1 .. d - 1 /\ b \in 1 .. m
          BY <4>0
        <5>2. PICK e \in 1 .. d - 1 : e = n + m - b
          BY <5>1
        <5>3. At(R, e) = q[b]
          BY <4>0, <5>1, <5>2
        <5> QED BY <5>3 DEF After
      <4>4. After(R, d) \subseteq After(t, n) \cup { q[b] : b \in a + 1 .. m }
        BY <4>1 DEF After
      <4>5. After(t, n) \subseteq After(R, d)
        BY <4>2 DEF After
      <4> QED BY <4>3, <4>4, <4>5
    <3>3. DOMAIN q = 1 .. m /\ m = Len(q)
      BY SequenceIs DEF Making
    <3> QED BY <3>1, <3>2, <3>3 DEF Takes
  <2> QED BY <1>1, <2>1, <2>2 DEF Puts
<1>3. InOrder(R) /\ IsSequence(R)
  <2>1. InOrder(t) /\ IsSequence(q) /\ m = Len(q) /\ IsSequence(R)
    BY <1>1 DEF CallsOk, Making, Puts
  <2>2. Falling(Head(t), q)
    BY DEF Falling, Takes
  <2>3. InOrder(R)
    BY ONLY <1>1, <2>1, <2>2, OrderStays
  <2> QED BY <2>1, <2>3
<1> QED BY <1>2, <1>3 DEF CallsOk

\* What most steps do to the objects that were there: nothing that calls still to be made
\* ask for changes.
Frame(h, h2) ==
  /\ Steady(h, h2)
  /\ \A i \in DOMAIN h : h[i].kind = "romfs" => h2[i].parts = h[i].parts
  /\ \A o \in DOMAIN h2 \ DOMAIN h : Owned(h2, o) \cap DOMAIN h = {}

\* A frame is a case of growing.
LEMMA FrameGrowing ==
  ASSUME NEW h, HeapOk(h), NEW h2, Frame(h, h2), NEW g
  PROVE  Growing(h, h2, g, g)
  BY SteadyFacts DEF Frame, Growing, Steady

\* A directory whose list is the same holds the same files.
LEMMA HeldStays ==
  ASSUME NEW h, HeapOk(h), NEW h2, Stable(h, h2), NEW dir \in DOMAIN h,
         h2[dir].parts = h[dir].parts, NEW name
  PROVE  HeldIn(h2, dir, name) = HeldIn(h, dir, name)
<1>1. Range(h[dir].parts) \subseteq DOMAIN h
  BY ObjectFacts
<1> QED BY <1>1 DEF HeldIn, Stable

\* In a frame what nobody owned has no owner yet.
LEMMA UnownedStays ==
  ASSUME NEW h, HeapOk(h), NEW h2, Frame(h, h2), NEW i \in DOMAIN h, Unowned(h, i)
  PROVE  Unowned(h2, i)
<1>1. SUFFICES ASSUME NEW o \in DOMAIN h2 PROVE i \notin Owned(h2, o)
  BY DEF Unowned
<1>2. CASE o \in DOMAIN h
  BY <1>2, SteadyFacts DEF Frame, Unowned
<1>3. CASE o \notin DOMAIN h
  BY <1>3 DEF Frame
<1> QED BY <1>2, <1>3

\* The files a call asks a directory for are the same.
SameHeld(h, h2, c) ==
  /\ c.op = "content_archive_create" /\ h[c.dir].kind = "romfs"
       => HeldIn(h2, c.dir, c.e.name) = HeldIn(h, c.dir, c.e.name)
  /\ c.op = "nsz_addfile" /\ c.e.kind \in {"nca", "ncz"} =>
       HeldIn(h2, h[c.owner].base, c.e.name) = HeldIn(h, h[c.owner].base, c.e.name)

\* What a call asks of the heap is the same.
SameAsked(h, h2, g, k, s, c) == SameHeld(h, h2, c)
  /\ \A i \in Trust(h, g, k, s, c) \cap DOMAIN h : Unowned(h, i) => Unowned(h2, i)

\* In a frame what a call looks for in a directory is the same.
LEMMA FrameHeld ==
  ASSUME NEW ses, NEW h, HeapOk(h), NEW g, GamesOk(h, g), NEW h2, Frame(h, h2), NEW c,
         IsCall(ses, h, g, c)
  PROVE  SameHeld(h, h2, c)
<1>1. Stable(h, h2)
  BY DEF Frame, Steady
<1>2. ASSUME c.op = "content_archive_create", h[c.dir].kind = "romfs"
      PROVE  HeldIn(h2, c.dir, c.e.name) = HeldIn(h, c.dir, c.e.name)
  <2>1. c.dir \in DOMAIN h
    BY <1>2 DEF IsCall
  <2> QED BY <1>1, <1>2, <2>1, HeldStays DEF Frame
<1>3. ASSUME c.op = "nsz_addfile"
      PROVE  HeldIn(h2, h[c.owner].base, c.e.name) = HeldIn(h, h[c.owner].base, c.e.name)
  <2>1. c.owner \in Loaders(g) /\ h[c.owner].base # None
    BY <1>3 DEF IsCall, OpsOfPackages
  <2>2. h[c.owner].base \in DOMAIN h /\ h[h[c.owner].base].kind = "romfs"
    BY <2>1, LoaderFacts
  <2> QED BY <1>1, <2>2, HeldStays DEF Frame
<1> QED BY <1>2, <1>3 DEF SameHeld

\* While lists are steady, a game is what it was.
LEMMA GameStays ==
  ASSUME NEW h, HeapOk(h), NEW g, GamesOk(h, g), NEW h2, Steady(h, h2), NEW a \in DOMAIN g
  PROVE  Game(h2, g[a]) = Game(h, g[a])
<1>1. g[a].loader # None => g[a].loader \in DOMAIN h /\ h[g[a].loader].kind = "loader"
  BY DEF GamesOk, IsPackageOver
<1>2. g[a].loader # None => Package(h2, g[a].loader) = Package(h, g[a].loader)
  BY <1>1, SteadyFacts
<1> QED BY <1>2 DEF Game

\* What a call is trusted with
LEMMA TrustHeld ==
  ASSUME NEW ses, NEW h, HeapOk(h), NEW g, NEW k, NEW s, GamesOk(h, g), NEW h2, NEW g2, NEW k2,
         NEW s2, Steady(h, h2),
         NEW c, IsCall(ses, h, g, c), SameHeld(h, h2, c),
         c.op = "nx_sys_destroy" => g2 = g /\ k2 = k, c.op = "hos_disable" => s2 = s
  PROVE  Trust(h2, g2, k2, s2, c) = Trust(h, g, k, s, c)
<1>1. Steady(h, h2) /\ Stable(h, h2)
  BY DEF Steady
<1>2. ASSUME NEW i \in DOMAIN h PROVE h2[i].kind = h[i].kind /\ h2[i].base = h[i].base
             /\ h2[i].dir = h[i].dir
  BY <1>1 DEF Stable
<1>3. CASE c.op \in {"free", "dir_close_file", "dir_close", "keys_db_add_ticket", "close_file",
           "destroy_file", "hos_disable"}
  BY <1>3 DEF Trust
<1>4. CASE c.op = "content_archive_create"
  <2>1. c.dir \in DOMAIN h
    BY <1>4 DEF IsCall
  <2>2. h[c.dir].kind = "romfs" => HeldIn(h2, c.dir, c.e.name) = HeldIn(h, c.dir, c.e.name)
    BY <1>4 DEF SameHeld
  <2> QED BY <1>2, <1>4, <2>1, <2>2 DEF Trust
<1>5. CASE c.op \in {"list_push", "content_archive_destroy"}
  <2>1. c.x \in DOMAIN h
    BY <1>5 DEF IsCall
  <2>2. Archive(h2, c.x) = Archive(h, c.x)
    BY <1>1, <2>1, SteadyFacts
  <2> QED BY <1>5, <2>2 DEF Trust
<1>6. CASE c.op = "close_archive"
  <2>1. c.x \in DOMAIN h /\ h[c.x].kind = "nca"
    BY <1>6 DEF IsCall
  <2>2. Below(h2, c.x) = Below(h, c.x)
    BY <1>1, <2>1, StableFacts
  <2> QED BY <1>2, <1>6, <2>1, <2>2 DEF Trust
<1>7. CASE c.op \in {"close_wrapped", "destroy_package"}
  <2>1. c.x \in DOMAIN h
    BY <1>7 DEF IsCall
  <2> QED BY <1>2, <1>7, <2>1 DEF Trust
<1>8. CASE c.op = "loader_destroy"
  <2>1. c.x \in DOMAIN h /\ h[c.x].kind = "loader"
    BY <1>8 DEF IsCall, IsPackageOver
  <2>2. Package(h2, c.x) = Package(h, c.x)
    BY <1>1, <2>1, SteadyFacts
  <2> QED BY <1>8, <2>2 DEF Trust
<1>9. CASE c.op = "nx_sys_destroy"
  <2>1. \A a \in DOMAIN g : Game(h2, g[a]) = Game(h, g[a])
    BY <1>1, GameStays
  <2> QED BY <1>9, <2>1 DEF Trust
<1>10. CASE c.op \notin {"free", "dir_close_file", "dir_close", "keys_db_add_ticket",
            "close_file", "destroy_file", "hos_disable",
                         "content_archive_create", "list_push", "content_archive_destroy",
                         "close_archive", "close_wrapped",
                         "destroy_package", "loader_destroy", "nx_sys_destroy"}
  BY <1>10 DEF Trust
<1> QED BY <1>3, <1>4, <1>5, <1>6, <1>7, <1>8, <1>9, <1>10

\* In a frame every call is trusted with what it was.
LEMMA TrustStays ==
  ASSUME NEW ses, NEW h, HeapOk(h), NEW g, NEW k, NEW s, GamesOk(h, g), NEW h2, NEW g2, NEW k2,
         NEW s2, Frame(h, h2),
         NEW c, IsCall(ses, h, g, c),
         c.op = "nx_sys_destroy" => g2 = g /\ k2 = k, c.op = "hos_disable" => s2 = s
  PROVE  Trust(h2, g2, k2, s2, c) = Trust(h, g, k, s, c)
<1>1. SameHeld(h, h2, c) /\ Steady(h, h2)
  BY FrameHeld DEF Frame
<1> QED BY <1>1, TrustHeld

\* A call stays ready if what it asks of the heap is the same ...
LEMMA ReadyHeld ==
  ASSUME NEW ses, NEW h, HeapOk(h), NEW g, GamesOk(h, g), NEW h2, Steady(h, h2), NEW k, NEW s,
         NEW k2,
         NEW c, IsCall(ses, h, g, c), IsReady(h, k, c), c.op = "keys_db_add_ticket" => k2 = k,
         SameAsked(h, h2, g, k, s, c)
  PROVE  IsReady(h2, k2, c)
<1>1. Steady(h, h2) /\ Stable(h, h2) /\ SameHeld(h, h2, c)
        /\ \A i \in Trust(h, g, k, s, c) \cap DOMAIN h : Unowned(h, i) => Unowned(h2, i)
  BY DEF SameAsked, Steady
<1>2. ASSUME c.op = "nsz_addfile", c.e.kind \in {"nca", "ncz"}
      PROVE  HeldIn(h2, h2[c.owner].base, c.e.name) = {}
  <2>1. c.owner \in Loaders(g) /\ h[c.owner].base # None
    BY <1>2 DEF IsCall, OpsOfPackages
  <2>2. c.owner \in DOMAIN h /\ h[c.owner].base \in DOMAIN h /\ h[h[c.owner].base].kind = "romfs"
    BY <2>1, LoaderFacts
  <2>3. h2[c.owner].base = h[c.owner].base
    BY <1>1, <2>2 DEF Stable
  <2>4. HeldIn(h, h[c.owner].base, c.e.name) = {}
    BY <1>2 DEF IsReady
  <2> QED BY <1>1, <1>2, <2>3, <2>4 DEF SameHeld
<1>3. ASSUME c.op = "content_archive_create", c.owner # None, h2[c.owner].base # None
      PROVE  \E i \in DOMAIN h2 : HeldIn(h2, c.dir, c.e.name) = {i} /\ Unowned(h2, i)
                                  /\ h2[i].base \in {None, h2[h2[c.owner].dir].base}
  <2>1. c.owner \in Loaders(g)
    BY <1>3 DEF IsCall
  <2>2. c.owner \in DOMAIN h /\ h2[c.owner].base = h[c.owner].base
          /\ h2[c.owner].dir = h[c.owner].dir
    BY <1>1, <2>1, LoaderFacts DEF Stable
  <2>3. c.dir = h[c.owner].base /\ h[c.owner].base # None
    BY <1>3, <2>2 DEF IsCall
  <2>4. PICK i \in DOMAIN h : HeldIn(h, c.dir, c.e.name) = {i} /\ Unowned(h, i)
                              /\ h[i].base \in {None, h[h[c.owner].dir].base}
    BY <1>3, <2>3 DEF IsReady
  <2>5. /\ c.dir \in DOMAIN h /\ h[c.dir].kind = "romfs" /\ h[c.owner].dir \in DOMAIN h
    BY <2>1, <2>3, LoaderFacts
  <2>6. HeldIn(h2, c.dir, c.e.name) = {i}
    BY <1>1, <1>3, <2>4, <2>5 DEF SameHeld
  <2>7. Unowned(h2, i)
    <3>1. i \in Trust(h, g, k, s, c)
      BY <1>3, <2>4, <2>5 DEF Trust
    <3> QED BY <1>1, <2>4, <3>1
  <2>8. i \in DOMAIN h2 /\ h2[i].base = h[i].base
          /\ h2[h[c.owner].dir].base = h[h[c.owner].dir].base
    BY <1>1, <2>5 DEF Stable
  <2> QED BY <2>2, <2>4, <2>6, <2>7, <2>8
<1>4. ASSUME c.op = "list_push" PROVE Unowned(h2, c.x) /\ Grounded(h2, c.dir, c.x)
  <2>1. c.dir \in Loaders(g) /\ c.x \in DOMAIN h
    BY <1>4 DEF IsCall
  <2>2. c.dir \in DOMAIN h /\ h[c.dir].kind = "loader"
    BY <2>1, LoaderFacts
  <2>3. Unowned(h, c.x) /\ Grounded(h, c.dir, c.x)
    BY <1>4 DEF IsReady
  <2>4. Archive(h2, c.x) = Archive(h, c.x)
    BY <1>1, <2>1, SteadyFacts
  <2>5. c.x \in Trust(h, g, k, s, c)
    BY <1>4 DEF Trust, Archive
  <2> QED BY <1>1, <2>1, <2>2, <2>3, <2>4, <2>5, GroundedStays
<1>5. c.op = "keys_db_add_ticket" => \A i \in Range(k2) : i < c.x
  BY DEF IsReady
<1> QED BY <1>2, <1>3, <1>4, <1>5 DEF IsReady

\* ... as it is in a frame.
LEMMA ReadyStays ==
  ASSUME NEW ses, NEW h, HeapOk(h), NEW g, GamesOk(h, g), NEW h2, Frame(h, h2), NEW k, NEW k2,
         NEW c, IsCall(ses, h, g, c), IsReady(h, k, c), c.op = "keys_db_add_ticket" => k2 = k
  PROVE  IsReady(h2, k2, c)
<1>1. SameHeld(h, h2, c) /\ Steady(h, h2)
  BY FrameHeld DEF Frame
<1>2. PICK s : s = <<>>
  OBVIOUS
<1>3. SameAsked(h, h2, g, k, s, c)
  BY <1>1, UnownedStays DEF SameAsked
<1> QED BY <1>1, <1>3, ReadyHeld

\* A ticket that was dropped stays dropped.
LEMMA DroppedStays ==
  ASSUME NEW h, NEW h2, Stable(h, h2), NEW k, ListOk(h, k, "tik"), NEW i \in DOMAIN h,
         Dropped(h, k, i),
         NEW k2, Range(k) \subseteq Range(k2)
  PROVE  Dropped(h2, k2, i)
<1>1. PICK j \in Range(k) : j < i /\ h[j].path = h[i].path
  BY DEF Dropped
<1>2. j \in DOMAIN h /\ h[i].kind = "tik"
  BY DEF ListOk, IsAlone, Dropped
<1> QED BY <1>1, <1>2 DEF Dropped, Stable

\* The game being opened stays the last if no calls that open one come or go.
LEMMA OpeningStays ==
  ASSUME NEW t, NEW q, NEW R, NEW n, NEW m, Puts(t, q, R, n, m), NEW g, Opening(t, g),
         Head(t).op \notin {"nsp", "nsz"}, \A a \in 1 .. m : q[a].op \notin {"nsp", "nsz"}
  PROVE  Opening(R, g)
<1>1. ASSUME NEW d \in Turns(t), At(t, d).op \in {"nsp", "nsz"}
      PROVE d \in Turns(R) /\ At(R, d) = At(t, d)
  <2>1. d # n
    BY <1>1 DEF Puts
  <2> QED BY <1>1, <2>1 DEF Puts
<1>2. ASSUME NEW d \in Turns(R), At(R, d).op \in {"nsp", "nsz"}
      PROVE d \in Turns(t) /\ At(R, d) = At(t, d)
  <2>1. d \in 1 .. n - 1 \/ d \in n .. n - 1 + m
    BY DEF Puts
  <2>2. d \notin n .. n - 1 + m
    BY <1>2 DEF Puts
  <2> QED BY <2>1, <2>2 DEF Puts
<1>3. ASSUME NEW a \in DOMAIN g, g[a].loader = None
      PROVE  a = Len(g) /\ \E d \in Turns(R) : At(R, d).op \in {"nsp", "nsz"}
  <2>1. a = Len(g) /\ \E d \in Turns(t) : At(t, d).op \in {"nsp", "nsz"}
    BY <1>3 DEF Opening
  <2> QED BY <1>1, <2>1
<1>4. ASSUME NEW d \in Turns(R), At(R, d).op \in {"nsp", "nsz"}
      PROVE  g # <<>> /\ g[Len(g)].file = At(R, d).dir /\ g[Len(g)].loader = None
  BY <1>2, <1>4 DEF Opening
<1> QED BY <1>3, <1>4 DEF Opening

\* Archives of a package stay different if none is added.
LEMMA ApartStays ==
  ASSUME NEW t, NEW q, NEW R, NEW n, NEW m, Puts(t, q, R, n, m), Apart(t),
         \A a \in 1 .. m : q[a].op # "nsz_addfile"
  PROVE  Apart(R)
<1>1. SUFFICES ASSUME NEW e \in Turns(R), NEW d \in 1 .. e - 1 PROVE Differ(At(R, d), At(R, e))
  BY DEF Apart
<1>2. CASE e \in 1 .. n - 1
  <2>1. e \in Turns(t) /\ At(R, e) = At(t, e) /\ At(R, d) = At(t, d)
    BY <1>2 DEF Puts
  <2> QED BY <2>1 DEF Apart
<1>3. CASE e \in n .. n - 1 + m
  <2>1. At(R, e).op # "nsz_addfile"
    BY <1>3 DEF Puts
  <2> QED BY <2>1 DEF Differ
<1> QED BY <1>2, <1>3 DEF Puts

\* The archive a service needs is there if no call fetches or serves one.
LEMMA ServingStays ==
  ASSUME NEW t, NEW q, NEW R, NEW n, NEW m, Puts(t, q, R, n, m), NEW h, Serving(t, h), NEW ses,
         NEW g,
         \A d \in Turns(t) : IsCall(ses, h, g, At(t, d)),
         NEW h2, \A i \in DOMAIN h : h[i].kind = "nca" /\ h[i].romfs_list # <<>>
           => h2[i].romfs_list # <<>>,
         Head(t).op # "get_file", \A a \in 1 .. m : q[a].op # "service"
  PROVE  Serving(R, h2)
<1>1. SUFFICES ASSUME NEW d \in Turns(R), At(R, d).op = "service", At(R, d).e.svt
               PROVE  h2[At(R, d).nca].romfs_list # <<>> \/
                        \E e \in d + 1 .. Len(R) : At(R, e).op = "get_file"
                          /\ At(R, e).nca = At(R, d).nca
                                                   /\ At(R, e).section.fs = "romfs"
  BY DEF Serving
<1>2. d \in 1 .. n - 1 /\ At(R, d) = At(t, d) /\ d \in Turns(t)
  <2>1. d \notin n .. n - 1 + m
    BY <1>1 DEF Puts
  <2> QED BY <2>1 DEF Puts
<1>3. At(t, d).nca \in DOMAIN h /\ h[At(t, d).nca].kind = "nca"
  BY <1>1, <1>2 DEF IsCall
<1>4. \/ h[At(t, d).nca].romfs_list # <<>>
      \/ \E e \in d + 1 .. Len(t) : At(t, e).op = "get_file" /\ At(t, e).nca = At(t, d).nca
           /\ At(t, e).section.fs = "romfs"
  BY <1>1, <1>2 DEF Serving
<1>5. CASE h[At(t, d).nca].romfs_list # <<>>
  BY <1>2, <1>3, <1>5
<1>6. ASSUME NEW e \in d + 1 .. Len(t), At(t, e).op = "get_file", At(t, e).nca = At(t, d).nca,
             At(t, e).section.fs = "romfs"
      PROVE  \E f \in d + 1 .. Len(R) : At(R, f).op = "get_file" /\ At(R, f).nca = At(R, d).nca
                                        /\ At(R, f).section.fs = "romfs"
  <2>1. e # n
    BY <1>6 DEF Puts
  <2>2. Len(t) = n
    <3>1. Turns(t) = 1 .. n /\ n \in Turns(t)
      BY DEF Puts
    <3>2. e \in Nat /\ d \in Nat
      BY <1>2, <1>6 DEF Puts
    <3>3. CASE Len(t) \in Nat
      BY <3>1, <3>3 DEF Turns, Puts
    <3> QED BY <3>1, <3>3
  <2>3. e \in 1 .. n - 1 /\ e \in d + 1 .. Len(R)
    BY <1>2, <1>6, <2>1, <2>2 DEF Puts
  <2> QED BY <1>2, <1>6, <2>3 DEF Puts
<1> QED BY <1>4, <1>5, <1>6

\* Lists of objects that stay what they are
LEMMA ListsStay ==
  ASSUME NEW h, HeapOk(h), NEW h2, Stable(h, h2)
  PROVE  /\ \A g : GamesOk(h, g) => GamesOk(h2, g)
         /\ \A k, kind : ListOk(h, k, kind) => ListOk(h2, k, kind)
<1>1. ASSUME NEW g, GamesOk(h, g) PROVE GamesOk(h2, g)
  <2>1. ASSUME NEW a \in DOMAIN g
        PROVE  /\ IsAlone(h2, g[a].file, "map")
               /\ g[a].loader # None => IsPackageOver(h2, g[a].loader, g[a].file)
    <3>1. IsAlone(h, g[a].file, "map")
            /\ (g[a].loader # None => IsPackageOver(h, g[a].loader, g[a].file))
      BY <1>1 DEF GamesOk
    <3> QED BY <3>1, AloneStays, PackageOverStays
  <2> QED BY <1>1, <2>1 DEF GamesOk
<1>2. ASSUME NEW k, NEW kind, ListOk(h, k, kind) PROVE ListOk(h2, k, kind)
  BY <1>2, AloneStays DEF ListOk
<1> QED BY <1>1, <1>2

\* Calls that open no package and serve no archive
IsQuiet(c, q) ==
  /\ c.op \notin {"nsp", "nsz", "get_file"}
  /\ \A a \in DOMAIN q : q[a].op \notin {"nsp", "nsz", "nsz_addfile", "service"}

\* The four parts of the invariant, of a state given by its parts.
StateOk(ses, t, h, g, k, s) == HeapOk(h) /\ ListsOk(h, g, k, s) /\ CallsOk(ses, t, h, g, k, s)
  /\ TrustOk(t, h, g, k, s)

\* Any step
StepIs(ses, t, h, g, k, s, q, R, n, h2, g2, k2, s2) ==
  /\ StateOk(ses, t, h, g, k, s) /\ t # <<>> /\ R = q \o Tail(t) /\ n = Len(t)
  /\ HeapOk(h2) /\ ListsOk(h2, g2, k2, s2) /\ Growing(h, h2, g, g2)
  /\ Takes(ses, h2, g2, k2, s2, After(t, n), q) /\ Rises(Head(t), q)
  /\ \A b \in After(t, n) : IsReady(h2, k2, b)
  /\ Opening(R, g2) /\ Apart(R) /\ Serving(R, h2)

\* What a step of any kind must show to keep the invariant.
LEMMA AnyStep ==
  ASSUME NEW ses, NEW t, NEW h, NEW g, NEW k, NEW s, NEW q, NEW R, NEW n, NEW h2, NEW g2, NEW k2,
         NEW s2,
         StepIs(ses, t, h, g, k, s, q, R, n, h2, g2, k2, s2),
         NEW fresh, NEW z, NEW Z, Handed(t, h, g, k, s, q, n, h2, g2, k2, s2, fresh, z, Z)
  PROVE  StateOk(ses, R, h2, g2, k2, s2)
<1>0. /\ HeapOk(h2) /\ ListsOk(h2, g2, k2, s2) /\ Growing(h, h2, g, g2) /\ Rises(Head(t), q)
      /\ Takes(ses, h2, g2, k2, s2, After(t, n), q) /\ IsSequence(q)
      /\ \A b \in After(t, n) : IsReady(h2, k2, b)
      /\ Opening(R, g2) /\ Apart(R) /\ Serving(R, h2)
  BY DEF StepIs, Takes
<1>1. HeapOk(h) /\ ListsOk(h, g, k, s) /\ CallsOk(ses, t, h, g, k, s) /\ TrustOk(t, h, g, k, s)
        /\ GamesOk(h, g)
  BY DEF StateOk, ListsOk, StepIs
<1>2. IsSequence(t)
  BY <1>1 DEF CallsOk
<1>m. PICK m : m = Len(q)
  OBVIOUS
<1>3. Making(t, h, g, k, s, q, R, n, m)
  BY <1>0, <1>1, <1>2, <1>m DEF Making, StepIs
<1>4. Stable(h, h2)
  BY <1>0 DEF Growing
<1>5. Trusting(t, h, g, k, s, h2, g2, k2, s2, n)
  BY <1>4 DEF Trusting, Handed
<1>6. \A d \in 1 .. n - 1 : IsReady(h2, k2, At(t, d))
  BY <1>0 DEF After
<1>7. CallsOk(ses, R, h2, g2, k2, s2)
  BY <1>0, <1>1, <1>3, <1>5, <1>6, CallsBy
<1>8. TrustOk(R, h2, g2, k2, s2)
  BY <1>0, <1>3, <1>4, HandOver, Zenon
<1> QED BY <1>0, <1>7, <1>8 DEF StateOk

\* Handed, where the new calls are trusted with all there is to hand over
Passed(t, h, g, k, s, q, h2, fresh) ==
  /\ fresh \cap DOMAIN h = {}
  /\ Live(h) \ Trust(h, g, k, s, Head(t)) \subseteq Live(h2)
  /\ Live(h2) \subseteq Live(h) \cup fresh
  /\ Entrusted(h2, g, k, s, q) \subseteq (Trust(h, g, k, s, Head(t)) \cup fresh) \cap Live(h2)
  /\ \A i \in (Trust(h, g, k, s, Head(t)) \cup fresh) \cap Live(h2) :
       Dropped(h2, k, i) \/ i \in Entrusted(h2, g, k, s, q)

\* A step that leaves the lists alone
FrameIs(ses, t, h, g, k, s, q, R, n, h2, fresh) ==
  /\ StateOk(ses, t, h, g, k, s) /\ t # <<>> /\ R = q \o Tail(t) /\ n = Len(t)
  /\ HeapOk(h2) /\ Frame(h, h2)
  /\ Takes(ses, h2, g, k, s, After(t, n), q) /\ IsQuiet(Head(t), q) /\ Rises(Head(t), q)
  /\ Passed(t, h, g, k, s, q, h2, fresh)

\* The same of a step within a frame, which is less.
LEMMA FrameStep ==
  ASSUME NEW ses, NEW t, NEW h, NEW g, NEW k, NEW s, NEW q, NEW R, NEW n, NEW h2, NEW fresh,
         FrameIs(ses, t, h, g, k, s, q, R, n, h2, fresh)
  PROVE  StateOk(ses, R, h2, g, k, s)
<1>0. /\ HeapOk(h2) /\ Frame(h, h2) /\ IsQuiet(Head(t), q) /\ Rises(Head(t), q)
      /\ IsSequence(q) /\ t # <<>> /\ R = q \o Tail(t) /\ n = Len(t)
      /\ Takes(ses, h2, g, k, s, After(t, n), q) /\ Passed(t, h, g, k, s, q, h2, fresh)
  BY Zenon DEF FrameIs, Takes
<1>1. HeapOk(h) /\ ListsOk(h, g, k, s) /\ CallsOk(ses, t, h, g, k, s) /\ TrustOk(t, h, g, k, s)
        /\ GamesOk(h, g)
  BY DEF StateOk, ListsOk, FrameIs
<1>2. IsSequence(t) /\ \A d \in Turns(t) : IsCall(ses, h, g, At(t, d)) /\ IsReady(h, k, At(t, d))
  BY <1>1 DEF CallsOk
<1>m. PICK m : m = Len(q)
  OBVIOUS
<1>3. Making(t, h, g, k, s, q, R, n, m)
  BY <1>0, <1>1, <1>2, <1>m DEF Making
<1>4. Puts(t, q, R, n, m)
  BY <1>3, MakingPuts
<1>5. Stable(h, h2) /\ Growing(h, h2, g, g)
  BY <1>0, <1>1, FrameGrowing DEF Growing
<1>6. \A d \in 1 .. n - 1 : d \in Turns(t)
  BY <1>4 DEF Puts
<1>7. ASSUME NEW d \in 1 .. n - 1 PROVE Trust(h2, g, k, s, At(t, d)) = Trust(h, g, k, s, At(t, d))
  <2>1. IsCall(ses, h, g, At(t, d))
    BY <1>2, <1>6
  <2> QED BY ONLY <1>0, <1>1, <2>1, TrustStays
<1>9. ASSUME NEW b \in After(t, n) PROVE IsReady(h2, k, b)
  <2>1. IsCall(ses, h, g, b) /\ IsReady(h, k, b)
    BY <1>2, <1>6 DEF After
  <2> QED BY ONLY <1>0, <1>1, <2>1, ReadyStays
<1>10. DOMAIN q = 1 .. m
  BY <1>0, <1>m, SequenceIs
<1>11. Opening(R, g)
  <2>1. Opening(t, g) /\ Head(t).op \notin {"nsp", "nsz"}
          /\ \A a \in 1 .. m : q[a].op \notin {"nsp", "nsz"}
    BY <1>0, <1>1, <1>10 DEF IsQuiet, CallsOk
  <2> QED BY ONLY <1>4, <2>1, OpeningStays
<1>12. Apart(R)
  BY <1>0, <1>1, <1>4, <1>10, ApartStays DEF IsQuiet, CallsOk
<1>13. Serving(R, h2)
  <2>1. Serving(t, h) /\ Head(t).op # "get_file" /\ \A a \in 1 .. m : q[a].op # "service"
    BY <1>0, <1>1, <1>10 DEF IsQuiet, CallsOk
  <2>2. \A i \in DOMAIN h : h[i].kind = "nca" /\ h[i].romfs_list # <<>> => h2[i].romfs_list # <<>>
    BY <1>0 DEF Frame, Steady
  <2>3. \A d \in Turns(t) : IsCall(ses, h, g, At(t, d))
    BY <1>2
  <2> QED BY ONLY <1>4, <2>1, <2>2, <2>3, ServingStays
<1>15. ListsOk(h2, g, k, s)
  BY <1>1, <1>5, ListsStay DEF ListsOk
<1>16. \A i \in Live(h) : Dropped(h, k, i) => Dropped(h2, k, i)
  BY <1>1, <1>5, DroppedStays DEF Live, ListsOk
<1>17. Handed(t, h, g, k, s, q, n, h2, g, k, s, fresh, 0, {})
  <2>1. 0 \in 0 .. n - 1
    BY <1>4 DEF Puts
  <2>2. \A d \in 1 .. n - 1 :
          Trust(h2, g, k, s, At(t, d)) = Trust(h, g, k, s, At(t, d)) \cup IF d = 0 THEN {} ELSE {}
    BY <1>7
  <2>3. /\ fresh \cap DOMAIN h = {}
        /\ Live(h) \ Trust(h, g, k, s, Head(t)) \subseteq Live(h2)
        /\ Live(h2) \subseteq Live(h) \cup fresh
        /\ Entrusted(h2, g, k, s, q) \subseteq (Trust(h, g, k, s, Head(t)) \cup fresh) \cap Live(h2)
        /\ \A i \in (Trust(h, g, k, s, Head(t)) \cup fresh) \cap Live(h2) :
             Dropped(h2, k, i) \/ i \in Entrusted(h2, g, k, s, q)
    BY <1>0 DEF Passed
  <2> QED BY <1>16, <2>1, <2>2, <2>3, Zenon DEF Handed
<1>18. StepIs(ses, t, h, g, k, s, q, R, n, h2, g, k, s)
  BY <1>0, <1>5, <1>9, <1>11, <1>12, <1>13, <1>15 DEF StepIs, FrameIs
<1> QED BY <1>17, <1>18, AnyStep

----------------------------------------------------------------------------
(* The step of a call *)

\* What is known of the call to be made
LEMMA HeadFacts ==
  ASSUME NEW ses, NEW t, NEW h, NEW g, NEW k, NEW s, StateOk(ses, t, h, g, k, s), t # <<>>,
         NEW n, n = Len(t)
  PROVE  /\ n \in Nat \ {0} /\ n \in Turns(t) /\ At(t, n) = Head(t) /\ Turns(t) = 1 .. n
         /\ IsSequence(t)
         /\ IsCall(ses, h, g, Head(t)) /\ IsReady(h, k, Head(t))
         /\ IsPlaced(h, g, k, s, Head(t), After(t, n))
         /\ Trust(h, g, k, s, Head(t)) \subseteq Live(h)
         /\ \A b \in After(t, n) : Above(b.op, Head(t).op) /\ IsCall(ses, h, g, b)
              /\ IsReady(h, k, b)
         /\ \A d \in 1 .. n - 1 : d \in Turns(t) /\ At(t, d) \in After(t, n)
         /\ \A b \in After(t, n) : Trust(h, g, k, s, b) \cap Trust(h, g, k, s, Head(t)) = {}
<1>1. IsSequence(t) /\ CallsOk(ses, t, h, g, k, s) /\ TrustOk(t, h, g, k, s)
  BY DEF StateOk, CallsOk
<1>2. n \in Nat \ {0} /\ At(t, n) = Head(t) /\ Turns(t) = 1 .. n /\ n \in Turns(t)
  <2>1. n \in Nat /\ t \in Seq(Range(t))
    BY <1>1, SequenceIs
  <2>2. n # 0 /\ Head(t) = t[1]
    BY <2>1
  <2> QED BY <2>1, <2>2 DEF Turns, At
<1>3. \A d \in 1 .. n - 1 : d \in Turns(t) /\ At(t, d) \in After(t, n)
  BY <1>2 DEF After
<1>4. \A b \in After(t, n) : \E d \in 1 .. n - 1 : b = At(t, d)
  BY DEF After
<1>5. \A b \in After(t, n) : Above(b.op, Head(t).op) /\ IsCall(ses, h, g, b) /\ IsReady(h, k, b)
  BY <1>1, <1>2, <1>3, <1>4 DEF CallsOk, InOrder
<1>6. \A b \in After(t, n) : Trust(h, g, k, s, b) \cap Trust(h, g, k, s, Head(t)) = {}
  BY <1>1, <1>2, <1>4 DEF TrustOk
<1> QED BY <1>1, <1>2, <1>3, <1>5, <1>6 DEF CallsOk, TrustOk

\* What is assured is open, and the call made does not close it.
LEMMA AssuredFacts ==
  ASSUME NEW ses, NEW t, NEW h, NEW g, NEW k, NEW s, StateOk(ses, t, h, g, k, s), t # <<>>,
         NEW n, n = Len(t), NEW i, Assured(h, g, k, s, After(t, n), i)
  PROVE  /\ i \in DOMAIN h /\ i \in Live(h) /\ i \notin Trust(h, g, k, s, Head(t))
         /\ \A j \in Over(h, i) : Assured(h, g, k, s, After(t, n), j)
         /\ \E d \in Turns(t) : Whole(h, g, k, s, At(t, d), i)
<1>1. n \in Nat \ {0} /\ TrustOk(t, h, g, k, s) /\ Turns(t) = 1 .. n /\ n \in Turns(t)
        /\ At(t, n) = Head(t)
  BY HeadFacts DEF StateOk
<1>2. PICK d \in 1 .. n - 1 : Whole(h, g, k, s, At(t, d), i)
  BY DEF Assured, After
<1>3. d \in Turns(t) /\ d \in 1 .. n - 1
  BY <1>1
<1>4. i \in DOMAIN h /\ i \in Live(h)
  BY <1>1, <1>2, <1>3, WholeIn
<1>5. i \notin Trust(h, g, k, s, Head(t))
  BY <1>1, <1>2, <1>3 DEF TrustOk, Whole
<1>6. ASSUME NEW j \in Over(h, i) PROVE Assured(h, g, k, s, After(t, n), j)
  <2>1. PICK e \in 1 .. d : Whole(h, g, k, s, At(t, e), j)
    BY <1>1, <1>2, <1>3, <1>4 DEF TrustOk
  <2>2. e \in 1 .. n - 1
    BY <1>1
  <2> QED BY <2>1, <2>2 DEF Assured, After
<1> QED BY <1>2, <1>3, <1>4, <1>5, <1>6

\* What the objects the call made is trusted with lie over
LEMMA WholeHead ==
  ASSUME NEW ses, NEW t, NEW h, NEW g, NEW k, NEW s, StateOk(ses, t, h, g, k, s), t # <<>>,
         NEW n, n = Len(t), NEW i, Whole(h, g, k, s, Head(t), i), NEW j \in Over(h, i)
  PROVE  \/ Whole(h, g, k, s, Head(t), j)
         \/ Assured(h, g, k, s, After(t, n), j)
<1>1. n \in Nat \ {0} /\ TrustOk(t, h, g, k, s) /\ Turns(t) = 1 .. n /\ n \in Turns(t)
        /\ At(t, n) = Head(t)
  BY HeadFacts DEF StateOk
<1>2. i \in DOMAIN h
  BY <1>1, WholeIn
<1>3. PICK e \in 1 .. n : Whole(h, g, k, s, At(t, e), j)
  BY <1>1, <1>2 DEF TrustOk
<1>4. CASE e = n
  BY <1>1, <1>3, <1>4
<1>5. CASE e # n
  <2>1. e \in 1 .. n - 1
    BY <1>1, <1>5
  <2> QED BY <1>3, <2>1 DEF Assured, After
<1> QED BY <1>4, <1>5

\* What an object lies over, in any set that holds what its members lie over
LEMMA ChainWithin ==
  ASSUME IsSequence(heap), \A j \in DOMAIN heap : heap[j].base \in 0 .. j - 1,
         NEW S, \A j \in S \cap DOMAIN heap : heap[j].base \in S \cup {None},
         NEW i \in S \cap DOMAIN heap
  PROVE  Chain(i) \subseteq S
<1> DEFINE N == Len(heap)
           c == CHOOSE c : c = [j \in 0 .. N |-> IF j = 0 THEN {} ELSE {j} \cup c[heap[j].base]]
           IsClosed(T) == \A j \in T \ {0} : heap[j].base \in T
           D(j) == { x \in 1 .. N : \A T \in SUBSET (0 .. N) : j \in T /\ IsClosed(T) => x \in T }
           d == [j \in 0 .. N |-> D(j)]
<1>1. N \in Nat /\ DOMAIN heap = 1 .. N
  BY SequenceIs
<1>2. \A j \in 1 .. N : heap[j].base \in 0 .. N /\ heap[j].base < j /\ j \in DOMAIN heap
  BY <1>1
<1>3. d = [j \in 0 .. N |-> IF j = 0 THEN {} ELSE {j} \cup d[heap[j].base]]
  <2>1. D(0) = {}
    <3>1. {0} \in SUBSET (0 .. N) /\ 0 \notin 1 .. N
      BY <1>1
    <3>2. IsClosed({0})
      BY Zenon
    <3> HIDE DEF IsClosed
    <3>3. \A x \in D(0) : x \in {0}
      BY <3>1, <3>2, Zenon
    <3> QED BY <3>1, <3>3
  <2>2. ASSUME NEW j \in 1 .. N PROVE D(j) = {j} \cup D(heap[j].base)
    <3>1. j \in D(j)
      OBVIOUS
    <3>2. D(heap[j].base) \subseteq D(j)
      <4>1. ASSUME NEW T, j \in T, IsClosed(T) PROVE heap[j].base \in T
        BY <4>1
      <4> HIDE DEF IsClosed
      <4> QED BY <4>1
    <3>3. ASSUME NEW x \in D(j), x # j PROVE x \in D(heap[j].base)
      <4>1. SUFFICES ASSUME NEW T \in SUBSET (0 .. N), heap[j].base \in T, IsClosed(T) PROVE x \in T
        OBVIOUS
      <4>2. T \cup {j} \in SUBSET (0 .. N) /\ IsClosed(T \cup {j}) /\ j \in T \cup {j}
        BY <4>1
      <4> HIDE DEF IsClosed
      <4>3. x \in T \cup {j}
        BY <3>3, <4>2
      <4> QED BY <3>3, <4>3
    <3> HIDE DEF D
    <3> QED BY <3>1, <3>2, <3>3
  <2> HIDE DEF D
  <2>3. \A j \in 0 .. N : j # 0 => j \in 1 .. N
    BY <1>1
  <2>4. ASSUME NEW j \in 0 .. N PROVE d[j] = IF j = 0 THEN {} ELSE {j} \cup d[heap[j].base]
    BY <1>2, <2>1, <2>2, <2>3
  <2>5. d = [j \in 0 .. N |-> d[j]]
    OBVIOUS
  <2> HIDE DEF d
  <2> QED BY <2>4, <2>5
<1> HIDE DEF d
<1>4. c = [j \in 0 .. N |-> IF j = 0 THEN {} ELSE {j} \cup c[heap[j].base]]
  BY <1>3
<1>5. Chain(i) = c[i]
  BY DEF Chain
<1> HIDE DEF c
<1>6. c[0] = {} /\ \A j \in 1 .. N : c[j] = {j} \cup c[heap[j].base]
  BY <1>1, <1>4
<1> DEFINE Bad == { j \in 1 .. N : j \in S /\ ~(c[j] \subseteq S) }
<1>7. ASSUME Bad # {} PROVE FALSE
  <2>1. PICK b \in Bad : \A a \in Bad : b <= a
    <3>1. Bad \subseteq Nat
      OBVIOUS
    <3> HIDE DEF Bad
    <3> QED BY <1>7, <3>1, LeastNatural
  <2>2. b \in 1 .. N /\ b \in S /\ ~(c[b] \subseteq S) /\ b \in DOMAIN heap
    BY <1>2, <2>1
  <2>3. heap[b].base \in S \cup {0} /\ heap[b].base < b /\ heap[b].base \in 0 .. N
    BY <1>2, <2>2 DEF None
  <2>4. heap[b].base \notin Bad
    BY <1>1, <2>1, <2>2, <2>3
  <2>5. c[heap[b].base] \subseteq S
    <3>1. CASE heap[b].base = 0
      BY <1>6, <3>1
    <3>2. CASE heap[b].base # 0
      BY <1>1, <2>3, <2>4, <3>2
    <3> QED BY <3>1, <3>2
  <2> QED BY <1>6, <2>2, <2>5
<1> QED BY <1>1, <1>5, <1>7

\* Whatever a call is trusted with can be read.
LEMMA ChainLive ==
  ASSUME NEW t, NEW g, NEW k, NEW s, HeapOk(heap), TrustOk(t, heap, g, k, s),
         NEW d \in Turns(t), NEW i, Whole(heap, g, k, s, At(t, d), i), heap[i].kind # "loader"
  PROVE  Chain(i) \subseteq Live(heap) /\ i \in Live(heap)
<1> DEFINE S == { j \in DOMAIN heap : heap[j].kind # "loader"
      /\ \E e \in Turns(t) : Whole(heap, g, k, s, At(t, e), j) }
<1>1. IsSequence(heap) /\ \A j \in DOMAIN heap : heap[j].base \in 0 .. j - 1
  BY DEF HeapOk, IsObject
<1>2. S \subseteq Live(heap)
  BY WholeIn
<1>3. i \in S
  BY WholeIn
<1>4. ASSUME NEW j \in S PROVE heap[j].base \in S \cup {None}
  <2>1. PICK e \in Turns(t) : Whole(heap, g, k, s, At(t, e), j)
    OBVIOUS
  <2>2. SUFFICES ASSUME heap[j].base # None PROVE heap[j].base \in S
    OBVIOUS
  <2>3. heap[j].base \in Over(heap, j) /\ heap[j].base \in DOMAIN heap
    BY <2>2, ObjectFacts DEF Over
  <2>4. PICK f \in 1 .. e : Whole(heap, g, k, s, At(t, f), heap[j].base)
    BY <2>1, <2>3 DEF TrustOk
  <2>5. f \in Turns(t)
    BY <2>4 DEF Turns
  <2>6. heap[heap[j].base].kind # "loader"
    BY <2>2 DEF HeapOk, IsLayered
  <2> QED BY <2>3, <2>4, <2>5, <2>6
<1>5. i \in S \cap DOMAIN heap /\ \A j \in S \cap DOMAIN heap : heap[j].base \in S \cup {None}
  BY <1>3, <1>4
<1> HIDE DEF S
<1>6. Chain(i) \subseteq S
  BY <1>1, <1>5, ChainWithin
<1> QED BY <1>2, <1>3, <1>6

\* A call that can be put before those of C
Fits(ses, h, g, k, s, C, c) ==
  /\ IsCall(ses, h, g, c) /\ IsReady(h, k, c) /\ IsPlaced(h, g, k, s, c, C)
  /\ \A i \in DOMAIN h : Whole(h, g, k, s, c, i) =>
       \A j \in Over(h, i) : Whole(h, g, k, s, c, j) \/ Assured(h, g, k, s, C, j)

\* With more calls to follow, no less is assured.
LEMMA MoreAssured ==
  ASSUME NEW h, NEW g, NEW k, NEW s, NEW C, NEW D, C \subseteq D
  PROVE  /\ \A i : Assured(h, g, k, s, C, i) => Assured(h, g, k, s, D, i)
         /\ \A c : IsPlaced(h, g, k, s, c, C) => IsPlaced(h, g, k, s, c, D)
<1>1. \A i : Assured(h, g, k, s, C, i) => Assured(h, g, k, s, D, i)
  BY DEF Assured
<1>2. ASSUME NEW c, IsPlaced(h, g, k, s, c, C) PROVE IsPlaced(h, g, k, s, c, D)
  BY ONLY <1>1, <1>2, C \subseteq D, PlacedStays
<1> QED BY <1>1, <1>2

\* No call
LEMMA TakesNone ==
  ASSUME NEW ses, NEW h, NEW g, NEW k, NEW s, NEW C
  PROVE  Takes(ses, h, g, k, s, C, <<>>) /\ Entrusted(h, g, k, s, <<>>) = {} /\ DOMAIN <<>> = {}
<1>1. DOMAIN <<>> = {} /\ IsSequence(<<>>)
  BY Nothing
<1> QED BY <1>1, Zenon DEF Takes, Entrusted

\* Calls that have nothing to do with each other
LEMMA TakesAll ==
  ASSUME NEW ses, NEW h, NEW g, NEW k, NEW s, NEW C, NEW q, IsSequence(q),
         \A a \in DOMAIN q : Fits(ses, h, g, k, s, C, q[a]),
         \A b \in DOMAIN q : \A a \in 1 .. b - 1 :
           Above(q[b].op, q[a].op) /\ Trust(h, g, k, s, q[a]) \cap Trust(h, g, k, s, q[b]) = {}
  PROVE  Takes(ses, h, g, k, s, C, q)
<1>1. ASSUME NEW a \in DOMAIN q
      PROVE  /\ IsCall(ses, h, g, q[a]) /\ IsReady(h, k, q[a])
             /\ IsPlaced(h, g, k, s, q[a], C \cup { q[b] : b \in a + 1 .. Len(q) })
  <2>1. IsCall(ses, h, g, q[a]) /\ IsReady(h, k, q[a]) /\ IsPlaced(h, g, k, s, q[a], C)
    BY DEF Fits
  <2>2. C \subseteq C \cup { q[b] : b \in a + 1 .. Len(q) }
    OBVIOUS
  <2> QED BY ONLY <2>1, <2>2, MoreAssured
<1>2. ASSUME NEW a \in DOMAIN q, NEW i \in DOMAIN h, Whole(h, g, k, s, q[a], i),
             NEW j \in Over(h, i)
      PROVE  Assured(h, g, k, s, C \cup { q[b] : b \in a .. Len(q) }, j)
  <2>1. Whole(h, g, k, s, q[a], j) \/ Assured(h, g, k, s, C, j)
    BY <1>2 DEF Fits
  <2>2. a \in a .. Len(q)
    BY SequenceIs
  <2>3. CASE Whole(h, g, k, s, q[a], j)
    BY <2>2, <2>3 DEF Assured
  <2>4. CASE Assured(h, g, k, s, C, j)
    BY <2>4 DEF Assured
  <2> QED BY <2>1, <2>3, <2>4
<1> QED BY <1>1, <1>2 DEF Takes

\* One call
LEMMA TakesOne ==
  ASSUME NEW ses, NEW h, NEW g, NEW k, NEW s, NEW C, NEW c, Fits(ses, h, g, k, s, C, c)
  PROVE  /\ Takes(ses, h, g, k, s, C, <<c>>) /\ Entrusted(h, g, k, s, <<c>>) = Trust(h, g, k, s, c)
         /\ Range(<<c>>) = {c} /\ DOMAIN <<c>> = {1} /\ <<c>>[1] = c
<1> DEFINE q == <<c>>
<1>1. IsSequence(q) /\ Len(q) = 1 /\ DOMAIN q = {1} /\ q[1] = c
  <2>1. IsSequence(q)
    BY Small, Zenon
  <2>2. Len(q) = 1 /\ DOMAIN q = {1} /\ q[1] = c
    OBVIOUS
  <2> QED BY <2>1, <2>2
<1> HIDE DEF q
<1>2. Range(q) = {c} /\ Entrusted(h, g, k, s, q) = Trust(h, g, k, s, c)
  BY <1>1, Zenon DEF Range, Entrusted
<1>3. \A b \in DOMAIN q : 1 .. b - 1 = {}
  BY <1>1
<1>4. Takes(ses, h, g, k, s, C, q)
  BY <1>1, <1>3, TakesAll, Zenon
<1> QED BY <1>1, <1>2, <1>4 DEF q

\* Some calls before others
Joins(ses, h, g, k, s, C, p, q) ==
  /\ Takes(ses, h, g, k, s, C \cup Range(q), p) /\ Takes(ses, h, g, k, s, C, q)
  /\ \A a \in DOMAIN p : \A b \in DOMAIN q : Above(q[b].op, p[a].op)
  /\ Entrusted(h, g, k, s, p) \cap Entrusted(h, g, k, s, q) = {}

\* What follows from it.
Joined(ses, h, g, k, s, C, p, q) ==
  /\ Takes(ses, h, g, k, s, C, p \o q) /\ IsSequence(p \o q)
  /\ Entrusted(h, g, k, s, p \o q) = Entrusted(h, g, k, s, p) \cup Entrusted(h, g, k, s, q)
  /\ Range(p \o q) = Range(p) \cup Range(q)
  /\ \A a \in DOMAIN (p \o q) : \/ \E i \in DOMAIN p : (p \o q)[a] = p[i]
                                \/ \E i \in DOMAIN q : (p \o q)[a] = q[i]

\* Two runs of calls that each fit, and have nothing in common, fit one after the other.
LEMMA TakesJoin ==
  ASSUME NEW ses, NEW h, NEW g, NEW k, NEW s, NEW C, NEW p, NEW q, Joins(ses, h, g, k, s, C, p, q)
  PROVE  Joined(ses, h, g, k, s, C, p, q)
<1> SUFFICES
      ASSUME Takes(ses, h, g, k, s, C \cup Range(q), p), Takes(ses, h, g, k, s, C, q),
             \A a \in DOMAIN p : \A b \in DOMAIN q : Above(q[b].op, p[a].op),
             Entrusted(h, g, k, s, p) \cap Entrusted(h, g, k, s, q) = {}
      PROVE  /\ Takes(ses, h, g, k, s, C, p \o q) /\ IsSequence(p \o q)
             /\ Entrusted(h, g, k, s, p \o q) = Entrusted(h, g, k, s, p) \cup Entrusted(h, g, k,
                  s, q)
             /\ Range(p \o q) = Range(p) \cup Range(q)
             /\ \A a \in DOMAIN (p \o q) : \/ \E i \in DOMAIN p : (p \o q)[a] = p[i]
                                           \/ \E i \in DOMAIN q : (p \o q)[a] = q[i]
  BY Zenon DEF Joins, Joined
<1>0. IsSequence(p) /\ IsSequence(q)
  BY DEF Takes
<1> DEFINE r == p \o q
<1>1. IsSequence(r)
  BY <1>0, Joining
<1>2. PICK u, v : u = Len(p) /\ v = Len(q)
  OBVIOUS
<1>3. /\ u \in Nat /\ v \in Nat /\ DOMAIN p = 1 .. u /\ DOMAIN q = 1 .. v
      /\ DOMAIN r = 1 .. u + v /\ Len(r) = u + v
      /\ \A i \in 1 .. u + v : r[i] = IF i <= u THEN p[i] ELSE q[i - u]
  <2>1. /\ Len(p) \in Nat /\ Len(q) \in Nat /\ DOMAIN p = 1 .. Len(p) /\ DOMAIN q = 1 .. Len(q)
        /\ DOMAIN r = 1 .. Len(r)
    BY <1>0, <1>1, SequenceIs
  <2>2. Len(r) = Len(p) + Len(q)
          /\ \A i \in 1 .. Len(p) + Len(q) : r[i] = IF i <= Len(p) THEN p[i] ELSE q[i - Len(p)]
    BY <1>0, Joining
  <2> HIDE DEF r
  <2> QED BY <1>2, <2>1, <2>2
<1> HIDE DEF r
<1>4. /\ \A a \in 1 .. u : a \in 1 .. u + v /\ r[a] = p[a]
      /\ \A b \in 1 .. v : u + b \in 1 .. u + v /\ r[u + b] = q[b]
      /\ \A a \in 1 .. u + v : a \in 1 .. u \/ \E b \in 1 .. v : a = u + b
  <2>1. \A a \in 1 .. u : a \in 1 .. u + v /\ r[a] = p[a]
    BY <1>3
  <2>2. ASSUME NEW b \in 1 .. v PROVE u + b \in 1 .. u + v /\ r[u + b] = q[b]
    <3>1. u + b \in 1 .. u + v /\ ~(u + b <= u) /\ u + b - u = b
      BY <1>3
    <3> QED BY <1>3, <3>1
  <2>3. ASSUME NEW a \in 1 .. u + v, a \notin 1 .. u PROVE \E b \in 1 .. v : a = u + b
    <3>1. a - u \in 1 .. v /\ a = u + (a - u)
      BY <1>3, <2>3
    <3> QED BY <3>1
  <2> QED BY <2>1, <2>2, <2>3
<1>5. ASSUME NEW a \in 1 .. u
      PROVE  /\ { r[b] : b \in a + 1 .. u + v } = { p[b] : b \in a + 1 .. u } \cup Range(q)
             /\ { r[b] : b \in a .. u + v } = { p[b] : b \in a .. u } \cup Range(q)
  <2>1. Range(q) = { q[b] : b \in 1 .. v }
    BY <1>3 DEF Range
  <2>2. ASSUME NEW w \in {a, a + 1}
        PROVE { r[b] : b \in w .. u + v } = { p[b] : b \in w .. u } \cup Range(q)
    <3>1. w \in Nat \ {0} /\ w <= u + 1
      BY <1>3
    <3>2. ASSUME NEW b \in w .. u + v PROVE r[b] \in { p[c] : c \in w .. u } \cup Range(q)
      <4>1. CASE b \in 1 .. u
        BY <1>4, <3>1, <4>1
      <4>2. CASE b \notin 1 .. u
        <5>1. PICK c \in 1 .. v : b = u + c
          BY <1>3, <1>4, <3>1, <4>2
        <5> QED BY <1>4, <2>1, <5>1
      <4> QED BY <4>1, <4>2
    <3>3. ASSUME NEW c \in w .. u PROVE p[c] \in { r[b] : b \in w .. u + v }
      <4>1. c \in 1 .. u /\ c \in w .. u + v
        BY <1>3, <3>1
      <4> QED BY <1>4, <4>1
    <3>4. ASSUME NEW c \in 1 .. v PROVE q[c] \in { r[b] : b \in w .. u + v }
      <4>1. u + c \in w .. u + v
        BY <1>3, <3>1
      <4> QED BY <1>4, <4>1
    <3> QED BY <2>1, <3>2, <3>3, <3>4
  <2> QED BY <2>2
<1>6. ASSUME NEW b \in 1 .. v
      PROVE  /\ { r[c] : c \in u + b + 1 .. u + v } = { q[c] : c \in b + 1 .. v }
             /\ { r[c] : c \in u + b .. u + v } = { q[c] : c \in b .. v }
  <2>1. ASSUME NEW w \in {b, b + 1} PROVE { r[c] : c \in u + w .. u + v } = { q[c] : c \in w .. v }
    <3>1. w \in Nat \ {0}
      BY <1>3
    <3>2. ASSUME NEW c \in u + w .. u + v PROVE r[c] \in { q[e] : e \in w .. v }
      <4>1. c - u \in w .. v /\ c - u \in 1 .. v /\ u + (c - u) = c
        BY <1>3, <3>1
      <4> QED BY <1>4, <4>1
    <3>3. ASSUME NEW c \in w .. v PROVE q[c] \in { r[e] : e \in u + w .. u + v }
      <4>1. u + c \in u + w .. u + v /\ c \in 1 .. v
        BY <1>3, <3>1
      <4> QED BY <1>4, <4>1
    <3> QED BY <3>2, <3>3
  <2>2. u + (b + 1) = u + b + 1
    BY <1>3
  <2> QED BY <2>1, <2>2
<1>7. ASSUME NEW x \in 1 .. u + v
      PROVE  /\ IsCall(ses, h, g, r[x]) /\ IsReady(h, k, r[x])
             /\ IsPlaced(h, g, k, s, r[x], C \cup { r[b] : b \in x + 1 .. u + v })
  <2>1. CASE x \in 1 .. u
    <3>1. C \cup { r[b] : b \in x + 1 .. u + v } = (C \cup Range(q)) \cup { p[b] : b \in x + 1 .. u }
      BY <1>5, <2>1
    <3>2. /\ IsCall(ses, h, g, p[x]) /\ IsReady(h, k, p[x])
          /\ IsPlaced(h, g, k, s, p[x], (C \cup Range(q)) \cup { p[b] : b \in x + 1 .. u })
      BY <1>2, <1>3, <2>1 DEF Takes
    <3> QED BY <1>4, <2>1, <3>1, <3>2
  <2>2. ASSUME NEW b \in 1 .. v, x = u + b
        PROVE  /\ IsCall(ses, h, g, r[x]) /\ IsReady(h, k, r[x])
               /\ IsPlaced(h, g, k, s, r[x], C \cup { r[c] : c \in x + 1 .. u + v })
    <3>1. { r[c] : c \in x + 1 .. u + v } = { q[c] : c \in b + 1 .. v }
      BY <1>6, <2>2
    <3>2. /\ IsCall(ses, h, g, q[b]) /\ IsReady(h, k, q[b])
          /\ IsPlaced(h, g, k, s, q[b], C \cup { q[c] : c \in b + 1 .. v })
      BY <1>2, <1>3 DEF Takes
    <3> QED BY <1>4, <2>2, <3>1, <3>2
  <2> QED BY <1>4, <2>1, <2>2
<1> DEFINE P(i) == Trust(h, g, k, s, p[i])
           Q(i) == Trust(h, g, k, s, q[i])
           T(i) == Trust(h, g, k, s, r[i])
<1>8. /\ \A b \in 1 .. u : \A a \in 1 .. b - 1 : Above(p[b].op, p[a].op) /\ P(a) \cap P(b) = {}
      /\ \A b \in 1 .. v : \A a \in 1 .. b - 1 : Above(q[b].op, q[a].op) /\ Q(a) \cap Q(b) = {}
      /\ \A a \in 1 .. u : \A b \in 1 .. v : Above(q[b].op, p[a].op) /\ P(a) \cap Q(b) = {}
  <2>1. /\ \A b \in 1 .. u : \A a \in 1 .. b - 1 : Above(p[b].op, p[a].op) /\ P(a) \cap P(b) = {}
        /\ \A b \in 1 .. v : \A a \in 1 .. b - 1 : Above(q[b].op, q[a].op) /\ Q(a) \cap Q(b) = {}
    BY <1>3, Zenon DEF Takes
  <2>2. ASSUME NEW a \in 1 .. u, NEW b \in 1 .. v
        PROVE Above(q[b].op, p[a].op) /\ P(a) \cap Q(b) = {}
    <3>1. P(a) \subseteq Entrusted(h, g, k, s, p) /\ Q(b) \subseteq Entrusted(h, g, k, s, q)
      BY <1>3 DEF Entrusted
    <3>2. Above(q[b].op, p[a].op)
      BY <1>3
    <3> HIDE DEF P, Q
    <3> QED BY <3>1, <3>2
  <2> QED BY <2>1, <2>2
<1>9. (\A a \in 1 .. u : T(a) = P(a)) /\ (\A b \in 1 .. v : T(u + b) = Q(b))
  BY <1>4
<1>10. Entrusted(h, g, k, s, r) = Entrusted(h, g, k, s, p) \cup Entrusted(h, g, k, s, q)
  <2>1. /\ Entrusted(h, g, k, s, p) = UNION { P(i) : i \in 1 .. u }
             /\ Entrusted(h, g, k, s, q) = UNION { Q(i) : i \in 1 .. v }
        /\ Entrusted(h, g, k, s, r) = UNION { T(i) : i \in 1 .. u + v }
    BY <1>3 DEF Entrusted
  <2> HIDE DEF P, Q, T
  <2>2. ASSUME NEW x \in 1 .. u + v
        PROVE T(x) \subseteq (UNION { P(i) : i \in 1 .. u }) \cup UNION { Q(i) : i \in 1 .. v }
    BY <1>4, <1>9
  <2>3. ASSUME NEW x \in 1 .. u PROVE P(x) \subseteq UNION { T(i) : i \in 1 .. u + v }
    BY <1>4, <1>9
  <2>4. ASSUME NEW x \in 1 .. v PROVE Q(x) \subseteq UNION { T(i) : i \in 1 .. u + v }
    BY <1>4, <1>9
  <2> QED BY <2>1, <2>2, <2>3, <2>4
<1> HIDE DEF P, Q, T
<1>11. ASSUME NEW x \in 1 .. u + v, NEW y \in 1 .. x - 1
       PROVE Above(r[x].op, r[y].op) /\ T(y) \cap T(x) = {}
  <2>1. CASE x \in 1 .. u
    <3>1. y \in 1 .. u /\ y \in 1 .. x - 1
      BY <1>3, <2>1
    <3> QED BY <1>4, <1>8, <1>9, <2>1, <3>1
  <2>2. ASSUME NEW b \in 1 .. v, x = u + b PROVE Above(r[x].op, r[y].op) /\ T(y) \cap T(x) = {}
    <3>1. CASE y \in 1 .. u
      BY <1>4, <1>8, <1>9, <2>2, <3>1
    <3>2. CASE y \notin 1 .. u
      <4>1. y \in 1 .. u + v
        BY <1>3
      <4>2. PICK a \in 1 .. v : y = u + a
        BY <1>4, <3>2, <4>1
      <4>3. a \in 1 .. b - 1
        BY <1>3, <2>2, <4>2
      <4> QED BY <1>4, <1>8, <1>9, <2>2, <4>2, <4>3
    <3> QED BY <3>1, <3>2
  <2> QED BY <1>4, <2>1, <2>2
<1>12. ASSUME NEW x \in 1 .. u + v, NEW i \in DOMAIN h, Whole(h, g, k, s, r[x], i),
              NEW j \in Over(h, i)
       PROVE  Assured(h, g, k, s, C \cup { r[b] : b \in x .. u + v }, j)
  <2>1. CASE x \in 1 .. u
    <3>1. C \cup { r[b] : b \in x .. u + v } = (C \cup Range(q)) \cup { p[b] : b \in x .. u }
      BY <1>5, <2>1
    <3>2. Assured(h, g, k, s, (C \cup Range(q)) \cup { p[b] : b \in x .. u }, j)
      BY <1>2, <1>3, <1>4, <1>12, <2>1 DEF Takes
    <3> QED BY <3>1, <3>2
  <2>2. ASSUME NEW b \in 1 .. v, x = u + b
        PROVE Assured(h, g, k, s, C \cup { r[c] : c \in x .. u + v }, j)
    <3>1. { r[c] : c \in x .. u + v } = { q[c] : c \in b .. v }
      BY <1>6, <2>2
    <3>2. Assured(h, g, k, s, C \cup { q[c] : c \in b .. v }, j)
      BY <1>2, <1>3, <1>4, <1>12, <2>2 DEF Takes
    <3> QED BY <3>1, <3>2
  <2> QED BY <1>4, <2>1, <2>2
<1>13. Takes(ses, h, g, k, s, C, r)
  BY <1>1, <1>3, <1>7, <1>11, <1>12, Zenon DEF Takes, T
<1>14. Range(r) = Range(p) \cup Range(q)
  <2>1. Range(r) = { r[i] : i \in 1 .. u + v } /\ Range(p) = { p[i] : i \in 1 .. u }
          /\ Range(q) = { q[i] : i \in 1 .. v }
    BY <1>3 DEF Range
  <2>2. \A i \in 1 .. u + v : r[i] \in { p[a] : a \in 1 .. u } \cup { q[a] : a \in 1 .. v }
    BY <1>4
  <2>3. (\A i \in 1 .. u : p[i] \in { r[a] : a \in 1 .. u + v })
          /\ (\A i \in 1 .. v : q[i] \in { r[a] : a \in 1 .. u + v })
    BY <1>4
  <2> QED BY <2>1, <2>2, <2>3
<1>15. \A a \in DOMAIN r : (\E i \in DOMAIN p : r[a] = p[i]) \/ (\E i \in DOMAIN q : r[a] = q[i])
  BY <1>3, <1>4
<1> QED BY <1>1, <1>10, <1>13, <1>14, <1>15 DEF r

\* The levels of calls
LEMMA Levels ==
  /\ Level("nx_sys_destroy") = 1 /\ Level("logos") = 2 /\ Level("nx_load_first_one") = 3
  /\ Level("hos_disable") = 3
  /\ Level("nx_get_all_loaders") = 4 /\ Level("hos_create") = 5
  /\ \A op \in {"find_keys", "load_game", "hos_firmware_load", "dir_close", "loader_get_logo",
       "loader_destroy"} : Level(op) = 6
  /\ Level("dir_close_file") = 7 /\ Level("nsp") = 8 /\ Level("nsz") = 8
  /\ \A op \in OpsOfPackages : Level(op) = 9
  /\ Level("keys_db_add_ticket") = 10 /\ Level("content_archive_create") = 11
  /\ \A op \in {"free", "list_push", "get_file", "content_archive_destroy", "destroy_file",
       "close_archive", "close_wrapped",
                "close_file", "service", "destroy_package"} : Level(op) = 0
<1>1. /\ Level("nx_sys_destroy") = 1 /\ Level("logos") = 2 /\ Level("nx_load_first_one") = 3
      /\ Level("hos_disable") = 3
      /\ Level("nx_get_all_loaders") = 4 /\ Level("hos_create") = 5
  BY DEF Level, OpsOfPackages
<1>2. ASSUME NEW op \in {"find_keys", "load_game", "hos_firmware_load", "dir_close",
             "loader_get_logo", "loader_destroy"}
      PROVE  Level(op) = 6
  BY DEF Level, OpsOfPackages
<1>3. Level("dir_close_file") = 7 /\ Level("nsp") = 8 /\ Level("nsz") = 8
  BY DEF Level, OpsOfPackages
<1>4. ASSUME NEW op \in OpsOfPackages PROVE Level(op) = 9
  BY DEF Level, OpsOfPackages
<1>5. Level("keys_db_add_ticket") = 10 /\ Level("content_archive_create") = 11
  BY DEF Level, OpsOfPackages
<1>6. ASSUME NEW op \in {"free", "list_push", "get_file", "content_archive_destroy",
             "destroy_file", "close_archive",
                         "close_wrapped", "close_file", "service", "destroy_package"}
      PROVE  Level(op) = 0
  BY DEF Level, OpsOfPackages
<1> QED BY <1>1, <1>2, <1>3, <1>4, <1>5, <1>6

\* A host file that came from a directory is trusted only to the call that closes it there.
LEMMA HostTrusted ==
  ASSUME NEW ses, NEW h, HeapOk(h), NEW g, NEW k, NEW s, ListsOk(h, g, k, s), NEW c,
         IsCall(ses, h, g, c),
         NEW i \in Trust(h, g, k, s, c), i \in DOMAIN h, h[i].kind = "host", h[i].dir # None
  PROVE  c.op = "dir_close_file"
<1>1. GamesOk(h, g) /\ ListOk(h, k, "tik") /\ ListOk(h, s, "service")
  BY DEF ListsOk
<1>2. ASSUME NEW n \in DOMAIN h, h[n].kind = "nca" PROVE i \notin Archive(h, n)
  <2>1. h[h[n].base].kind # "host" /\ h[Below(h, n)].kind # "host"
    <3>1. IsNca(h, n)
      BY DEF HeapOk
    <3> QED BY <1>2, <3>1 DEF IsNca, FileKinds
  <2>2. \A p \in Items(h, n) : h[p.file].kind # "host" /\ h[p.fs].kind # "host"
    BY <1>2, SectionFacts
  <2>3. i \notin SectionObjects(h, n)
    BY <2>2 DEF SectionObjects
  <2> QED BY <1>2, <2>1, <2>3 DEF Archive, Owned
<1>3. ASSUME NEW l \in DOMAIN h, h[l].kind = "loader" PROVE i \notin Package(h, l)
  <2>1. h[l].dir # i /\ (h[l].base # None => h[l].base # i)
          /\ \A n \in Range(h[l].parts) : h[n].kind = "nca"
    BY <1>3 DEF HeapOk, IsLoader
  <2>2. Owned(h, l) = ({h[l].dir, h[l].base} \ {None}) \cup Range(h[l].parts)
    BY <1>3 DEF Owned
  <2>3. i \notin Owned(h, l)
    BY <2>1, <2>2
  <2>4. \A n \in Range(h[l].parts) : n \in DOMAIN h /\ i \notin Owned(h, n)
    BY <1>2, <2>1, ObjectFacts DEF Archive
  <2> QED BY <1>3, <2>3, <2>4 DEF Package
<1>4. CASE c.op \in {"free", "dir_close", "keys_db_add_ticket", "close_file"}
  BY <1>4 DEF IsCall, Trust, IsAlone, IsFileOf, FileKinds
<1>5. CASE c.op = "content_archive_create"
  <2>1. h[c.dir].kind = "romfs" /\ i \in Range(h[c.dir].parts) /\ c.dir \in DOMAIN h
    BY <1>5 DEF Trust, IsCall, HeldIn
  <2> QED BY <2>1 DEF HeapOk, HoldsFiles
<1>6. CASE c.op \in {"list_push", "content_archive_destroy", "close_archive"}
  <2>1. c.x \in DOMAIN h /\ h[c.x].kind = "nca"
    BY <1>6 DEF IsCall
  <2>2. i \in Archive(h, c.x)
    BY <1>6, <2>1 DEF Trust, Archive, Owned
  <2> QED BY <1>2, <2>1, <2>2
<1>7. CASE c.op = "destroy_file"
  <2>1. c.dir \in DOMAIN h /\ h[c.dir].kind = "nca" /\ c.x \in Items(h, c.dir)
    BY <1>7 DEF IsCall
  <2> QED BY <1>7, <2>1, SectionFacts DEF Trust
<1>8. CASE c.op = "close_wrapped"
  BY <1>8 DEF IsCall, Trust, IsFileOf, FileKinds
<1>9. CASE c.op = "destroy_package"
  <2>1. c.x \in DOMAIN h /\ h[c.x].kind = "loader"
    BY <1>9 DEF IsCall
  <2>2. i \in Package(h, c.x)
    BY <1>9, <2>1 DEF Trust, Package, Owned
  <2> QED BY <1>3, <2>1, <2>2
<1>10. CASE c.op = "loader_destroy"
  <2>1. c.x \in DOMAIN h /\ h[c.x].kind = "loader" /\ h[c.dir].kind = "map"
    BY <1>10 DEF IsCall, IsPackageOver, IsAlone
  <2> QED BY <1>3, <1>10, <2>1 DEF Trust
<1>11. CASE c.op = "nx_sys_destroy"
  <2>1. \A a \in DOMAIN g : i \notin Game(h, g[a])
    <3>1. SUFFICES ASSUME NEW a \in DOMAIN g PROVE i \notin Game(h, g[a])
      OBVIOUS
    <3>2. h[g[a].file].kind = "map" /\ (g[a].loader # None => g[a].loader \in DOMAIN h
            /\ h[g[a].loader].kind = "loader")
      BY <1>1 DEF GamesOk, IsAlone, IsPackageOver
    <3> QED BY <1>3, <3>2 DEF Game
  <2>2. \A j \in Range(k) : h[j].kind = "tik"
    BY <1>1 DEF ListOk, IsAlone
  <2>3. (\E a \in DOMAIN g : i \in Game(h, g[a])) \/ i \in Range(k)
    BY <1>11, SMT DEF Trust
  <2> QED BY <2>1, <2>2, <2>3
<1>12. CASE c.op = "hos_disable"
  BY <1>1, <1>12 DEF ListOk, IsAlone, Trust
<1>13. c.op \in {"free", "dir_close_file", "dir_close", "keys_db_add_ticket", "close_file",
         "destroy_file", "hos_disable",
                 "content_archive_create", "list_push", "content_archive_destroy",
                 "close_archive", "close_wrapped",
                 "destroy_package", "loader_destroy", "nx_sys_destroy"}
  BY DEF Trust
<1> QED BY <1>4, <1>5, <1>6, <1>7, <1>8, <1>9, <1>10, <1>11, <1>12, <1>13

\* A sequence without elements is empty.
LEMMA NoElements ==
  ASSUME NEW x, IsSequence(x), Range(x) = {}
  PROVE  x = <<>>
<1>1. x \in Seq(Range(x))
  BY DEF IsSequence
<1> QED BY <1>1

\* No file of a host directory is open when one is opened there, or the directory closed.
LEMMA NoFileOpen ==
  ASSUME NEW ses, NEW t, NEW h, NEW g, NEW k, NEW s, StateOk(ses, t, h, g, k, s), t # <<>>,
         Head(t).op \in {"find_keys", "load_game", "hos_firmware_load", "dir_close"},
         NEW dir \in DOMAIN h, h[dir].kind = "hostdir"
  PROVE  h[dir].parts = <<>>
<1>1. HeapOk(h) /\ ListsOk(h, g, k, s) /\ TrustOk(t, h, g, k, s)
  BY DEF StateOk
<1>n. PICK n : n = Len(t)
  OBVIOUS
<1>2. /\ n \in Nat \ {0} /\ n \in Turns(t) /\ At(t, n) = Head(t) /\ Turns(t) = 1 .. n
      /\ IsCall(ses, h, g, Head(t))
      /\ \A b \in After(t, n) : Above(b.op, Head(t).op) /\ IsCall(ses, h, g, b)
  BY <1>n, HeadFacts
<1>3. ASSUME NEW i \in Range(h[dir].parts) PROVE FALSE
  <2>1. i \in DOMAIN h /\ h[i].kind = "host" /\ h[i].dir = dir /\ h[i].live /\ dir # None
    BY <1>1, ObjectFacts DEF HeapOk, HoldsFiles, None
  <2>2. ~Dropped(h, k, i) /\ i \in Live(h)
    BY <2>1 DEF Dropped, Live
  <2>3. PICK d \in Turns(t) : i \in Trust(h, g, k, s, At(t, d))
    BY <1>1, <2>2 DEF TrustOk
  <2>4. IsCall(ses, h, g, At(t, d)) /\ (At(t, d) = Head(t) \/ Above(At(t, d).op, Head(t).op))
    <3>1. CASE d = n
      BY <1>2, <3>1
    <3>2. CASE d # n
      <4>1. d \in 1 .. n - 1
        BY <1>2, <3>2
      <4>2. At(t, d) \in After(t, n)
        BY <4>1 DEF After
      <4> QED BY <1>2, <4>2
    <3> QED BY <3>1, <3>2
  <2>5. At(t, d).op = "dir_close_file"
    BY <1>1, <2>1, <2>3, <2>4, HostTrusted
  <2>6. Above("dir_close_file", Head(t).op)
    BY <2>4, <2>5
  <2>7. Level("dir_close_file") = 7 /\ Level(Head(t).op) = 6
    BY Levels
  <2> QED BY <2>6, <2>7 DEF Above
<1>4. IsSequence(h[dir].parts)
  BY <1>1, ObjectFacts
<1> QED BY <1>3, <1>4, NoElements

\* Packages are assured until the program ends.
LEMMA PackageAssured ==
  ASSUME NEW h, NEW g, NEW k, NEW s, NEW C, Later(C, "nx_sys_destroy"), NEW l \in Loaders(g),
         NEW i \in Package(h, l)
  PROVE  Assured(h, g, k, s, C, i)
<1>1. PICK b \in C : b.op = "nx_sys_destroy"
  BY DEF Later
<1>2. PICK a \in DOMAIN g : l = g[a].loader /\ l # None
  BY DEF Loaders
<1>3. i \in Game(h, g[a])
  BY <1>2 DEF Game
<1>4. i \in Trust(h, g, k, s, b)
  BY <1>1, <1>3 DEF Trust
<1> QED BY <1>1, <1>4 DEF Assured, Whole

\* What is assured by the calls that stay, whatever else is done
LEMMA FrameAssured ==
  ASSUME NEW ses, NEW t, NEW h, NEW g, NEW k, NEW s, StateOk(ses, t, h, g, k, s), t # <<>>, NEW n,
         n = Len(t),
         NEW h2, Frame(h, h2)
  PROVE  \A i : Assured(h, g, k, s, After(t, n), i) => Assured(h2, g, k, s, After(t, n), i)
<1>1. HeapOk(h) /\ GamesOk(h, g) /\ Stable(h, h2)
  BY DEF StateOk, ListsOk, Frame, Steady
<1>2. SUFFICES ASSUME NEW i, NEW b \in After(t, n), Whole(h, g, k, s, b, i)
      PROVE Whole(h2, g, k, s, b, i)
  BY DEF Assured
<1>3. Assured(h, g, k, s, After(t, n), i)
  BY <1>2 DEF Assured
<1>4. i \in DOMAIN h
  BY <1>3, AssuredFacts
<1>5. IsCall(ses, h, g, b)
  BY HeadFacts
<1>6. Trust(h2, g, k, s, b) = Trust(h, g, k, s, b)
  BY <1>1, <1>5, TrustStays
<1> QED BY <1>1, <1>2, <1>4, <1>6, WholeStays

----------------------------------------------------------------------------
(* Calls that close *)

\* The invariant
Ok == StateOk(session, todo, heap, games, tickets, services)

\* Using what is live is no fault.
LEMMA Unused ==
  ASSUME NEW U, Use(U), U \subseteq Live(heap)
  PROVE  fault' = fault
  BY DEF Use, Live

\* An action that leaves the lists alone
LEMMA FrameAction ==
  ASSUME Ok, todo # <<>>, NEW q, Then(q), SameLists, NEW n, n = Len(todo),
         HeapOk(heap'), Frame(heap, heap'),
         Takes(session, heap', games, tickets, services, After(todo, n), q),
         IsQuiet(Head(todo), q), Rises(Head(todo), q),
         NEW fresh, Passed(todo, heap, games, tickets, services, q, heap', fresh)
  PROVE  Ok'
<1>1. FrameIs(session, todo, heap, games, tickets, services, q, todo', n, heap', fresh)
  BY Zenon DEF FrameIs, Ok, Then
<1>2. StateOk(session, todo', heap', games, tickets, services)
  BY <1>1, FrameStep
<1>3. session' = session /\ games' = games /\ tickets' = tickets /\ services' = services
  BY DEF SameLists, Same
<1> QED BY <1>2, <1>3 DEF Ok

\* What is known when an action is taken
LEMMA OkFacts ==
  ASSUME Ok, NEW name, Calling(name), NEW n, n = Len(todo)
  PROVE  /\ todo # <<>> /\ Head(todo).op = name /\ IsSequence(todo)
         /\ HeapOk(heap) /\ ListsOk(heap, games, tickets, services) /\ GamesOk(heap, games)
         /\ TrustOk(todo, heap, games, tickets, services)
         /\ n \in Nat \ {0} /\ n \in Turns(todo) /\ At(todo, n) = Head(todo)
         /\ IsCall(session, heap, games, Head(todo)) /\ IsReady(heap, tickets, Head(todo))
         /\ IsPlaced(heap, games, tickets, services, Head(todo), After(todo, n))
         /\ Trust(heap, games, tickets, services, Head(todo)) \subseteq Live(heap)
<1>1. todo # <<>> /\ Head(todo).op = name
  BY DEF Calling
<1> QED BY <1>1, HeadFacts DEF Ok, StateOk, ListsOk

\* No new calls
LEMMA QuietNone ==
  ASSUME NEW c, c.op \notin {"nsp", "nsz", "get_file"}
  PROVE  IsQuiet(c, <<>>) /\ Rises(c, <<>>)
<1>1. DOMAIN <<>> = {}
  OBVIOUS
<1> QED BY <1>1, Zenon DEF IsQuiet, Rises

\* One new call
LEMMA QuietOne ==
  ASSUME NEW c, c.op \notin {"nsp", "nsz", "get_file"}, NEW b,
         b.op \notin {"nsp", "nsz", "nsz_addfile", "service"},
         Level(b.op) # 0 => Level(c.op) # 0 /\ Level(c.op) <= Level(b.op)
  PROVE  IsQuiet(c, <<b>>) /\ Rises(c, <<b>>)
<1>1. DOMAIN <<b>> = {1} /\ <<b>>[1] = b
  OBVIOUS
<1> QED BY <1>1, Zenon DEF IsQuiet, Rises

\* Free keeps the invariant, and uses and closes only what is live.
LEMMA FreeStep ==
  ASSUME Ok, Free
  PROVE  Ok' /\ fault' = fault
<1>n. PICK n : n = Len(todo)
  OBVIOUS
<1> DEFINE x == Head(todo).x
<1>0. Calling("free") /\ heap' = [heap EXCEPT ![x].live = FALSE] /\ Use({x}) /\ Then(<<>>)
        /\ SameLists
  BY DEF Free, Arg
<1>1. /\ HeapOk(heap) /\ IsCall(session, heap, games, Head(todo)) /\ Head(todo).op = "free"
      /\ todo # <<>>
      /\ Trust(heap, games, tickets, services, Head(todo)) \subseteq Live(heap)
  BY <1>0, <1>n, OkFacts
<1>2. Trust(heap, games, tickets, services, Head(todo)) = {x}
  BY <1>1 DEF Trust
<1>3. x \in DOMAIN heap /\ heap[x].kind \notin FileKinds
        /\ (heap[x].kind = "host" => heap[x].dir = None)
  BY <1>1 DEF IsCall
<1>4. ASSUME NEW i \in DOMAIN heap, heap[i].kind \in {"hostdir", "romfs"}
      PROVE x \notin Range(heap[i].parts)
  <2>1. i # None
    BY <1>1, <1>4, ObjectFacts DEF None
  <2> QED BY <1>1, <1>3, <1>4, <2>1 DEF HeapOk, HoldsFiles, FileKinds
<1>5. /\ HeapOk(heap') /\ Steady(heap, heap') /\ DOMAIN heap' = DOMAIN heap
      /\ \A i \in DOMAIN heap : heap'[i].parts = heap[i].parts
      /\ Live(heap') = Live(heap) \ {x}
  <2>1. heap' = [heap EXCEPT ![x].live = FALSE] /\ HeapOk(heap) /\ x \in DOMAIN heap
    BY <1>0, <1>1, <1>3
  <2>2. Closes(heap, heap', x)
    BY <2>1, <1>4 DEF Closes
  <2> QED BY <2>2, Closing DEF Closed
<1>6. Frame(heap, heap')
  BY <1>5 DEF Frame
<1>7. Takes(session, heap', games, tickets, services, After(todo, n), <<>>)
      /\ Entrusted(heap', games, tickets, services, <<>>) = {}
  BY TakesNone, Zenon
<1>8. IsQuiet(Head(todo), <<>>) /\ Rises(Head(todo), <<>>)
  BY <1>1, QuietNone
<1>9. Passed(todo, heap, games, tickets, services, <<>>, heap', {})
  BY <1>2, <1>5, <1>7 DEF Passed
<1>10. Ok'
  BY <1>0, <1>1, <1>n, <1>5, <1>6, <1>7, <1>8, <1>9, FrameAction
<1>11. fault' = fault
  BY <1>0, <1>1, <1>2, Unused
<1> QED BY <1>10, <1>11

\* DirCloseFile keeps the invariant, and uses and closes only what is live.
LEMMA DirCloseFileStep ==
  ASSUME Ok, DirCloseFile
  PROVE  Ok' /\ fault' = fault
<1>n. PICK n : n = Len(todo)
  OBVIOUS
<1> DEFINE x == Head(todo).x
           dir == Head(todo).dir
           h1 == [heap EXCEPT ![dir].parts = Without(heap[dir].parts, x)]
<1>0. /\ Calling("dir_close_file") /\ Use({dir, x}) /\ Then(<<>>) /\ SameLists
      /\ heap' = [heap EXCEPT ![dir].parts = Without(@, x), ![x].live = FALSE]
  BY DEF DirCloseFile, Arg
<1>1. /\ HeapOk(heap) /\ IsCall(session, heap, games, Head(todo))
      /\ Head(todo).op = "dir_close_file" /\ todo # <<>>
      /\ Trust(heap, games, tickets, services, Head(todo)) \subseteq Live(heap)
      /\ IsPlaced(heap, games, tickets, services, Head(todo), After(todo, n))
  BY <1>0, <1>n, OkFacts
<1>2. Trust(heap, games, tickets, services, Head(todo)) = {x}
  BY <1>1 DEF Trust
<1>3. /\ x \in DOMAIN heap /\ dir \in DOMAIN heap /\ heap[x].kind = "host" /\ heap[x].dir = dir
      /\ heap[dir].kind = "hostdir"
  BY <1>1 DEF IsCall
<1>4. Assured(heap, games, tickets, services, After(todo, n), dir)
  BY <1>1 DEF IsPlaced
<1>5. dir \in Live(heap)
  BY <1>1, <1>4, <1>n, AssuredFacts DEF Ok
<1>6. /\ IsSequence(Without(heap[dir].parts, x)) /\ IsInjective(Without(heap[dir].parts, x))
      /\ Range(Without(heap[dir].parts, x)) = Range(heap[dir].parts) \ {x}
      /\ Range(heap[dir].parts) \subseteq DOMAIN heap
  <2>1. IsSequence(heap[dir].parts) /\ IsInjective(heap[dir].parts)
          /\ Range(heap[dir].parts) \subseteq DOMAIN heap
    BY <1>1, <1>3, ObjectFacts
  <2> QED BY <2>1, WithoutFacts, Zenon
<1>7. \A j \in Range(heap[dir].parts) : heap[j].dir = dir /\ heap[j].live /\ heap[j].kind = "host"
  BY <1>1, <1>3 DEF HeapOk, HoldsFiles
<1>8. /\ HeapOk(h1) /\ Steady(heap, h1) /\ DOMAIN h1 = DOMAIN heap
      /\ h1[dir].parts = Without(heap[dir].parts, x) /\ \A i \in DOMAIN heap : i # dir
           => h1[i].parts = heap[i].parts
      /\ Live(h1) = Live(heap)
  <2>1. PICK s : s = Without(heap[dir].parts, x)
    OBVIOUS
  <2>2. IsSequence(s) /\ IsInjective(s) /\ Range(s) \subseteq DOMAIN heap
        /\ \A j \in Range(s) : heap[j].dir = dir /\ heap[j].live /\ heap[j].kind = "host"
    BY <1>6, <1>7, <2>1
  <2>3. h1 = [heap EXCEPT ![dir].parts = s]
    BY <2>1
  <2>4. HeapOk(heap) /\ dir \in DOMAIN heap /\ heap[dir].kind = "hostdir"
    BY <1>1, <1>3
  <2> HIDE DEF h1
  <2>5. Lists(heap, h1, dir, s)
    BY <2>2, <2>3, <2>4 DEF Lists
  <2> QED BY <2>1, <2>5, Listing DEF Listed
<1>9. heap' = [h1 EXCEPT ![x].live = FALSE]
  BY <1>0, <1>1 DEF HeapOk
<1> HIDE DEF h1
<1>10. \A i \in DOMAIN heap : h1[i].kind = heap[i].kind /\ h1[i].dir = heap[i].dir
         /\ h1[i].base = heap[i].base
  BY <1>8 DEF Steady, Stable
<1>11. ASSUME NEW i \in DOMAIN h1, h1[i].kind \in {"hostdir", "romfs"}
       PROVE x \notin Range(h1[i].parts)
  <2>1. CASE i = dir
    BY <1>6, <1>8, <2>1
  <2>2. CASE i # dir
    BY <1>3, <1>8, <1>10, <1>11, <2>2 DEF HeapOk, HoldsFiles
  <2> QED BY <2>1, <2>2
<1>12. /\ HeapOk(heap') /\ Steady(h1, heap') /\ DOMAIN heap' = DOMAIN heap
       /\ \A i \in DOMAIN heap : heap'[i].parts = h1[i].parts
       /\ Live(heap') = Live(heap) \ {x}
  <2>1. HeapOk(h1) /\ x \in DOMAIN h1 /\ DOMAIN h1 = DOMAIN heap /\ Live(h1) = Live(heap)
    BY <1>3, <1>8
  <2>2. Closes(h1, heap', x)
    BY <1>9, <2>1, <1>11 DEF Closes
  <2> QED BY <2>1, <2>2, Closing DEF Closed
<1>13. Steady(heap, heap')
  BY <1>8, <1>12 DEF Steady, Stable
<1>14. Frame(heap, heap')
  BY <1>3, <1>8, <1>12, <1>13 DEF Frame
<1>15. Takes(session, heap', games, tickets, services, After(todo, n), <<>>)
       /\ Entrusted(heap', games, tickets, services, <<>>) = {}
  BY TakesNone, Zenon
<1>16. IsQuiet(Head(todo), <<>>) /\ Rises(Head(todo), <<>>)
  BY <1>1, QuietNone
<1>17. Passed(todo, heap, games, tickets, services, <<>>, heap', {})
  BY <1>2, <1>12, <1>15 DEF Passed
<1>18. Ok'
  BY <1>0, <1>1, <1>n, <1>12, <1>14, <1>15, <1>16, <1>17, FrameAction
<1>19. fault' = fault
  BY <1>0, <1>1, <1>2, <1>5, Unused
<1> QED BY <1>18, <1>19

\* DirClose keeps the invariant, and uses and closes only what is live.
LEMMA DirCloseStep ==
  ASSUME Ok, DirClose
  PROVE  Ok' /\ fault' = fault
<1>n. PICK n : n = Len(todo)
  OBVIOUS
<1> DEFINE x == Head(todo).x
           c == Call("free", x)
<1>0. /\ Calling("dir_close") /\ Use({x}) /\ UNCHANGED heap /\ SameLists
      /\ Then(EachOn("dir_close_file", x, EverySecond(heap[x].parts)) \o <<c>>)
  BY DEF DirClose, Arg
<1>1. /\ HeapOk(heap) /\ IsCall(session, heap, games, Head(todo)) /\ Head(todo).op = "dir_close"
      /\ todo # <<>>
      /\ Trust(heap, games, tickets, services, Head(todo)) \subseteq Live(heap)
  BY <1>0, <1>n, OkFacts
<1>2. Trust(heap, games, tickets, services, Head(todo)) = {x}
  BY <1>1 DEF Trust
<1>3. x \in DOMAIN heap /\ heap[x].kind = "hostdir" /\ heap[x].base = None /\ heap[x].dir = None
  BY <1>1 DEF IsCall, IsAlone
<1>4. heap[x].parts = <<>>
  BY <1>1, <1>3, NoFileOpen DEF Ok
<1>5. Then(<<c>>)
  <2>1. EverySecond(<<>>) = <<>>
    BY DEF EverySecond
  <2>2. EachOn("dir_close_file", x, <<>>) = <<>>
    BY DEF EachOn
  <2>3. <<>> \o <<c>> = <<c>>
    BY DEF Call
  <2> QED BY <1>0, <1>4, <2>1, <2>2, <2>3
<1>6. Fits(session, heap', games, tickets, services, After(todo, n), c)
  <2>1. IsCall(session, heap, games, c) /\ IsReady(heap, tickets, c)
    BY <1>3 DEF IsCall, IsReady, Call, Ops, FileKinds, OpsOfPackages
  <2>2. IsPlaced(heap, games, tickets, services, c, After(todo, n))
    BY DEF IsPlaced, Call, OpsOfPackages
  <2>3. \A i \in DOMAIN heap : Whole(heap, games, tickets, services, c, i) => Over(heap, i) = {}
    BY <1>3 DEF Whole, Trust, Call, Over
  <2> QED BY <1>0, <2>1, <2>2, <2>3 DEF Fits
<1>7. /\ Takes(session, heap', games, tickets, services, After(todo, n), <<c>>)
      /\ Entrusted(heap', games, tickets, services, <<c>>) = Trust(heap', games, tickets,
           services, c)
  <2> HIDE DEF c
  <2> QED BY <1>6, TakesOne
<1>8. Entrusted(heap', games, tickets, services, <<c>>) = {x}
  BY <1>7 DEF Trust, Call
<1>9. IsQuiet(Head(todo), <<c>>) /\ Rises(Head(todo), <<c>>)
  <2>1. c.op = "free" /\ Level(c.op) = 0
    BY Levels DEF Call
  <2> QED BY <1>1, <2>1, QuietOne
<1>10. Frame(heap, heap')
  BY <1>0, <1>1 DEF Frame, Steady, Stable, HeapOk
<1>11. Passed(todo, heap, games, tickets, services, <<c>>, heap', {})
  BY <1>0, <1>1, <1>2, <1>8 DEF Passed
<1>12. HeapOk(heap')
  BY <1>0, <1>1
<1> HIDE DEF c
<1>13. Ok'
  BY <1>0, <1>1, <1>n, <1>5, <1>7, <1>9, <1>10, <1>11, <1>12, FrameAction
<1>14. fault' = fault
  BY <1>0, <1>1, <1>2, Unused
<1> QED BY <1>13, <1>14

\* Sequences of equal elements are equal.
LEMMA SameSequence ==
  ASSUME NEW x, NEW y, IsSequence(x), IsSequence(y), Len(x) = Len(y),
         \A i \in 1 .. Len(x) : x[i] = y[i]
  PROVE  x = y
<1>1. x \in Seq(Range(x) \cup Range(y)) /\ y \in Seq(Range(x) \cup Range(y))
  <2>1. x \in Seq(Range(x)) /\ y \in Seq(Range(y))
    BY DEF IsSequence
  <2>2. Range(x) \subseteq Range(x) \cup Range(y) /\ Range(y) \subseteq Range(x) \cup Range(y)
    OBVIOUS
  <2> QED BY <2>1, <2>2, SeqMonotonic
<1> QED BY <1>1

\* Short sequences joined.
LEMMA Tuples ==
  ASSUME NEW a, NEW b, NEW c
  PROVE  <<a>> \o <<b>> = <<a, b>> /\ <<a>> \o <<b, c>> = <<a, b, c>>
         /\ <<a, b>> \o <<c>> = <<a, b, c>>
<1>1. /\ IsSequence(<<a>>) /\ IsSequence(<<b>>) /\ IsSequence(<<c>>) /\ IsSequence(<<a, b>>)
      /\ IsSequence(<<b, c>>) /\ IsSequence(<<a, b, c>>)
  BY Small, Zenon
<1>2. ASSUME NEW x, NEW y, NEW z, IsSequence(x), IsSequence(y), IsSequence(z),
             Len(z) = Len(x) + Len(y),
             \A i \in 1 .. Len(z) : z[i] = IF i <= Len(x) THEN x[i] ELSE y[i - Len(x)]
      PROVE  x \o y = z
  <2>1. /\ IsSequence(x \o y) /\ Len(x \o y) = Len(z)
        /\ \A i \in 1 .. Len(z) : (x \o y)[i] = z[i]
    BY ONLY <1>2, Joining
  <2> QED BY ONLY <1>2, <2>1, SameSequence
<1>3. <<a>> \o <<b>> = <<a, b>>
  <2>1. Len(<<a, b>>) = Len(<<a>>) + Len(<<b>>)
        /\ \A i \in 1 .. Len(<<a, b>>) : <<a,
             b>>[i] = IF i <= Len(<<a>>) THEN <<a>>[i] ELSE <<b>>[i - Len(<<a>>)]
    OBVIOUS
  <2> QED BY <1>1, <1>2, <2>1, Zenon
<1>4. <<a>> \o <<b, c>> = <<a, b, c>>
  <2>1. Len(<<a, b, c>>) = Len(<<a>>) + Len(<<b, c>>)
        /\ \A i \in 1 .. Len(<<a, b, c>>) :
             <<a, b, c>>[i] = IF i <= Len(<<a>>) THEN <<a>>[i] ELSE <<b, c>>[i - Len(<<a>>)]
    OBVIOUS
  <2> QED BY <1>1, <1>2, <2>1, Zenon
<1>5. <<a, b>> \o <<c>> = <<a, b, c>>
  <2>1. Len(<<a, b, c>>) = Len(<<a, b>>) + Len(<<c>>)
        /\ \A i \in 1 .. Len(<<a, b, c>>) :
             <<a, b, c>>[i] = IF i <= Len(<<a, b>>) THEN <<a, b>>[i] ELSE <<c>>[i - Len(<<a, b>>)]
    OBVIOUS
  <2> QED BY <1>1, <1>2, <2>1, Zenon
<1> QED BY <1>3, <1>4, <1>5

\* Two calls, three calls
Pair(ses, h, g, k, s, C, a, b) ==
  /\ Fits(ses, h, g, k, s, C \cup {b}, a) /\ Fits(ses, h, g, k, s, C, b) /\ Above(b.op, a.op)
  /\ Trust(h, g, k, s, a) \cap Trust(h, g, k, s, b) = {}

\* What follows from it.
Paired(ses, h, g, k, s, C, a, b) ==
  /\ Takes(ses, h, g, k, s, C, <<a, b>>)
  /\ Entrusted(h, g, k, s, <<a, b>>) = Trust(h, g, k, s, a) \cup Trust(h, g, k, s, b)
  /\ Range(<<a, b>>) = {a, b} /\ DOMAIN <<a, b>> = {1, 2} /\ <<a, b>>[1] = a /\ <<a, b>>[2] = b

\* Two calls that fit one after the other ...
LEMMA TakesTwo ==
  ASSUME NEW ses, NEW h, NEW g, NEW k, NEW s, NEW C, NEW a, NEW b, Pair(ses, h, g, k, s, C, a, b)
  PROVE  Paired(ses, h, g, k, s, C, a, b)
<1> DEFINE p == <<a>>
           q == <<b>>
<1>0. /\ Fits(ses, h, g, k, s, C \cup {b}, a) /\ Fits(ses, h, g, k, s, C, b) /\ Above(b.op, a.op)
      /\ Trust(h, g, k, s, a) \cap Trust(h, g, k, s, b) = {}
  BY DEF Pair
<1>1. /\ Takes(ses, h, g, k, s, C \cup {b}, p) /\ Entrusted(h, g, k, s, p) = Trust(h, g, k, s, a)
      /\ Range(p) = {a} /\ DOMAIN p = {1} /\ p[1] = a
  BY <1>0, TakesOne
<1>2. /\ Takes(ses, h, g, k, s, C, q) /\ Entrusted(h, g, k, s, q) = Trust(h, g, k, s, b)
      /\ Range(q) = {b} /\ DOMAIN q = {1} /\ q[1] = b
  BY <1>0, TakesOne
<1>3. p \o q = <<a, b>>
  BY Tuples
<1>4. DOMAIN <<a, b>> = {1, 2} /\ <<a, b>>[1] = a /\ <<a, b>>[2] = b
  OBVIOUS
<1> HIDE DEF p, q
<1>5. Joins(ses, h, g, k, s, C, p, q)
  BY <1>0, <1>1, <1>2 DEF Joins
<1>6. /\ Takes(ses, h, g, k, s, C, p \o q)
      /\ Entrusted(h, g, k, s, p \o q) = Entrusted(h, g, k, s, p) \cup Entrusted(h, g, k, s, q)
      /\ Range(p \o q) = Range(p) \cup Range(q)
  BY <1>5, TakesJoin DEF Joined
<1> QED BY <1>1, <1>2, <1>3, <1>4, <1>6 DEF Paired

\* Three calls that fit one after the other.
Triple(ses, h, g, k, s, C, a, b, c) ==
  /\ Fits(ses, h, g, k, s, C \cup {b, c}, a) /\ Pair(ses, h, g, k, s, C, b, c)
  /\ Above(b.op, a.op) /\ Above(c.op, a.op)
  /\ Trust(h, g, k, s, a) \cap Trust(h, g, k, s, b) = {}
  /\ Trust(h, g, k, s, a) \cap Trust(h, g, k, s, c) = {}

\* What follows from it.
Tripled(ses, h, g, k, s, C, a, b, c) ==
  /\ Takes(ses, h, g, k, s, C, <<a, b, c>>)
  /\ Entrusted(h, g, k, s, <<a, b, c>>)
       = Trust(h, g, k, s, a) \cup Trust(h, g, k, s, b) \cup Trust(h, g, k, s, c)
  /\ Range(<<a, b, c>>) = {a, b, c} /\ DOMAIN <<a, b, c>> = {1, 2, 3}
  /\ <<a, b, c>>[1] = a /\ <<a, b, c>>[2] = b /\ <<a, b, c>>[3] = c

\* ... and three.
LEMMA TakesThree ==
  ASSUME NEW ses, NEW h, NEW g, NEW k, NEW s, NEW C, NEW a, NEW b, NEW c,
         Triple(ses, h, g, k, s, C, a, b, c)
  PROVE  Tripled(ses, h, g, k, s, C, a, b, c)
<1> DEFINE p == <<a>>
           q == <<b, c>>
<1>0. /\ Fits(ses, h, g, k, s, C \cup {b, c}, a) /\ Pair(ses, h, g, k, s, C, b, c)
      /\ Above(b.op, a.op) /\ Above(c.op, a.op)
      /\ Trust(h, g, k, s, a) \cap Trust(h, g, k, s, b) = {}
      /\ Trust(h, g, k, s, a) \cap Trust(h, g, k, s, c) = {}
  BY DEF Triple
<1>1. /\ Takes(ses, h, g, k, s, C \cup {b, c}, p) /\ Entrusted(h, g, k, s, p) = Trust(h, g, k, s, a)
      /\ Range(p) = {a} /\ DOMAIN p = {1} /\ p[1] = a
  BY <1>0, TakesOne
<1>2. /\ Takes(ses, h, g, k, s, C, q)
      /\ Entrusted(h, g, k, s, q) = Trust(h, g, k, s, b) \cup Trust(h, g, k, s, c)
      /\ Range(q) = {b, c} /\ DOMAIN q = {1, 2} /\ q[1] = b /\ q[2] = c
  <2>1. Paired(ses, h, g, k, s, C, b, c)
    BY <1>0, TakesTwo
  <2> QED BY <2>1 DEF Paired
<1>3. p \o q = <<a, b, c>>
  BY Tuples
<1>4. DOMAIN <<a, b, c>> = {1, 2, 3} /\ <<a, b, c>>[1] = a /\ <<a, b, c>>[2] = b
        /\ <<a, b, c>>[3] = c
  OBVIOUS
<1> HIDE DEF p, q
<1>5. Joins(ses, h, g, k, s, C, p, q)
  BY <1>0, <1>1, <1>2 DEF Joins
<1>6. /\ Takes(ses, h, g, k, s, C, p \o q)
      /\ Entrusted(h, g, k, s, p \o q) = Entrusted(h, g, k, s, p) \cup Entrusted(h, g, k, s, q)
      /\ Range(p \o q) = Range(p) \cup Range(q)
  BY <1>5, TakesJoin DEF Joined
<1>7. Range(<<a, b, c>>) = {a, b, c}
  BY <1>1, <1>2, <1>3, <1>6
<1>8. Entrusted(h, g, k, s, <<a, b, c>>) = Trust(h, g, k, s, a) \cup Trust(h, g, k, s,
        b) \cup Trust(h, g, k, s, c)
  BY <1>1, <1>2, <1>3, <1>6
<1> QED BY <1>3, <1>4, <1>6, <1>7, <1>8 DEF Tripled

\* The parts of a call put together
LEMMA CallParts ==
  ASSUME NEW name, NEW x, NEW dir, NEW e, NEW owner
  PROVE  /\ Op(name).op = name
         /\ Call(name, x).op = name /\ Call(name, x).x = x
         /\ CallOn(name, dir, x).op = name /\ CallOn(name, dir, x).x = x
         /\ CallOn(name, dir, x).dir = dir
         /\ CallWith(name, owner, dir, e).op = name /\ CallWith(name, owner, dir, e).dir = dir
         /\ CallWith(name, owner, dir, e).owner = owner /\ CallWith(name, owner, dir, e).e = e
  BY DEF Op, Call, CallOn, CallWith

\* An action that changes no object
LEMMA SameAction ==
  ASSUME Ok, todo # <<>>, NEW q, Then(q), SameLists, UNCHANGED heap, NEW n, n = Len(todo),
         Takes(session, heap, games, tickets, services, After(todo, n), q),
         IsQuiet(Head(todo), q), Rises(Head(todo), q),
         Entrusted(heap, games, tickets, services, q) = Trust(heap, games, tickets, services,
           Head(todo)),
         Trust(heap, games, tickets, services, Head(todo)) \subseteq Live(heap)
  PROVE  Ok'
<1>1. HeapOk(heap) /\ HeapOk(heap')
  BY DEF Ok, StateOk
<1>2. Frame(heap, heap')
  BY <1>1 DEF Frame, Steady, Stable, HeapOk
<1>3. Passed(todo, heap, games, tickets, services, q, heap', {})
  BY DEF Passed
<1>4. Takes(session, heap', games, tickets, services, After(todo, n), q)
  OBVIOUS
<1> QED BY <1>1, <1>2, <1>3, <1>4, FrameAction

\* NspAddFile keeps the invariant, and uses and closes only what is live.
LEMMA NspAddFileStep ==
  ASSUME Ok, NspAddFile
  PROVE  Ok' /\ fault' = fault
<1>n. PICK n : n = Len(todo)
  OBVIOUS
<1>a. PICK dir, owner, e : dir = Head(todo).dir /\ owner = Head(todo).owner /\ e = Head(todo).e
  OBVIOUS
<1>c. PICK c : c = CallWith("content_archive_create", owner, dir, e)
  OBVIOUS
<1>0. /\ Calling("nsp_addfile") /\ Use({dir}) /\ UNCHANGED heap /\ SameLists
      /\ Then(IF e.kind \in {"nca", "cnmt"} THEN <<c>> ELSE <<>>)
  BY <1>a, <1>c DEF NspAddFile, Arg, Is
<1>1. /\ HeapOk(heap) /\ IsCall(session, heap, games, Head(todo))
      /\ Head(todo).op = "nsp_addfile" /\ todo # <<>>
      /\ IsPlaced(heap, games, tickets, services, Head(todo), After(todo, n))
      /\ GamesOk(heap, games)
      /\ Trust(heap, games, tickets, services, Head(todo)) \subseteq Live(heap)
  BY <1>0, <1>n, OkFacts
<1>2. Trust(heap, games, tickets, services, Head(todo)) = {}
  BY <1>1 DEF Trust
<1>3. /\ owner \in Loaders(games) /\ dir \in DOMAIN heap /\ dir = heap[owner].dir
      /\ heap[owner].base = None
      /\ (e.kind \in {"nca", "cnmt"} => IsArchive(e))
  BY <1>1, <1>a DEF IsCall, OpsOfPackages
<1>4. owner # None /\ heap[dir].kind = "pfs" /\ heap[owner].kind = "loader" /\ owner \in DOMAIN heap
  BY <1>1, <1>3, LoaderFacts
<1>5. Later(After(todo, n), "nx_sys_destroy")
  BY <1>1 DEF IsPlaced, OpsOfPackages
<1>6. dir \in Live(heap)
  <2>1. dir \in Package(heap, owner)
    BY <1>3, <1>4, ObjectFacts, <1>1 DEF Package, Owned, None
  <2>2. Assured(heap, games, tickets, services, After(todo, n), dir)
    BY <1>3, <1>5, <2>1, PackageAssured
  <2> QED BY <1>n, <1>1, <2>2, AssuredFacts DEF Ok
<1>7. fault' = fault
  BY <1>0, <1>6, Unused
<1>8. CASE e.kind \in {"nca", "cnmt"}
  <2>1. c.op = "content_archive_create" /\ c.owner = owner /\ c.dir = dir /\ c.e = e
    BY <1>c, CallParts
  <2>2. Trust(heap, games, tickets, services, c) = {}
    BY <1>4, <2>1 DEF Trust
  <2>3. Fits(session, heap, games, tickets, services, After(todo, n), c)
    <3>1. IsCall(session, heap, games, c)
      BY <1>3, <1>4, <1>8, <2>1 DEF IsCall, Ops, OpsOfPackages
    <3>2. IsReady(heap, tickets, c)
      BY <1>3, <2>1 DEF IsReady
    <3>3. IsPlaced(heap, games, tickets, services, c, After(todo, n))
      BY <1>4, <1>5, <2>1 DEF IsPlaced, OpsOfPackages
    <3> QED BY <2>2, <3>1, <3>2, <3>3 DEF Fits, Whole
  <2>4. /\ Takes(session, heap, games, tickets, services, After(todo, n), <<c>>)
        /\ Entrusted(heap, games, tickets, services, <<c>>) = {}
    BY <2>2, <2>3, TakesOne
  <2>5. IsQuiet(Head(todo), <<c>>) /\ Rises(Head(todo), <<c>>)
    <3>1. Level(c.op) = 11 /\ Level(Head(todo).op) = 9
      BY <1>1, <2>1, Levels DEF OpsOfPackages
    <3> QED BY <1>1, <2>1, <3>1, QuietOne
  <2>6. Then(<<c>>)
    BY <1>0, <1>8
  <2>7. Ok'
    BY <1>n, <1>0, <1>1, <1>2, <2>4, <2>5, <2>6, SameAction
  <2> QED BY <1>7, <2>7
<1>9. CASE e.kind \notin {"nca", "cnmt"}
  <2>1. /\ Takes(session, heap, games, tickets, services, After(todo, n), <<>>)
        /\ Entrusted(heap, games, tickets, services, <<>>) = {}
    BY TakesNone, Zenon
  <2>2. IsQuiet(Head(todo), <<>>) /\ Rises(Head(todo), <<>>)
    BY <1>1, QuietNone
  <2>3. Then(<<>>)
    BY <1>0, <1>9
  <2>4. Ok'
    BY <1>n, <1>0, <1>1, <1>2, <2>1, <2>2, <2>3, SameAction
  <2> QED BY <1>7, <2>4
<1> QED BY <1>8, <1>9

\* A call for each of a sequence
LEMMA EachFacts ==
  ASSUME NEW s, IsSequence(s), NEW name, NEW dir, NEW owner
  PROVE  /\ LET q == Each(name, s)
            IN  IsSequence(q) /\ Len(q) = Len(s) /\ DOMAIN q = DOMAIN s
                /\ \A a \in DOMAIN s : q[a] = Call(name, s[a])
         /\ LET q == EachOn(name, dir, s)
            IN  IsSequence(q) /\ Len(q) = Len(s) /\ DOMAIN q = DOMAIN s
                /\ \A a \in DOMAIN s : q[a] = CallOn(name, dir, s[a])
         /\ LET q == EachWith(name, owner, dir, s)
            IN  IsSequence(q) /\ Len(q) = Len(s) /\ DOMAIN q = DOMAIN s
                /\ \A a \in DOMAIN s : q[a] = CallWith(name, owner, dir, s[a])
<1>1. Len(s) \in Nat /\ DOMAIN s = 1 .. Len(s)
  BY SequenceIs
<1> DEFINE p == Each(name, s)
           q == EachOn(name, dir, s)
           r == EachWith(name, owner, dir, s)
<1>3. IsSequence(p) /\ Len(p) = Len(s) /\ DOMAIN p = DOMAIN s
        /\ \A a \in DOMAIN s : p[a] = Call(name, s[a])
  <2>1. DOMAIN p = 1 .. Len(s) /\ p = [a \in 1 .. Len(s) |-> p[a]]
          /\ \A a \in DOMAIN s : p[a] = Call(name, s[a])
    BY <1>1 DEF Each
  <2> HIDE DEF p
  <2> QED BY <1>1, <2>1, SequenceBy
<1>4. IsSequence(q) /\ Len(q) = Len(s) /\ DOMAIN q = DOMAIN s
        /\ \A a \in DOMAIN s : q[a] = CallOn(name, dir, s[a])
  <2>1. DOMAIN q = 1 .. Len(s) /\ q = [a \in 1 .. Len(s) |-> q[a]]
          /\ \A a \in DOMAIN s : q[a] = CallOn(name, dir, s[a])
    BY <1>1 DEF EachOn
  <2> HIDE DEF q
  <2> QED BY <1>1, <2>1, SequenceBy
<1>5. IsSequence(r) /\ Len(r) = Len(s) /\ DOMAIN r = DOMAIN s
        /\ \A a \in DOMAIN s : r[a] = CallWith(name, owner, dir, s[a])
  <2>1. DOMAIN r = 1 .. Len(s) /\ r = [a \in 1 .. Len(s) |-> r[a]]
        /\ \A a \in DOMAIN s : r[a] = CallWith(name, owner, dir, s[a])
    BY <1>1 DEF EachWith
  <2> HIDE DEF r
  <2> QED BY <1>1, <2>1, SequenceBy
<1> QED BY <1>3, <1>4, <1>5

\* Calls that close one object
Frees(h, g, k, s, C, x) ==
  /\ x \in DOMAIN h /\ h[x].kind \notin FileKinds /\ (h[x].kind = "host" => h[x].dir = None)
  /\ h[x].kind \notin {"aes", "nca"} => \A j \in Over(h, x) : Assured(h, g, k, s, C, j)

\* A call of free fits what it is trusted with.
LEMMA FitsFree ==
  ASSUME NEW ses, NEW h, NEW g, NEW k, NEW s, NEW C, NEW x, Frees(h, g, k, s, C, x), NEW c,
         c = Call("free", x)
  PROVE  Fits(ses, h, g, k, s, C, c) /\ Trust(h, g, k, s, c) = {x} /\ c.op = "free"
         /\ Level(c.op) = 0
<1>1. /\ x \in DOMAIN h /\ h[x].kind \notin FileKinds /\ (h[x].kind = "host" => h[x].dir = None)
      /\ h[x].kind \notin {"aes", "nca"} => \A j \in Over(h, x) : Assured(h, g, k, s, C, j)
  BY DEF Frees
<1>2. c.op = "free" /\ c.x = x
  BY CallParts
<1>3. Trust(h, g, k, s, c) = {x}
  BY <1>2 DEF Trust
<1>4. IsCall(ses, h, g, c) /\ IsReady(h, k, c)
  BY <1>1, <1>2 DEF IsCall, IsReady, Ops, OpsOfPackages
<1>5. IsPlaced(h, g, k, s, c, C)
  BY <1>2 DEF IsPlaced, OpsOfPackages
<1>6. \A i : Whole(h, g, k, s, c, i) => i = x /\ h[x].kind \notin {"aes", "nca"}
  BY <1>2, <1>3 DEF Whole
<1>7. Fits(ses, h, g, k, s, C, c)
  BY <1>1, <1>4, <1>5, <1>6 DEF Fits
<1> QED BY <1>2, <1>3, <1>7, Levels

\* A call may close file x of directory dir.
ClosesFile(h, g, k, s, C, dir, x) ==
  /\ x \in DOMAIN h /\ dir \in DOMAIN h /\ IsFileOf(h, x, dir)
  /\ Assured(h, g, k, s, C, dir) /\ \A j \in Over(h, x) : Assured(h, g, k, s, C, j)

\* A call that closes a file fits.
LEMMA FitsCloseFile ==
  ASSUME NEW ses, NEW h, NEW g, NEW k, NEW s, NEW C, NEW x, NEW dir,
         ClosesFile(h, g, k, s, C, dir, x),
         NEW c, c = CallOn("close_file", dir, x)
  PROVE  Fits(ses, h, g, k, s, C, c) /\ Trust(h, g, k, s, c) = {x} /\ c.op = "close_file"
         /\ Level(c.op) = 0
<1>1. /\ x \in DOMAIN h /\ dir \in DOMAIN h /\ IsFileOf(h, x, dir)
      /\ Assured(h, g, k, s, C, dir) /\ \A j \in Over(h, x) : Assured(h, g, k, s, C, j)
  BY DEF ClosesFile
<1>2. c.op = "close_file" /\ c.x = x /\ c.dir = dir
  BY CallParts
<1>3. Trust(h, g, k, s, c) = {x}
  BY <1>2 DEF Trust
<1>4. IsCall(ses, h, g, c) /\ IsReady(h, k, c)
  BY <1>1, <1>2 DEF IsCall, IsReady, Ops, OpsOfPackages
<1>5. IsPlaced(h, g, k, s, c, C)
  BY <1>1, <1>2 DEF IsPlaced, OpsOfPackages
<1>6. \A i : Whole(h, g, k, s, c, i) => i = x
  BY <1>3 DEF Whole
<1>7. Fits(ses, h, g, k, s, C, c)
  BY <1>1, <1>4, <1>5, <1>6 DEF Fits
<1> QED BY <1>2, <1>3, <1>7, Levels

\* Two or three calls that keep no order with others
LEMMA QuietTwo ==
  ASSUME NEW c, c.op \notin {"nsp", "nsz", "get_file"}, NEW a, NEW b,
         {a.op, b.op} \cap {"nsp", "nsz", "nsz_addfile", "service"} = {},
         Level(a.op) # 0 => Level(c.op) # 0 /\ Level(c.op) <= Level(a.op),
         Level(b.op) # 0 => Level(c.op) # 0 /\ Level(c.op) <= Level(b.op)
  PROVE  IsQuiet(c, <<a, b>>) /\ Rises(c, <<a, b>>)
<1>1. PICK q : q = <<a, b>>
  OBVIOUS
<1>2. DOMAIN q = {1, 2} /\ q[1] = a /\ q[2] = b
  BY <1>1
<1>3. IsQuiet(c, q) /\ Rises(c, q)
  BY <1>2 DEF IsQuiet, Rises
<1> QED BY <1>1, <1>3

\* Three calls that open no package and fetch nothing.
LEMMA QuietThree ==
  ASSUME NEW c, c.op \notin {"nsp", "nsz", "get_file"}, NEW a, NEW b, NEW d,
         {a.op, b.op, d.op} \cap {"nsp", "nsz", "nsz_addfile", "service"} = {},
         Level(a.op) # 0 => Level(c.op) # 0 /\ Level(c.op) <= Level(a.op),
         Level(b.op) # 0 => Level(c.op) # 0 /\ Level(c.op) <= Level(b.op),
         Level(d.op) # 0 => Level(c.op) # 0 /\ Level(c.op) <= Level(d.op)
  PROVE  IsQuiet(c, <<a, b, d>>) /\ Rises(c, <<a, b, d>>)
<1>1. PICK q : q = <<a, b, d>>
  OBVIOUS
<1>2. DOMAIN q = {1, 2, 3} /\ q[1] = a /\ q[2] = b /\ q[3] = d
  BY <1>1
<1>3. IsQuiet(c, q) /\ Rises(c, q)
  BY <1>2 DEF IsQuiet, Rises
<1> QED BY <1>1, <1>3

\* The archive and the file it was made from
LEMMA ArchiveFileIs ==
  ASSUME NEW h, HeapOk(h), NEW x \in DOMAIN h, h[x].kind = "nca"
  PROVE  /\ h[x].base \in DOMAIN h /\ h[x].base < x /\ h[x].dir \in DOMAIN h /\ h[x].dir < x
         /\ x \in Nat
         /\ h[h[x].dir].kind \in DirKinds
         /\ Below(h, x) \in DOMAIN h /\ Below(h, x) <= h[x].base
         /\ IsFileOf(h, Below(h, x), h[x].dir)
         /\ h[h[x].base].kind = "aes" => Below(h, x) = h[h[x].base].base /\ Below(h, x) < h[x].base
                                          /\ Over(h, h[x].base) = {Below(h, x)}
         /\ h[h[x].base].kind # "aes" => Below(h, x) = h[x].base
         /\ h[h[x].base].kind \in FileKinds \cup {"aes"} /\ h[Below(h, x)].kind \in FileKinds
         /\ Over(h, x) = {h[x].base, h[x].dir}
<1>1. IsNca(h, x) /\ IsLayered(h, x) /\ x \in Nat
  BY ObjectFacts DEF HeapOk
<1>2. h[x].base \in DOMAIN h /\ Below(h, x) \in DOMAIN h /\ Below(h, x) <= h[x].base
        /\ h[x].base < x
  BY SectionFacts
<1>3. h[x].dir \in DOMAIN h /\ h[x].dir < x /\ h[h[x].dir].kind \in DirKinds
  BY <1>1, ObjectFacts DEF IsNca
<1>4. IsFileOf(h, Below(h, x), h[x].dir)
  BY <1>1 DEF IsNca, IsFileOf
<1>5. ASSUME h[h[x].base].kind = "aes"
      PROVE  Below(h, x) = h[h[x].base].base /\ Below(h, x) < h[x].base
             /\ Over(h, h[x].base) = {Below(h, x)}
  <2>1. Below(h, x) = h[h[x].base].base /\ h[h[x].base].dir = None
    BY <1>1, <1>5 DEF Below, IsNca
  <2>2. h[h[x].base].base < h[x].base
    BY <1>2, ObjectFacts
  <2>3. h[h[x].base].base # None
    <3>1. IsLayered(h, h[x].base)
      BY <1>2 DEF HeapOk
    <3> QED BY <1>5, <3>1 DEF IsLayered
  <2> QED BY <1>5, <2>1, <2>2, <2>3 DEF Over
<1>6. h[h[x].base].kind # "aes" => Below(h, x) = h[x].base
  BY DEF Below
<1>7. h[h[x].base].kind \in FileKinds \cup {"aes"} /\ h[Below(h, x)].kind \in FileKinds
  BY <1>1 DEF IsNca
<1>8. Over(h, x) = {h[x].base, h[x].dir}
  <2>1. h[x].base # None /\ h[x].dir # None
    BY <1>1 DEF IsNca, IsLayered
  <2> QED BY <2>1 DEF Over
<1> QED BY <1>1, <1>2, <1>3, <1>4, <1>5, <1>6, <1>7, <1>8

\* CloseWrapped keeps the invariant, and uses and closes only what is live.
LEMMA CloseWrappedStep ==
  ASSUME Ok, CloseWrapped
  PROVE  Ok' /\ fault' = fault
<1>n. PICK n : n = Len(todo)
  OBVIOUS
<1>a. PICK dir, x : dir = Head(todo).dir /\ x = Head(todo).x
  OBVIOUS
<1>b. PICK y : y = heap[x].base
  OBVIOUS
<1>c. PICK c : c = CallOn("close_file", dir, y)
  OBVIOUS
<1>0. Calling("close_wrapped") /\ Use({x}) /\ UNCHANGED heap /\ SameLists /\ Then(<<c>>)
  BY <1>a, <1>b, <1>c DEF CloseWrapped, Arg
<1>1. /\ HeapOk(heap) /\ IsCall(session, heap, games, Head(todo))
      /\ Head(todo).op = "close_wrapped" /\ todo # <<>>
      /\ IsPlaced(heap, games, tickets, services, Head(todo), After(todo, n))
      /\ Trust(heap, games, tickets, services, Head(todo)) \subseteq Live(heap)
  BY <1>0, <1>n, OkFacts
<1>2. Trust(heap, games, tickets, services, Head(todo)) = {y}
  BY <1>1, <1>a, <1>b DEF Trust
<1>3. x \in DOMAIN heap /\ dir \in DOMAIN heap /\ heap[x].kind = "aes" /\ IsFileOf(heap, y, dir)
  BY <1>1, <1>a, <1>b DEF IsCall
<1>4. Assured(heap, games, tickets, services, After(todo, n), dir)
        /\ Call("free", x) \in After(todo, n)
  BY <1>1, <1>a DEF IsPlaced
<1>5. y \in DOMAIN heap /\ y \in Nat
  BY <1>1, <1>2, ObjectFacts DEF Live
<1>6. ASSUME NEW j \in Over(heap, y)
      PROVE Assured(heap, games, tickets, services, After(todo, n), j)
  <2>1. Whole(heap, games, tickets, services, Head(todo), y)
    BY <1>1, <1>2 DEF Whole
  <2>2. Whole(heap, games, tickets, services, Head(todo), j)
          \/ Assured(heap, games, tickets, services, After(todo, n), j)
    BY <1>1, <1>n, <1>6, <2>1, WholeHead DEF Ok
  <2>3. j < y
    BY <1>1, <1>5, ObjectFacts
  <2> QED BY <1>2, <1>5, <2>2, <2>3 DEF Whole
<1>7. /\ Fits(session, heap, games, tickets, services, After(todo, n), c) /\ Level(c.op) = 0
      /\ Trust(heap, games, tickets, services, c) = {y} /\ c.op = "close_file"
  <2>1. ClosesFile(heap, games, tickets, services, After(todo, n), dir, y)
    BY <1>3, <1>4, <1>5, <1>6 DEF ClosesFile
  <2> QED BY <1>c, <2>1, FitsCloseFile
<1>8. /\ Takes(session, heap, games, tickets, services, After(todo, n), <<c>>)
      /\ Entrusted(heap, games, tickets, services, <<c>>) = {y}
  BY <1>7, TakesOne
<1>9. IsQuiet(Head(todo), <<c>>) /\ Rises(Head(todo), <<c>>)
  BY <1>1, <1>7, QuietOne
<1>10. Ok'
  BY <1>n, <1>0, <1>1, <1>2, <1>8, <1>9, SameAction
<1>11. x \in Live(heap)
  <2>1. PICK d \in 1 .. n - 1 : At(todo, d) = Call("free", x)
    BY <1>4 DEF After
  <2>2. d \in Turns(todo)
    BY <1>1, <1>n, HeadFacts DEF Ok
  <2>3. x \in Trust(heap, games, tickets, services, At(todo, d))
    <3>1. PICK b : b = Call("free", x)
      OBVIOUS
    <3>2. b.op = "free" /\ b.x = x
      BY <3>1, CallParts
    <3> QED BY <2>1, <3>1, <3>2 DEF Trust
  <2> QED BY <2>2, <2>3, LiveFacts DEF Ok, StateOk
<1>12. fault' = fault
  BY <1>0, <1>11, Unused
<1> QED BY <1>10, <1>12

\* CloseArchive keeps the invariant, and uses and closes only what is live.
LEMMA CloseArchiveStep ==
  ASSUME Ok, CloseArchive
  PROVE  Ok' /\ fault' = fault
<1>n. PICK n : n = Len(todo)
  OBVIOUS
<1>a. PICK x : x = Head(todo).x
  OBVIOUS
<1>b. PICK b, y, dir : b = heap[x].base /\ y = Below(heap, x) /\ dir = heap[x].dir
  OBVIOUS
<1>c. PICK C, cx : C = After(todo, n) /\ cx = Call("free", x)
  OBVIOUS
<1>0. Calling("close_archive") /\ Use({x}) /\ UNCHANGED heap /\ SameLists
        /\ Then(CloseOrder(x) \o <<cx>>)
  BY <1>a, <1>c DEF CloseArchive, Arg
<1>1. /\ HeapOk(heap) /\ IsCall(session, heap, games, Head(todo))
      /\ Head(todo).op = "close_archive" /\ todo # <<>>
      /\ Trust(heap, games, tickets, services, Head(todo)) \subseteq Live(heap)
  BY <1>0, <1>n, OkFacts
<1>2. Trust(heap, games, tickets, services, Head(todo)) = {x, b, y}
  BY <1>1, <1>a, <1>b DEF Trust
<1>3. x \in DOMAIN heap /\ heap[x].kind = "nca"
  BY <1>1, <1>a DEF IsCall
<1>4. /\ b \in DOMAIN heap /\ b < x /\ dir \in DOMAIN heap /\ dir < x /\ x \in Nat
      /\ heap[dir].kind \in DirKinds
      /\ y \in DOMAIN heap /\ y <= b /\ IsFileOf(heap, y, dir)
      /\ heap[b].kind = "aes" => y = heap[b].base /\ y < b /\ Over(heap, b) = {y}
      /\ heap[b].kind # "aes" => y = b
      /\ heap[b].kind \in FileKinds \cup {"aes"} /\ heap[y].kind \in FileKinds
      /\ Over(heap, x) = {b, dir}
  BY <1>1, <1>3, <1>b, ArchiveFileIs
<1>5. b \in Nat /\ y \in Nat /\ dir \in Nat
  BY <1>1, <1>4, ObjectFacts
<1>6. \A i \in {x, b, y} : Whole(heap, games, tickets, services, Head(todo), i)
  BY <1>1, <1>2 DEF Whole
<1>7. Assured(heap, games, tickets, services, C, dir)
  <2>1. dir \notin {x, b, y}
    BY <1>3, <1>4 DEF DirKinds, FileKinds
  <2>2. Whole(heap, games, tickets, services, Head(todo), dir)
          \/ Assured(heap, games, tickets, services, C, dir)
    BY <1>1, <1>n, <1>c, <1>4, <1>6, WholeHead DEF Ok
  <2> QED BY <1>2, <2>1, <2>2 DEF Whole
<1>8. ASSUME NEW j \in Over(heap, y) PROVE Assured(heap, games, tickets, services, C, j)
  <2>1. j < y
    BY <1>1, <1>4, ObjectFacts
  <2>2. j \notin {x, b, y}
    BY <1>4, <1>5, <2>1
  <2>3. Whole(heap, games, tickets, services, Head(todo), j)
          \/ Assured(heap, games, tickets, services, C, j)
    BY <1>1, <1>n, <1>c, <1>6, <1>8, WholeHead DEF Ok
  <2> QED BY <1>2, <2>2, <2>3 DEF Whole
<1>9. /\ Fits(session, heap, games, tickets, services, C, cx)
      /\ Trust(heap, games, tickets, services, cx) = {x}
      /\ cx.op = "free" /\ Level(cx.op) = 0
  <2>1. Frees(heap, games, tickets, services, C, x)
    BY <1>3 DEF FileKinds, Frees
  <2> QED BY <1>c, <2>1, FitsFree
<1>10. fault' = fault
  BY <1>0, <1>1, <1>2, Unused
<1>11. CASE heap[b].kind = "aes"
  <2>1. PICK a, f : a = CallOn("close_wrapped", dir, b) /\ f = Call("free", b)
    OBVIOUS
  <2>2. Then(<<a, f, cx>>)
    <3>1. CloseOrder(x) = <<a, f>>
      BY <1>11, <1>b, <2>1 DEF CloseOrder, IsEncrypted
    <3> QED BY <1>0, <3>1, Tuples
  <2>3. /\ Fits(session, heap, games, tickets, services, C \cup {cx}, f)
        /\ Trust(heap, games, tickets, services, f) = {b} /\ f.op = "free"
    <3>1. Frees(heap, games, tickets, services, C \cup {cx}, b)
      BY <1>4, <1>11 DEF FileKinds, Frees
    <3> QED BY <2>1, <3>1, FitsFree
  <2>4. a.op = "close_wrapped" /\ a.dir = dir /\ a.x = b
    BY <2>1, CallParts
  <2>5. Trust(heap, games, tickets, services, a) = {y}
    BY <1>4, <1>11, <2>4 DEF Trust
  <2>6. Fits(session, heap, games, tickets, services, C \cup {f, cx}, a)
    <3>0. C \subseteq C \cup {f, cx}
      OBVIOUS
    <3>1. IsCall(session, heap, games, a) /\ IsReady(heap, tickets, a)
      BY <1>4, <1>11, <2>4 DEF IsCall, IsReady, Ops, OpsOfPackages
    <3>2. Assured(heap, games, tickets, services, C \cup {f, cx}, dir)
      BY <1>7, <3>0, MoreAssured
    <3>3. IsPlaced(heap, games, tickets, services, a, C \cup {f, cx})
      BY <2>1, <2>4, <3>2 DEF IsPlaced, OpsOfPackages
    <3>4. \A i : Whole(heap, games, tickets, services, a, i) => i = y
      BY <2>5 DEF Whole
    <3>5. \A j \in Over(heap, y) : Assured(heap, games, tickets, services, C \cup {f, cx}, j)
      BY <1>8, <3>0, MoreAssured
    <3> QED BY <3>1, <3>3, <3>4, <3>5 DEF Fits
  <2>7. Level(a.op) = 0 /\ Level(f.op) = 0 /\ Level(cx.op) = 0
    BY <1>9, <2>3, <2>4, Levels
  <2>8. Triple(session, heap, games, tickets, services, C, a, f, cx)
    <3>1. Above(f.op, a.op) /\ Above(cx.op, a.op) /\ Above(cx.op, f.op)
      BY <2>7 DEF Above
    <3>2. {y} \cap {b} = {} /\ {y} \cap {x} = {} /\ {b} \cap {x} = {}
      BY <1>4, <1>5, <1>11
    <3> QED BY <1>9, <2>3, <2>5, <2>6, <3>1, <3>2 DEF Triple, Pair
  <2>9. /\ Takes(session, heap, games, tickets, services, C, <<a, f, cx>>)
        /\ Entrusted(heap, games, tickets, services, <<a, f, cx>>) = {x, b, y}
    <3>1. Tripled(session, heap, games, tickets, services, C, a, f, cx)
      BY <2>8, TakesThree
    <3>2. {y} \cup {b} \cup {x} = {x, b, y}
      OBVIOUS
    <3> QED BY <1>9, <2>3, <2>5, <3>1, <3>2 DEF Tripled
  <2>10. IsQuiet(Head(todo), <<a, f, cx>>) /\ Rises(Head(todo), <<a, f, cx>>)
    BY <1>1, <1>9, <2>3, <2>4, <2>7, QuietThree
  <2>11. Ok'
    BY <1>n, <1>0, <1>1, <1>2, <1>c, <2>2, <2>9, <2>10, SameAction
  <2> QED BY <1>10, <2>11
<1>12. CASE heap[b].kind # "aes"
  <2>1. PICK a : a = CallOn("close_file", dir, b)
    OBVIOUS
  <2>2. Then(<<a, cx>>)
    <3>1. CloseOrder(x) = <<a>>
      BY <1>12, <1>b, <2>1 DEF CloseOrder, IsEncrypted
    <3> QED BY <1>0, <3>1, Tuples
  <2>3. y = b
    BY <1>4, <1>12
  <2>4. /\ Fits(session, heap, games, tickets, services, C \cup {cx}, a)
        /\ Trust(heap, games, tickets, services, a) = {b} /\ a.op = "close_file" /\ Level(a.op) = 0
    <3>0. C \subseteq C \cup {cx}
      OBVIOUS
    <3>1. Assured(heap, games, tickets, services, C \cup {cx}, dir)
      BY <1>7, <3>0, MoreAssured
    <3>2. \A j \in Over(heap, b) : Assured(heap, games, tickets, services, C \cup {cx}, j)
      BY <1>8, <2>3, <3>0, MoreAssured
    <3>3. ClosesFile(heap, games, tickets, services, C \cup {cx}, dir, b)
      BY <1>4, <2>3, <3>1, <3>2 DEF ClosesFile
    <3> QED BY <2>1, <3>3, FitsCloseFile
  <2>5. Pair(session, heap, games, tickets, services, C, a, cx)
    <3>1. Above(cx.op, a.op)
      BY <1>9, <2>4 DEF Above
    <3>2. {b} \cap {x} = {}
      BY <1>4, <1>5
    <3> QED BY <1>9, <2>4, <3>1, <3>2 DEF Pair
  <2>6. /\ Takes(session, heap, games, tickets, services, C, <<a, cx>>)
        /\ Entrusted(heap, games, tickets, services, <<a, cx>>) = {x, b, y}
    <3>1. Paired(session, heap, games, tickets, services, C, a, cx)
      BY <2>5, TakesTwo
    <3>2. {b} \cup {x} = {x, b, y}
      BY <2>3
    <3> QED BY <1>9, <2>4, <3>1, <3>2 DEF Paired
  <2>7. IsQuiet(Head(todo), <<a, cx>>) /\ Rises(Head(todo), <<a, cx>>)
    BY <1>1, <1>9, <2>4, QuietTwo
  <2>8. Ok'
    BY <1>n, <1>0, <1>1, <1>2, <1>c, <2>2, <2>6, <2>7, SameAction
  <2> QED BY <1>10, <2>8
<1> QED BY <1>11, <1>12

\* Calls that each fit and are trusted with something of their own.
Apiece(ses, h, g, k, s, C, q) ==
  /\ IsSequence(q) /\ \A a \in DOMAIN q : Fits(ses, h, g, k, s, C, q[a])
  /\ \A a, b \in DOMAIN q : a # b => Above(q[b].op, q[a].op)
       /\ Trust(h, g, k, s, q[a]) \cap Trust(h, g, k, s, q[b]) = {}

\* Calls that each have something of their own.
LEMMA TakesApiece ==
  ASSUME NEW ses, NEW h, NEW g, NEW k, NEW s, NEW C, NEW q, Apiece(ses, h, g, k, s, C, q)
  PROVE  Takes(ses, h, g, k, s, C, q)
<1>1. IsSequence(q) /\ \A a \in DOMAIN q : Fits(ses, h, g, k, s, C, q[a])
  BY DEF Apiece
<1>2. ASSUME NEW b \in DOMAIN q, NEW a \in 1 .. b - 1
      PROVE  Above(q[b].op, q[a].op) /\ Trust(h, g, k, s, q[a]) \cap Trust(h, g, k, s, q[b]) = {}
  <2>1. a \in DOMAIN q /\ a # b
    BY <1>1, SequenceIs
  <2> QED BY <2>1 DEF Apiece
<1> QED BY <1>1, <1>2, TakesAll

\* Calls that put nothing before others in the order
LEMMA QuietJoin ==
  ASSUME NEW c, NEW p, NEW q, IsQuiet(c, p), Rises(c, p), IsQuiet(c, q), Rises(c, q),
         \A a \in DOMAIN (p \o q) : (\E i \in DOMAIN p : (p \o q)[a] = p[i])
           \/ (\E i \in DOMAIN q : (p \o q)[a] = q[i])
  PROVE  IsQuiet(c, p \o q) /\ Rises(c, p \o q)
<1>1. PICK r : r = p \o q
  OBVIOUS
<1>2. \A a \in DOMAIN r : (\E i \in DOMAIN p : r[a] = p[i]) \/ (\E i \in DOMAIN q : r[a] = q[i])
  BY <1>1
<1>3. IsQuiet(c, r) /\ Rises(c, r)
  BY <1>2 DEF IsQuiet, Rises
<1> QED BY <1>1, <1>3

\* What an archive owns besides
LEMMA OwnedKinds ==
  ASSUME NEW h, HeapOk(h), NEW n \in DOMAIN h, h[n].kind = "nca", NEW i \in Owned(h, n)
  PROVE  i \in DOMAIN h /\ h[i].kind \in FileKinds \cup {"aes", "pfs", "romfs"}
         /\ (i < n => i \in {h[n].base, Below(h, n)}) /\ (i > n => i \in SectionObjects(h, n))
         /\ (h[i].kind \in {"pfs", "romfs"} => h[i].dir = None /\ h[i].base # None /\ i > n)
<1>1. i \in {h[n].base, Below(h, n)} \cup SectionObjects(h, n)
  BY DEF Owned
<1>2. /\ h[n].base \in DOMAIN h /\ h[n].base < n /\ Below(h, n) \in DOMAIN h
      /\ Below(h, n) <= h[n].base
      /\ h[h[n].base].kind \in FileKinds \cup {"aes"} /\ h[Below(h, n)].kind \in FileKinds
  BY ArchiveFileIs
<1>3. n \in Nat /\ h[n].base \in Nat /\ DOMAIN h = 1 .. Len(h)
  BY ObjectFacts
<1>4. CASE i \in {h[n].base, Below(h, n)}
  BY <1>2, <1>3, <1>4 DEF FileKinds
<1>5. CASE i \in SectionObjects(h, n)
  <2>1. PICK p \in Items(h, n) : i = p.file \/ i = p.fs
    BY <1>5 DEF SectionObjects
  <2>2. /\ p.file \in DOMAIN h /\ p.fs \in DOMAIN h /\ n < p.file /\ p.fs = p.file + 1
        /\ h[p.fs].kind \in {"pfs", "romfs"} /\ h[p.fs].base = p.file /\ h[p.fs].dir = None
        /\ h[p.file].kind \in {"offset", "aes"} /\ h[p.file].dir = None
    BY <2>1, SectionFacts
  <2>3. i > n
    BY <1>3, <2>1, <2>2
  <2> QED BY <1>3, <1>5, <2>1, <2>2, <2>3 DEF FileKinds, None
<1> QED BY <1>1, <1>4, <1>5

\* The directories in one list of an archive
Contents(list) == { p.file : p \in Range(list) } \cup { p.fs : p \in Range(list) }

\* Calls q destroy the sections of a list of archive n, which stays open.
Sectioned(h, g, k, s, C, n, list, kind, q) ==
  /\ HeapOk(h) /\ n \in DOMAIN h /\ h[n].kind = "nca" /\ kind \in {"pfs", "romfs"}
  /\ IsSectionList(h, n, list, kind) /\ IsSequence(list) /\ Range(list) \subseteq Items(h, n)
  /\ Assured(h, g, k, s, C, n) /\ Assured(h, g, k, s, C, Below(h, n))
  /\ q = EachOn("destroy_file", n, list)

\* The calls of nca_destroy_files take all of a list.
LEMMA DestroyList ==
  ASSUME NEW ses, NEW h, NEW g, NEW k, NEW s, NEW C, NEW n, NEW list, NEW kind, NEW q,
         Sectioned(h, g, k, s, C, n, list, kind, q)
  PROVE  /\ Takes(ses, h, g, k, s, C, q)
         /\ \A a \in DOMAIN q : q[a].op = "destroy_file"
         /\ Entrusted(h, g, k, s, q) = Contents(list)
<1> SUFFICES
      ASSUME HeapOk(h), n \in DOMAIN h, h[n].kind = "nca", kind \in {"pfs", "romfs"},
             IsSectionList(h, n, list, kind), IsSequence(list), Range(list) \subseteq Items(h, n),
             Assured(h, g, k, s, C, n), Assured(h, g, k, s, C, Below(h, n)),
             q = EachOn("destroy_file", n, list)
      PROVE  /\ Takes(ses, h, g, k, s, C, q)
             /\ \A a \in DOMAIN q : q[a].op = "destroy_file"
             /\ Entrusted(h, g, k, s,
                  q) = { p.file : p \in Range(list) } \cup { p.fs : p \in Range(list) }
  BY DEF Sectioned, Contents
<1>1. IsSequence(q) /\ DOMAIN q = DOMAIN list
        /\ \A a \in DOMAIN list : q[a] = CallOn("destroy_file", n, list[a])
  BY EachFacts
<1>2. ASSUME NEW a \in DOMAIN q
      PROVE  /\ q[a].op = "destroy_file" /\ q[a].x = list[a] /\ q[a].dir = n
             /\ Trust(h, g, k, s, q[a]) = {list[a].fs, list[a].file} /\ list[a] \in Items(h, n)
  <2>1. q[a].op = "destroy_file" /\ q[a].x = list[a] /\ q[a].dir = n
    BY <1>1, CallParts
  <2>2. list[a] \in Items(h, n)
    BY <1>1, SequenceIs
  <2> QED BY <2>1, <2>2 DEF Trust
<1>3. Level("destroy_file") = 0
  BY Levels
<1>4. ASSUME NEW a \in DOMAIN q PROVE Fits(ses, h, g, k, s, C, q[a])
  <2>1. PICK c, p : c = q[a] /\ p = list[a]
    OBVIOUS
  <2>2. c.op = "destroy_file" /\ c.x = p /\ c.dir = n /\ Trust(h, g, k, s, c) = {p.fs, p.file}
          /\ p \in Items(h, n)
    BY <1>2, <2>1
  <2>3. IsCall(ses, h, g, c) /\ IsReady(h, k, c)
    BY <2>2 DEF IsCall, IsReady, Ops, OpsOfPackages
  <2>4. IsPlaced(h, g, k, s, c, C)
    BY <2>2 DEF IsPlaced, OpsOfPackages
  <2>5. ASSUME NEW i, Whole(h, g, k, s, c, i), NEW j \in Over(h, i)
        PROVE  Whole(h, g, k, s, c, j) \/ Assured(h, g, k, s, C, j)
    <3>1. h[p.fs].base = p.file /\ h[p.fs].dir = None /\ h[p.file].base = Below(h, n)
            /\ h[p.file].dir = None
      BY <2>2, SectionFacts
    <3>2. i = p.fs \/ i = p.file
      BY <2>2, <2>5 DEF Whole
    <3>3. CASE i = p.fs
      <4>1. j = p.file
        BY <2>5, <3>1, <3>3 DEF Over
      <4> QED BY <2>2, <4>1 DEF Whole
    <3>4. CASE i = p.file
      <4>1. j = Below(h, n)
        BY <2>5, <3>1, <3>4 DEF Over
      <4> QED BY <4>1
    <3> QED BY <3>2, <3>3, <3>4
  <2> QED BY <2>1, <2>3, <2>4, <2>5 DEF Fits
<1>5. ASSUME NEW a \in DOMAIN q, NEW b \in DOMAIN q, a # b
      PROVE  Above(q[b].op, q[a].op) /\ Trust(h, g, k, s, q[a]) \cap Trust(h, g, k, s, q[b]) = {}
  <2>1. Above(q[b].op, q[a].op)
    BY <1>2, <1>3 DEF Above
  <2>2. list[a].fs # list[b].fs
    BY <1>1, <1>5 DEF IsSectionList
  <2>3. /\ list[a].fs = list[a].file + 1 /\ list[b].fs = list[b].file + 1
        /\ h[list[a].fs].kind \in {"pfs", "romfs"} /\ h[list[b].fs].kind \in {"pfs", "romfs"}
        /\ h[list[a].file].kind \in {"offset", "aes"} /\ h[list[b].file].kind \in {"offset", "aes"}
    BY <1>2, SectionFacts
  <2>4. {list[a].fs, list[a].file} \cap {list[b].fs, list[b].file} = {}
    BY <2>2, <2>3
  <2> QED BY <1>2, <2>1, <2>4
<1>6. Takes(ses, h, g, k, s, C, q)
  <2>1. Apiece(ses, h, g, k, s, C, q)
    BY <1>1, <1>4, <1>5 DEF Apiece
  <2> QED BY <2>1, TakesApiece
<1>7. Entrusted(h, g, k, s, q) = { p.file : p \in Range(list) } \cup { p.fs : p \in Range(list) }
  <2>1. Range(list) = { list[a] : a \in DOMAIN q }
    BY <1>1 DEF Range
  <2>2. Entrusted(h, g, k, s, q) = UNION { {list[a].fs, list[a].file} : a \in DOMAIN q }
    BY <1>2 DEF Entrusted
  <2>3. UNION { {list[a].fs,
          list[a].file} : a \in DOMAIN q } = { list[a].file : a \in DOMAIN q } \cup { list[a].fs : a \in DOMAIN q }
    OBVIOUS
  <2> QED BY <2>1, <2>2, <2>3
<1> QED BY <1>2, <1>3, <1>6, <1>7

\* ContentArchiveDestroy keeps the invariant, and uses and closes only what is live.
LEMMA ContentArchiveDestroyStep ==
  ASSUME Ok, ContentArchiveDestroy
  PROVE  Ok' /\ fault' = fault
<1>n. PICK n : n = Len(todo)
  OBVIOUS
<1>a. PICK x : x = Head(todo).x
  OBVIOUS
<1>b. PICK b, y, dir : b = heap[x].base /\ y = Below(heap, x) /\ dir = heap[x].dir
  OBVIOUS
<1>c. PICK C, c, p, q : /\ C = After(todo, n) /\ c = Call("close_archive", x)
                        /\ p = EachOn("destroy_file", x, heap[x].pfs_list)
                        /\ q = EachOn("destroy_file", x, heap[x].romfs_list)
  OBVIOUS
<1>0. Calling("content_archive_destroy") /\ Use({x}) /\ UNCHANGED heap /\ SameLists
        /\ Then(p \o q \o <<c>>)
  BY <1>a, <1>c DEF ContentArchiveDestroy, Arg
<1>1. /\ HeapOk(heap) /\ IsCall(session, heap, games, Head(todo))
      /\ Head(todo).op = "content_archive_destroy" /\ todo # <<>>
      /\ Trust(heap, games, tickets, services, Head(todo)) \subseteq Live(heap)
  BY <1>0, <1>n, OkFacts
<1>2. Trust(heap, games, tickets, services, Head(todo)) = Archive(heap, x)
  BY <1>1, <1>a DEF Trust
<1>3. x \in DOMAIN heap /\ heap[x].kind = "nca"
  BY <1>1, <1>a DEF IsCall
<1>4. /\ b \in DOMAIN heap /\ b < x /\ dir \in DOMAIN heap /\ dir < x /\ x \in Nat
      /\ heap[dir].kind \in DirKinds
      /\ y \in DOMAIN heap /\ y <= b /\ IsFileOf(heap, y, dir)
      /\ heap[b].kind = "aes" => y = heap[b].base /\ y < b /\ Over(heap, b) = {y}
      /\ heap[b].kind # "aes" => y = b
      /\ heap[b].kind \in FileKinds \cup {"aes"} /\ heap[y].kind \in FileKinds
      /\ Over(heap, x) = {b, dir}
  BY <1>1, <1>3, <1>b, ArchiveFileIs
<1>5. b \in Nat /\ y \in Nat /\ dir \in Nat
  BY <1>1, <1>4, ObjectFacts
<1>6. Archive(heap, x) = {x, b, y} \cup SectionObjects(heap, x)
        /\ \A i \in SectionObjects(heap, x) : i > x /\ i \in Nat
  <2>1. Archive(heap, x) = {x, b, y} \cup SectionObjects(heap, x)
    BY <1>3, <1>b DEF Archive, Owned
  <2>2. ASSUME NEW i \in SectionObjects(heap, x) PROVE i > x /\ i \in Nat
    <3>1. PICK z \in Items(heap, x) : i = z.file \/ i = z.fs
      BY <2>2 DEF SectionObjects
    <3>2. z.file \in DOMAIN heap /\ z.fs \in DOMAIN heap /\ x < z.file /\ z.fs = z.file + 1
      BY <1>1, <1>3, <3>1, SectionFacts
    <3>3. z.file \in Nat /\ z.fs \in Nat
      BY <1>1, <3>2, ObjectFacts
    <3> QED BY <1>4, <3>1, <3>2, <3>3
  <2> QED BY <2>1, <2>2
<1>7. \A i : Whole(heap, games, tickets, services, Head(todo), i) <=> i \in Archive(heap, x)
  BY <1>1, <1>2 DEF Whole
<1>8. ASSUME NEW i \in Archive(heap, x), NEW j \in Over(heap, i), j \notin Archive(heap, x)
      PROVE  Assured(heap, games, tickets, services, C, j)
  BY <1>1, <1>n, <1>c, <1>7, <1>8, WholeHead DEF Ok
<1>9. c.op = "close_archive" /\ c.x = x /\ Level(c.op) = 0
  BY <1>c, CallParts, Levels
<1>10. /\ Trust(heap, games, tickets, services, c) = {x, b, y}
       /\ \A i : Whole(heap, games, tickets, services, c, i) <=> i \in {x, b, y}
  <2>1. Trust(heap, games, tickets, services, c) = {x, b, y}
    BY <1>9, <1>b DEF Trust
  <2> QED BY <1>9, <2>1 DEF Whole
<1>11. Fits(session, heap, games, tickets, services, C, c)
  <2>1. IsCall(session, heap, games, c) /\ IsReady(heap, tickets, c)
    BY <1>3, <1>9 DEF IsCall, IsReady, Ops, OpsOfPackages
  <2>2. IsPlaced(heap, games, tickets, services, c, C)
    BY <1>9 DEF IsPlaced, OpsOfPackages
  <2>3. ASSUME NEW i \in {x, b, y}, NEW j \in Over(heap, i)
        PROVE  j \in {x, b, y} \/ Assured(heap, games, tickets, services, C, j)
    <3>1. j < i /\ j \in DOMAIN heap
      BY <1>1, <1>3, <1>4, <2>3, ObjectFacts
    <3>2. j \in Nat
      BY <1>1, <3>1, ObjectFacts
    <3>3. j \in Archive(heap, x) => j \in {x, b, y}
      BY <1>4, <1>5, <1>6, <3>1, <3>2
    <3> QED BY <1>6, <1>8, <2>3, <3>3
  <2> QED BY <1>10, <2>1, <2>2, <2>3 DEF Fits
<1>12. /\ Takes(session, heap, games, tickets, services, C, <<c>>)
       /\ Entrusted(heap, games, tickets, services, <<c>>) = {x, b, y}
       /\ Range(<<c>>) = {c} /\ DOMAIN <<c>> = {1} /\ <<c>>[1] = c
  BY ONLY <1>10, <1>11, TakesOne
<1>13. \A D : c \in D => Assured(heap, games, tickets, services, D, x)
         /\ Assured(heap, games, tickets, services, D, y)
  BY <1>10 DEF Assured
<1>14. IsNca(heap, x) /\ IsObject(heap, x)
  BY <1>1, <1>3 DEF HeapOk
<1>15. /\ IsSectionList(heap, x, heap[x].pfs_list, "pfs")
       /\ IsSectionList(heap, x, heap[x].romfs_list, "romfs")
       /\ IsSequence(heap[x].pfs_list) /\ IsSequence(heap[x].romfs_list)
       /\ Range(heap[x].pfs_list) \subseteq Items(heap, x)
       /\ Range(heap[x].romfs_list) \subseteq Items(heap, x)
       /\ Items(heap, x) = Range(heap[x].pfs_list) \cup Range(heap[x].romfs_list)
  BY <1>3, <1>14 DEF IsNca, IsObject, Items
<1> DEFINE P == Contents(heap[x].pfs_list)
           Q == Contents(heap[x].romfs_list)
<1>16. SectionObjects(heap, x) = P \cup Q /\ P \cap Q = {}
  <2>1. SectionObjects(heap, x) = P \cup Q
    BY <1>15 DEF SectionObjects, Contents
  <2>2. ASSUME NEW u \in Range(heap[x].pfs_list), NEW v \in Range(heap[x].romfs_list)
        PROVE  {u.file, u.fs} \cap {v.file, v.fs} = {}
    <3>1. heap[u.fs].kind = "pfs" /\ heap[v.fs].kind = "romfs"
      BY <1>15 DEF IsSectionList, Range
    <3>2. u.fs = u.file + 1 /\ v.fs = v.file + 1 /\ heap[u.file].kind \in {"offset", "aes"}
            /\ heap[v.file].kind \in {"offset", "aes"}
      BY <1>1, <1>3, <1>15, SectionFacts
    <3> QED BY <3>1, <3>2
  <2> QED BY <2>1, <2>2 DEF Contents
<1> HIDE DEF P, Q
<1>17. /\ Takes(session, heap, games, tickets, services, C \cup {c}, q)
       /\ \A a \in DOMAIN q : q[a].op = "destroy_file"
       /\ Entrusted(heap, games, tickets, services, q) = Q
  <2>1. Assured(heap, games, tickets, services, C \cup {c}, x)
          /\ Assured(heap, games, tickets, services, C \cup {c}, y)
    BY <1>13
  <2>2. Sectioned(heap, games, tickets, services, C \cup {c}, x, heap[x].romfs_list, "romfs", q)
    BY <1>1, <1>3, <1>15, <1>b, <1>c, <2>1 DEF Sectioned
  <2> QED BY <2>2, DestroyList DEF Q
<1>18. /\ Takes(session, heap, games, tickets, services, C, q \o <<c>>)
       /\ IsSequence(q \o <<c>>) /\ Entrusted(heap, games, tickets, services,
            q \o <<c>>) = Q \cup {x, b, y}
       /\ Range(q \o <<c>>) = Range(q) \cup {c}
       /\ \A a \in DOMAIN (q \o <<c>>) : (q \o <<c>>)[a].op \in {"destroy_file", "close_archive"}
  <2>1. PICK r : r = <<c>>
    OBVIOUS
  <2>2. Joins(session, heap, games, tickets, services, C, q, r)
    <3>1. Q \cap {x, b, y} = {}
      BY <1>4, <1>5, <1>6, <1>16
    <3>2. \A i \in DOMAIN q : \A j \in DOMAIN r : Above(r[j].op, q[i].op)
      BY <1>9, <1>12, <1>17, <2>1 DEF Above
    <3> QED BY <1>12, <1>17, <2>1, <3>1, <3>2 DEF Joins
  <2>3. Joined(session, heap, games, tickets, services, C, q, r)
    BY <2>2, TakesJoin
  <2>4. Range(r) = {c} /\ (\A i \in DOMAIN r : r[i].op = "close_archive")
          /\ Entrusted(heap, games, tickets, services, r) = {x, b, y}
    BY <1>9, <1>12, <2>1
  <2>5. /\ Takes(session, heap, games, tickets, services, C, q \o r)
        /\ IsSequence(q \o r) /\ Entrusted(heap, games, tickets, services, q \o r) = Q \cup {x, b,
             y}
        /\ Range(q \o r) = Range(q) \cup {c}
        /\ \A a \in DOMAIN (q \o r) : (q \o r)[a].op \in {"destroy_file", "close_archive"}
    BY <1>17, <2>3, <2>4, Zenon DEF Joined
  <2> QED BY <2>1, <2>5
<1>19. PICK r : r = q \o <<c>>
  OBVIOUS
<1>20. /\ Takes(session, heap, games, tickets, services, C \cup Range(r), p)
       /\ \A a \in DOMAIN p : p[a].op = "destroy_file"
       /\ Entrusted(heap, games, tickets, services, p) = P /\ IsSequence(p) /\ IsSequence(q)
  <2>0. c \in C \cup Range(r)
    BY <1>18, <1>19
  <2>1. Assured(heap, games, tickets, services, C \cup Range(r), x)
          /\ Assured(heap, games, tickets, services, C \cup Range(r), y)
    BY <1>13, <2>0
  <2>2. IsSequence(p) /\ IsSequence(q)
    BY <1>15, <1>c, EachFacts
  <2>3. Sectioned(heap, games, tickets, services, C \cup Range(r), x, heap[x].pfs_list, "pfs", p)
    BY <1>1, <1>3, <1>15, <1>b, <1>c, <2>1 DEF Sectioned
  <2> QED BY <2>2, <2>3, DestroyList DEF P
<1>21. Joined(session, heap, games, tickets, services, C, p, r)
  <2>1. P \cap (Q \cup {x, b, y}) = {}
    BY <1>4, <1>5, <1>6, <1>16
  <2>2. \A j \in DOMAIN r : r[j].op \in {"destroy_file", "close_archive"}
    BY <1>18, <1>19
  <2>3. Level("destroy_file") = 0
    BY Levels
  <2>4. \A i \in DOMAIN p : \A j \in DOMAIN r : Above(r[j].op, p[i].op)
    BY <1>20, <2>2, <2>3 DEF Above
  <2>5. Joins(session, heap, games, tickets, services, C, p, r)
    BY <1>18, <1>19, <1>20, <2>1, <2>4 DEF Joins
  <2> QED BY <2>5, TakesJoin
<1>22. Then(p \o r)
  <2>1. p \o q \o <<c>> = p \o r
    <3>1. IsSequence(<<c>>)
      BY Small, Zenon
    <3>2. IsSequence(p) /\ IsSequence(q)
      BY <1>20
    <3> DEFINE S == Range(p) \cup Range(q) \cup Range(<<c>>)
    <3>3. p \in Seq(S) /\ q \in Seq(S) /\ <<c>> \in Seq(S)
      <4>1. p \in Seq(Range(p)) /\ q \in Seq(Range(q)) /\ <<c>> \in Seq(Range(<<c>>))
        BY <3>1, <3>2 DEF IsSequence
      <4>2. Range(p) \subseteq S /\ Range(q) \subseteq S /\ Range(<<c>>) \subseteq S
        OBVIOUS
      <4> HIDE DEF S
      <4> QED BY <4>1, <4>2, SeqMonotonic
    <3> HIDE DEF S
    <3> QED BY <1>19, <3>3, ConcatAssociative
  <2> QED BY <1>0, <2>1
<1>23. /\ Takes(session, heap, games, tickets, services, C, p \o r)
       /\ Entrusted(heap, games, tickets, services, p \o r) = Archive(heap, x)
       /\ \A a \in DOMAIN (p \o r) : (p \o r)[a].op \in {"destroy_file", "close_archive"}
  <2>1. Entrusted(heap, games, tickets, services, p \o r) = P \cup (Q \cup {x, b, y})
    BY <1>18, <1>19, <1>20, <1>21 DEF Joined
  <2>2. P \cup (Q \cup {x, b, y}) = Archive(heap, x)
    BY <1>6, <1>16
  <2>3. \A j \in DOMAIN r : r[j].op \in {"destroy_file", "close_archive"}
    BY <1>18, <1>19
  <2>4. \A a \in DOMAIN (p \o r) : (p \o r)[a].op \in {"destroy_file", "close_archive"}
    BY <1>20, <1>21, <2>3, Zenon DEF Joined
  <2> QED BY <1>21, <2>1, <2>2, <2>4 DEF Joined
<1>24. IsQuiet(Head(todo), p \o r) /\ Rises(Head(todo), p \o r)
  <2>1. PICK t : t = p \o r
    OBVIOUS
  <2>2. \A a \in DOMAIN t : t[a].op \in {"destroy_file", "close_archive"}
    BY <1>23, <2>1
  <2>3. Level("destroy_file") = 0 /\ Level("close_archive") = 0
    BY Levels
  <2>4. IsQuiet(Head(todo), t) /\ Rises(Head(todo), t)
    BY <1>1, <2>2, <2>3 DEF IsQuiet, Rises
  <2> QED BY <2>1, <2>4
<1>25. Ok'
  <2>1. PICK t : t = p \o r
    OBVIOUS
  <2> QED BY <1>n, <1>0, <1>1, <1>2, <1>c, <1>22, <1>23, <1>24, <2>1, SameAction
<1>26. fault' = fault
  BY <1>0, <1>1, <1>2, <1>6, Unused
<1> QED BY <1>25, <1>26

\* A loader, its package and the directory of an nsz
LEMMA LoaderParts ==
  ASSUME NEW h, HeapOk(h), NEW l \in DOMAIN h, h[l].kind = "loader"
  PROVE  /\ h[l].dir \in DOMAIN h /\ h[l].dir < l /\ h[h[l].dir].kind = "pfs" /\ l \in Nat
         /\ l # None
         /\ h[l].base # None => /\ h[l].base \in DOMAIN h /\ h[l].dir < h[l].base /\ h[l].base < l
                                /\ h[h[l].base].kind = "romfs" /\ Over(h, h[l].base) = {}
         /\ Over(h, l) = {} /\ h[h[l].dir].base \in DOMAIN h /\ h[h[l].dir].base < h[l].dir
         /\ \A n \in Range(h[l].parts) : n \in DOMAIN h /\ h[n].kind = "nca"
         /\ Owned(h, l) = ({h[l].dir, h[l].base} \ {None}) \cup Range(h[l].parts)
<1>1. IsLoader(h, l) /\ l \in Nat /\ l # None
  BY ObjectFacts DEF HeapOk, None
<1>2. /\ h[l].dir \in DOMAIN h /\ h[l].dir < l /\ h[h[l].dir].kind = "pfs"
      /\ h[l].base # None => /\ h[l].base \in DOMAIN h /\ h[l].dir < h[l].base /\ h[l].base < l
                             /\ h[h[l].base].kind = "romfs" /\ Over(h, h[l].base) = {}
  BY <1>1, ObjectFacts DEF IsLoader, Over
<1>3. h[h[l].dir].base \in DOMAIN h /\ h[h[l].dir].base < h[l].dir
  <2>1. IsLayered(h, h[l].dir)
    BY <1>2 DEF HeapOk
  <2>2. h[h[l].dir].base # None
    BY <1>2, <2>1 DEF IsLayered
  <2> QED BY <1>2, <2>2, ObjectFacts
<1>4. \A n \in Range(h[l].parts) : n \in DOMAIN h /\ h[n].kind = "nca"
  BY <1>1, ObjectFacts DEF IsLoader
<1>5. Over(h, l) = {} /\ Owned(h, l) = ({h[l].dir, h[l].base} \ {None}) \cup Range(h[l].parts)
  BY DEF Over, Owned
<1> QED BY <1>1, <1>2, <1>3, <1>4, <1>5

\* Whatever lives in a directory is closed before it.
LEMMA NothingIn ==
  ASSUME NEW ses, NEW t, NEW h, NEW g, NEW k, NEW s, StateOk(ses, t, h, g, k, s), t # <<>>,
         NEW dir \in Trust(h, g, k, s, Head(t)), h[dir].kind = "romfs",
         \A i \in Trust(h, g, k, s, Head(t)) : h[i].kind \notin {"offset", "mem"}
  PROVE  h[dir].parts = <<>>
<1>n. PICK n : n = Len(t)
  OBVIOUS
<1>1. HeapOk(h) /\ TrustOk(t, h, g, k, s)
  BY DEF StateOk
<1>2. n \in Nat \ {0} /\ n \in Turns(t) /\ At(t, n) = Head(t) /\ Turns(t) = 1 .. n
  BY <1>n, HeadFacts
<1>3. dir \in DOMAIN h
  BY <1>1, <1>2, LiveFacts
<1>4. HoldsFiles(h, dir) /\ IsSequence(h[dir].parts) /\ Range(h[dir].parts) \subseteq DOMAIN h
  BY <1>1, <1>3, ObjectFacts DEF HeapOk
<1>5. ASSUME NEW i \in Range(h[dir].parts) PROVE FALSE
  <2>1. i \in DOMAIN h /\ h[i].dir = dir /\ h[i].live /\ h[i].kind \in {"offset", "mem"}
    BY <1>4, <1>5 DEF HoldsFiles
  <2>2. i \in Live(h) /\ ~Dropped(h, k, i)
    BY <2>1 DEF Live, Dropped
  <2>3. PICK d \in Turns(t) : i \in Trust(h, g, k, s, At(t, d))
    BY <1>1, <2>2 DEF TrustOk
  <2>4. Whole(h, g, k, s, At(t, d), i)
    BY <2>1, <2>3 DEF Whole
  <2>5. dir \in Over(h, i)
    BY <1>1, <1>3, <2>1, ObjectFacts DEF Over, None
  <2>6. PICK e \in 1 .. d : Whole(h, g, k, s, At(t, e), dir)
    BY <1>1, <2>1, <2>3, <2>4, <2>5 DEF TrustOk
  <2>7. e \in Turns(t) /\ dir \in Trust(h, g, k, s, At(t, e)) /\ e <= n /\ d <= n /\ e <= d
    BY <1>2, <2>6 DEF Whole
  <2>8. e = n
    <3>1. SUFFICES ASSUME e # n PROVE FALSE
      OBVIOUS
    <3>2. e \in 1 .. n - 1
      BY <1>2, <2>7, <3>1
    <3>3. Trust(h, g, k, s, At(t, e)) \cap Trust(h, g, k, s, At(t, n)) = {}
      BY <1>1, <1>2, <3>2 DEF TrustOk
    <3> QED BY <1>2, <2>7, <3>3
  <2>9. d = n
    BY <1>2, <2>7, <2>8
  <2> QED BY <1>2, <2>1, <2>3, <2>9
<1> QED BY <1>4, <1>5, NoElements

\* DestroyPackage keeps the invariant, and uses and closes only what is live.
LEMMA DestroyPackageStep ==
  ASSUME Ok, DestroyPackage
  PROVE  Ok' /\ fault' = fault
<1>n. PICK n : n = Len(todo)
  OBVIOUS
<1>a. PICK x : x = Head(todo).x
  OBVIOUS
<1>b. PICK dir, y, C : dir = heap[x].dir /\ y = heap[x].base /\ C = After(todo, n)
  OBVIOUS
<1>c. PICK cd, cx, cy : cd = Call("free", dir) /\ cx = Call("free", x) /\ cy = Call("free", y)
  OBVIOUS
<1>0. /\ Calling("destroy_package") /\ UNCHANGED heap /\ SameLists
      /\ Then((IF y = None THEN <<>> ELSE EachOn("close_file", y,
           EverySecond(heap[y].parts)) \o <<cy>>) \o <<cd, cx>>)
      /\ Use({x} \cup IF y = None THEN {} ELSE {y})
  BY <1>a, <1>b, <1>c DEF DestroyPackage, Arg
<1>1. /\ HeapOk(heap) /\ IsCall(session, heap, games, Head(todo))
      /\ Head(todo).op = "destroy_package" /\ todo # <<>>
      /\ Trust(heap, games, tickets, services, Head(todo)) \subseteq Live(heap)
  BY <1>0, <1>n, OkFacts
<1>2. Trust(heap, games, tickets, services, Head(todo)) = {x, dir, y} \ {None}
  BY <1>1, <1>a, <1>b DEF Trust
<1>3. x \in DOMAIN heap /\ heap[x].kind = "loader"
  BY <1>1, <1>a DEF IsCall
<1>4. /\ dir \in DOMAIN heap /\ dir < x /\ heap[dir].kind = "pfs" /\ x \in Nat /\ x # None
      /\ y # None => /\ y \in DOMAIN heap /\ dir < y /\ y < x
                     /\ heap[y].kind = "romfs" /\ Over(heap, y) = {}
      /\ Over(heap, x) = {}
  BY <1>1, <1>3, <1>b, LoaderParts
<1>5. dir \in Nat /\ dir # None /\ (y # None => y \in Nat)
  BY <1>1, <1>4, ObjectFacts DEF None
<1>6. ASSUME NEW j \in Over(heap, dir) PROVE Assured(heap, games, tickets, services, C, j)
  <2>1. Whole(heap, games, tickets, services, Head(todo), dir)
    BY <1>1, <1>2, <1>5 DEF Whole
  <2>2. Whole(heap, games, tickets, services, Head(todo), j)
          \/ Assured(heap, games, tickets, services, C, j)
    BY <1>1, <1>n, <1>b, <1>6, <2>1, WholeHead DEF Ok
  <2>3. j < dir /\ j \in DOMAIN heap
    BY <1>1, <1>4, <1>6, ObjectFacts
  <2>4. j \notin {x, dir, y} \ {None}
    BY <1>4, <1>5, <2>3
  <2> QED BY <1>2, <2>2, <2>4 DEF Whole
<1>7. /\ Fits(session, heap, games, tickets, services, C, cx)
      /\ Trust(heap, games, tickets, services, cx) = {x}
      /\ cx.op = "free" /\ Level(cx.op) = 0
  <2>1. Frees(heap, games, tickets, services, C, x)
    BY <1>3, <1>4 DEF FileKinds, Frees
  <2> QED BY <1>c, <2>1, FitsFree
<1>8. /\ Fits(session, heap, games, tickets, services, C \cup {cx}, cd)
      /\ Trust(heap, games, tickets, services, cd) = {dir}
      /\ cd.op = "free" /\ Level(cd.op) = 0
  <2>1. \A j \in Over(heap, dir) : Assured(heap, games, tickets, services, C \cup {cx}, j)
    BY <1>6 DEF Assured
  <2>2. Frees(heap, games, tickets, services, C \cup {cx}, dir)
    BY <1>4, <2>1 DEF FileKinds, Frees
  <2> QED BY <1>c, <2>2, FitsFree
<1>9. Pair(session, heap, games, tickets, services, C, cd, cx)
  <2>1. Above(cx.op, cd.op)
    BY <1>7, <1>8 DEF Above
  <2>2. {dir} \cap {x} = {}
    BY <1>4, <1>5
  <2> QED BY <1>7, <1>8, <2>1, <2>2 DEF Pair
<1>10. fault' = fault
  <2>1. {x} \cup (IF y = None THEN {} ELSE {y}) \subseteq Live(heap)
    BY <1>1, <1>2, <1>4
  <2> QED BY <1>0, <2>1, Unused
<1>11. CASE y = None
  <2>1. Then(<<cd, cx>>)
    <3>1. <<>> \o <<cd, cx>> = <<cd, cx>>
      OBVIOUS
    <3> QED BY <1>0, <1>11, <3>1
  <2>2. Paired(session, heap, games, tickets, services, C, cd, cx)
    BY <1>9, TakesTwo
  <2>3. /\ Takes(session, heap, games, tickets, services, C, <<cd, cx>>)
        /\ Entrusted(heap, games, tickets, services, <<cd, cx>>) = {x, dir, y} \ {None}
    <3>1. {dir} \cup {x} = {x, dir, y} \ {None}
      BY <1>4, <1>5, <1>11
    <3> QED BY <1>7, <1>8, <2>2, <3>1 DEF Paired
  <2>4. IsQuiet(Head(todo), <<cd, cx>>) /\ Rises(Head(todo), <<cd, cx>>)
    BY <1>1, <1>7, <1>8, QuietTwo
  <2>5. Ok'
    BY <1>n, <1>0, <1>1, <1>2, <1>b, <2>1, <2>3, <2>4, SameAction
  <2> QED BY <1>10, <2>5
<1>12. CASE y # None
  <2>1. heap[y].parts = <<>>
    <3>1. y \in Trust(heap, games, tickets, services, Head(todo))
      BY <1>2, <1>12
    <3>2. \A i \in Trust(heap, games, tickets, services,
            Head(todo)) : heap[i].kind \notin {"offset", "mem"}
      BY <1>2, <1>3, <1>4
    <3> QED BY <1>1, <1>4, <1>12, <3>1, <3>2, NothingIn DEF Ok
  <2>2. Then(<<cy, cd, cx>>)
    <3>1. EverySecond(<<>>) = <<>>
      BY DEF EverySecond
    <3>2. EachOn("close_file", y, <<>>) = <<>>
      BY DEF EachOn
    <3>3. <<>> \o <<cy>> = <<cy>>
      OBVIOUS
    <3>4. <<cy>> \o <<cd, cx>> = <<cy, cd, cx>>
      BY Tuples
    <3> QED BY <1>0, <1>12, <2>1, <3>1, <3>2, <3>3, <3>4
  <2>3. /\ Fits(session, heap, games, tickets, services, C \cup {cd, cx}, cy)
        /\ Trust(heap, games, tickets, services, cy) = {y} /\ cy.op = "free" /\ Level(cy.op) = 0
    <3>1. Frees(heap, games, tickets, services, C \cup {cd, cx}, y)
      BY <1>4, <1>12 DEF FileKinds, Frees
    <3> QED BY <1>c, <3>1, FitsFree
  <2>4. Triple(session, heap, games, tickets, services, C, cy, cd, cx)
    <3>1. Above(cd.op, cy.op) /\ Above(cx.op, cy.op)
      BY <1>7, <1>8, <2>3 DEF Above
    <3>2. {y} \cap {dir} = {} /\ {y} \cap {x} = {}
      BY <1>4, <1>5, <1>12
    <3> QED BY <1>7, <1>8, <1>9, <2>3, <3>1, <3>2 DEF Triple
  <2>5. Tripled(session, heap, games, tickets, services, C, cy, cd, cx)
    BY <2>4, TakesThree
  <2>6. /\ Takes(session, heap, games, tickets, services, C, <<cy, cd, cx>>)
        /\ Entrusted(heap, games, tickets, services, <<cy, cd, cx>>) = {x, dir, y} \ {None}
    <3>1. {y} \cup {dir} \cup {x} = {x, dir, y} \ {None}
      BY <1>4, <1>5, <1>12
    <3> QED BY <1>7, <1>8, <2>3, <2>5, <3>1 DEF Tripled
  <2>7. IsQuiet(Head(todo), <<cy, cd, cx>>) /\ Rises(Head(todo), <<cy, cd, cx>>)
    BY <1>1, <1>7, <1>8, <2>3, QuietThree
  <2>8. Ok'
    BY <1>n, <1>0, <1>1, <1>2, <1>b, <2>2, <2>6, <2>7, SameAction
  <2> QED BY <1>10, <2>8
<1> QED BY <1>11, <1>12

\* Once no package is being opened, every game has its loader.
LEMMA LoadersKnown ==
  ASSUME NEW ses, NEW t, NEW h, NEW g, NEW k, NEW s, StateOk(ses, t, h, g, k, s), t # <<>>,
         Level(Head(t).op) \in 1 .. 7
  PROVE  /\ IsSequence(g)
         /\ \A a \in DOMAIN g : g[a].loader # None /\ g[a].loader \in Loaders(g)
              /\ IsPackageOver(h, g[a].loader, g[a].file)
                                /\ IsAlone(h, g[a].file, "map")
         /\ \A a, b \in DOMAIN g : a # b => g[a].loader # g[b].loader /\ g[a].file # g[b].file
<1>n. PICK n : n = Len(t)
  OBVIOUS
<1>1. /\ n \in Nat \ {0} /\ At(t, n) = Head(t) /\ Turns(t) = 1 .. n
      /\ \A b \in After(t, n) : Above(b.op, Head(t).op)
      /\ \A d \in 1 .. n - 1 : At(t, d) \in After(t, n)
  BY <1>n, HeadFacts
<1>2. GamesOk(h, g) /\ Opening(t, g)
  BY DEF StateOk, ListsOk, CallsOk
<1>3. ASSUME NEW d \in Turns(t), At(t, d).op \in {"nsp", "nsz"} PROVE FALSE
  <2>1. Level(At(t, d).op) = 8
    BY <1>3, Levels
  <2>2. CASE d = n
    BY <1>1, <2>1, <2>2
  <2>3. CASE d # n
    <3>1. d \in 1 .. n - 1
      BY <1>1, <2>3
    <3>2. Above(At(t, d).op, Head(t).op)
      BY <1>1, <3>1
    <3> QED BY <2>1, <3>2 DEF Above
  <2> QED BY <2>2, <2>3
<1>4. \A a \in DOMAIN g : g[a].loader # None
  BY <1>2, <1>3 DEF Opening
<1>5. ASSUME NEW a \in DOMAIN g
      PROVE  /\ g[a].loader \in Loaders(g) /\ IsPackageOver(h, g[a].loader, g[a].file)
             /\ IsAlone(h, g[a].file, "map")
             /\ \A b \in DOMAIN g : a # b => g[a].loader # g[b].loader /\ g[a].file # g[b].file
  BY <1>2, <1>4 DEF GamesOk, Loaders
<1> QED BY <1>2, <1>4, <1>5 DEF GamesOk

\* Logos keeps the invariant, and uses and closes only what is live.
LEMMA LogosStep ==
  ASSUME Ok, Logos
  PROVE  Ok' /\ fault' = fault
<1>n. PICK n : n = Len(todo)
  OBVIOUS
<1>c. PICK C, q : C = After(todo, n)
        /\ q = [i \in DOMAIN games |-> Call("loader_get_logo", games[i].loader)]
  OBVIOUS
<1>0. Calling("logos") /\ Use({}) /\ UNCHANGED heap /\ SameLists /\ Then(q)
  BY <1>c DEF Logos
<1>1. /\ HeapOk(heap) /\ Head(todo).op = "logos" /\ todo # <<>> /\ GamesOk(heap, games)
      /\ IsPlaced(heap, games, tickets, services, Head(todo), After(todo, n))
  BY <1>0, <1>n, OkFacts
<1>2. Trust(heap, games, tickets, services, Head(todo)) = {}
  BY <1>1 DEF Trust
<1>3. Later(C, "nx_sys_destroy")
  BY <1>1, <1>c DEF IsPlaced
<1>4. Level(Head(todo).op) = 2 /\ Level("loader_get_logo") = 6
  BY <1>1, Levels
<1>5. IsSequence(games) /\ \A a \in DOMAIN games : games[a].loader \in Loaders(games)
  BY <1>1, <1>4, LoadersKnown DEF Ok
<1>6. IsSequence(q) /\ DOMAIN q = DOMAIN games
  <2>1. Len(games) \in Nat /\ DOMAIN games = 1 .. Len(games)
    BY <1>5, SequenceIs
  <2>2. DOMAIN q = 1 .. Len(games) /\ q = [i \in 1 .. Len(games) |-> q[i]]
    BY <1>c, <2>1
  <2> QED BY <1>c, <2>1, <2>2, SequenceBy
<1>7. \A a \in DOMAIN q : q[a].op = "loader_get_logo" /\ q[a].x \in Loaders(games)
  BY <1>5, <1>6, <1>c, CallParts
<1>8. \A a \in DOMAIN q : Trust(heap, games, tickets, services, q[a]) = {}
  BY <1>7 DEF Trust
<1>9. ASSUME NEW a \in DOMAIN q PROVE Fits(session, heap, games, tickets, services, C, q[a])
  <2>1. PICK c : c = q[a]
    OBVIOUS
  <2>2. c.op = "loader_get_logo" /\ c.x \in Loaders(games)
          /\ Trust(heap, games, tickets, services, c) = {}
    BY <1>7, <1>8, <2>1
  <2>3. c.x \in DOMAIN heap
    BY <1>1, <2>2, LoaderFacts
  <2>4. IsCall(session, heap, games, c) /\ IsReady(heap, tickets, c)
    BY <2>2, <2>3 DEF IsCall, IsReady, Ops, OpsOfPackages
  <2>5. IsPlaced(heap, games, tickets, services, c, C)
    BY <1>3, <2>2 DEF IsPlaced, OpsOfPackages
  <2> QED BY <2>1, <2>2, <2>4, <2>5 DEF Fits, Whole
<1>10. Takes(session, heap, games, tickets, services, C, q)
  <2>1. Apiece(session, heap, games, tickets, services, C, q)
    BY <1>4, <1>6, <1>7, <1>8, <1>9 DEF Apiece, Above, Once
  <2> QED BY <2>1, TakesApiece
<1>11. Entrusted(heap, games, tickets, services, q) = {}
  BY <1>8 DEF Entrusted
<1>12. IsQuiet(Head(todo), q) /\ Rises(Head(todo), q)
  BY <1>1, <1>4, <1>7 DEF IsQuiet, Rises
<1>13. Ok'
  BY <1>n, <1>0, <1>1, <1>2, <1>c, <1>10, <1>11, <1>12, SameAction
<1> QED BY <1>0, <1>13, Unused

\* The objects of a package
LEMMA PackageFacts ==
  ASSUME NEW h, HeapOk(h), NEW l \in DOMAIN h, h[l].kind = "loader"
  PROVE  /\ Package(h, l) = ({l, h[l].dir, h[l].base} \ {None}) \cup UNION { Archive(h,
              n) : n \in Range(h[l].parts) }
         /\ \A i \in Package(h, l) : i \in DOMAIN h
              /\ h[i].kind \in FileKinds \cup {"loader", "pfs", "romfs", "nca", "aes"}
         /\ \A n \in Range(h[l].parts) : ({l, h[l].dir, h[l].base} \ {None}) \cap Archive(h, n) = {}
         /\ \A n, m \in Range(h[l].parts) : n # m => Archive(h, n) \cap Archive(h, m) = {}
<1>1. /\ h[l].dir \in DOMAIN h /\ h[l].dir < l /\ h[h[l].dir].kind = "pfs" /\ l \in Nat /\ l # None
      /\ h[l].base # None => h[l].base \in DOMAIN h /\ h[h[l].base].kind = "romfs"
      /\ \A n \in Range(h[l].parts) : n \in DOMAIN h /\ h[n].kind = "nca"
      /\ Owned(h, l) = ({h[l].dir, h[l].base} \ {None}) \cup Range(h[l].parts)
  BY LoaderParts
<1>2. h[l].dir # None
  BY <1>1, ObjectFacts DEF None
<1>3. Package(h, l) = ({l, h[l].dir, h[l].base} \ {None}) \cup UNION { Archive(h,
        n) : n \in Range(h[l].parts) }
  <2>1. Package(h, l) = {l} \cup Owned(h, l) \cup UNION { Owned(h, n) : n \in Range(h[l].parts) }
    BY DEF Package
  <2>2. UNION { Archive(h,
          n) : n \in Range(h[l].parts) } = Range(h[l].parts) \cup UNION { Owned(h,
          n) : n \in Range(h[l].parts) }
    BY DEF Archive
  <2> QED BY <1>1, <2>1, <2>2
<1>4. ASSUME NEW n \in Range(h[l].parts), NEW i \in Archive(h, n)
      PROVE  i \in DOMAIN h /\ h[i].kind \in FileKinds \cup {"pfs", "romfs", "nca", "aes"}
  <2>1. CASE i = n
    BY <1>1, <2>1
  <2>2. CASE i \in Owned(h, n)
    BY <1>1, <2>2, OwnedKinds
  <2> QED BY <1>4, <2>1, <2>2 DEF Archive
<1>5. OwnedOnce(h)
  BY DEF HeapOk
<1>6. ASSUME NEW n \in Range(h[l].parts), NEW m \in Range(h[l].parts), n # m
      PROVE Archive(h, n) \cap Archive(h, m) = {}
  <2>1. n \in DOMAIN h /\ m \in DOMAIN h /\ n # l /\ m # l /\ n \in Owned(h, l) /\ m \in Owned(h, l)
    BY <1>1
  <2>2. n \notin Owned(h, m) /\ m \notin Owned(h, n) /\ Owned(h, n) \cap Owned(h, m) = {}
    BY <1>5, <1>6, <2>1 DEF OwnedOnce
  <2> QED BY <1>6, <2>2 DEF Archive
<1>7. ASSUME NEW n \in Range(h[l].parts)
      PROVE ({l, h[l].dir, h[l].base} \ {None}) \cap Archive(h, n) = {}
  <2>1. n \in DOMAIN h /\ n # l /\ n # h[l].dir /\ (h[l].base # None => n # h[l].base)
    BY <1>1
  <2>2. \A i \in {h[l].dir, h[l].base} \ {None} : i \in Owned(h, l)
    BY <1>1
  <2>3. \A i \in {h[l].dir, h[l].base} \ {None} : i \notin Owned(h, n)
    BY <1>5, <2>1, <2>2 DEF OwnedOnce
  <2>4. l \notin Owned(h, n)
    <3>1. ASSUME l \in Owned(h, n) PROVE FALSE
      <4>1. h[l].kind \in FileKinds \cup {"aes", "pfs", "romfs"}
        BY <1>1, <2>1, <3>1, OwnedKinds
      <4> QED BY <4>1 DEF FileKinds
    <3> QED BY <3>1
  <2> QED BY <2>1, <2>3, <2>4 DEF Archive
<1>8. ASSUME NEW i \in Package(h, l)
      PROVE  i \in DOMAIN h /\ h[i].kind \in FileKinds \cup {"loader", "pfs", "romfs", "nca", "aes"}
  <2>1. CASE i \in {l, h[l].dir, h[l].base} \ {None}
    BY <1>1, <2>1
  <2>2. ASSUME NEW n \in Range(h[l].parts), i \in Archive(h, n)
        PROVE  i \in DOMAIN h /\ h[i].kind \in FileKinds \cup {"loader", "pfs", "romfs", "nca",
               "aes"}
    BY <1>4, <2>2
  <2> QED BY <1>3, <1>8, <2>1, <2>2
<1> QED BY <1>3, <1>6, <1>7, <1>8

\* Of a package nothing lies over anything but the package, and the file it is in.
LEMMA PackageClosed ==
  ASSUME NEW h, HeapOk(h), NEW l, NEW file, IsPackageOver(h, l, file), NEW i \in Package(h, l),
         NEW j \in Over(h, i)
  PROVE  j \in Package(h, l) \cup {file}
<1>1. l \in DOMAIN h /\ h[l].kind = "loader" /\ h[h[l].dir].base = file /\ h[h[l].dir].dir = None
  BY DEF IsPackageOver
<1>2. /\ h[l].base # None => Over(h, h[l].base) = {}
      /\ Over(h, l) = {}
  BY <1>1, LoaderParts
<1>3. Package(h, l) = ({l, h[l].dir, h[l].base} \ {None}) \cup UNION { Archive(h,
        n) : n \in Range(h[l].parts) }
  BY <1>1, PackageFacts
<1>4. CASE i \in {l, h[l].dir, h[l].base} \ {None}
  <2>1. i = h[l].dir
    BY <1>2, <1>4
  <2> QED BY <1>1, <2>1 DEF Over
<1>5. ASSUME NEW n \in Range(h[l].parts), i \in Archive(h, n) PROVE j \in Package(h, l) \cup {file}
  <2>1. Grounded(h, l, n)
    BY <1>1 DEF HeapOk, IsGrounded
  <2>2. j \in Archive(h, n) \cup {h[l].dir, h[l].base, file}
    BY <1>1, <1>5, <2>1 DEF Grounded, Ground
  <2>3. j # None
    BY DEF Over
  <2> QED BY <1>3, <2>2, <2>3
<1> QED BY <1>3, <1>4, <1>5

\* LoaderDestroy keeps the invariant, and uses and closes only what is live.
LEMMA LoaderDestroyStep ==
  ASSUME Ok, LoaderDestroy
  PROVE  Ok' /\ fault' = fault
<1>n. PICK n : n = Len(todo)
  OBVIOUS
<1>a. PICK x, file : x = Head(todo).x /\ file = Head(todo).dir
  OBVIOUS
<1>b. PICK dir, y, C : dir = heap[x].dir /\ y = heap[x].base /\ C = After(todo, n)
  OBVIOUS
<1>c. PICK q, c, f : q = Each("content_archive_destroy", heap[x].parts)
        /\ c = Call("destroy_package", x) /\ f = Call("free", file)
  OBVIOUS
<1>0. Calling("loader_destroy") /\ UNCHANGED heap /\ SameLists /\ Use({x})
        /\ Then((q \o <<c>>) \o <<f>>)
  BY <1>a, <1>c DEF LoaderDestroy, Arg, DestroyOrder
<1>1. /\ HeapOk(heap) /\ IsCall(session, heap, games, Head(todo))
      /\ Head(todo).op = "loader_destroy" /\ todo # <<>>
      /\ Trust(heap, games, tickets, services, Head(todo)) \subseteq Live(heap)
  BY <1>0, <1>n, OkFacts
<1>2. Trust(heap, games, tickets, services, Head(todo)) = {file} \cup Package(heap, x)
  BY <1>1, <1>a DEF Trust
<1>3. x \in DOMAIN heap /\ heap[x].kind = "loader" /\ IsAlone(heap, file, "map")
        /\ IsPackageOver(heap, x, file)
  BY <1>1, <1>a DEF IsCall, IsPackageOver
<1>4. /\ Package(heap, x) = ({x, dir, y} \ {None}) \cup UNION { Archive(heap,
           m) : m \in Range(heap[x].parts) }
      /\ \A i \in Package(heap, x) : i \in DOMAIN heap
           /\ heap[i].kind \in FileKinds \cup {"loader", "pfs", "romfs", "nca", "aes"}
      /\ \A m \in Range(heap[x].parts) : ({x, dir, y} \ {None}) \cap Archive(heap, m) = {}
      /\ \A a, b \in Range(heap[x].parts) : a # b => Archive(heap, a) \cap Archive(heap, b) = {}
  BY <1>1, <1>3, <1>b, PackageFacts
<1>5. /\ dir \in DOMAIN heap /\ heap[dir].kind = "pfs" /\ x # None /\ heap[dir].base = file
      /\ heap[dir].dir = None
      /\ y # None => /\ y \in DOMAIN heap /\ heap[y].kind = "romfs" /\ Over(heap, y) = {}
      /\ Over(heap, x) = {} /\ \A m \in Range(heap[x].parts) : m \in DOMAIN heap
           /\ heap[m].kind = "nca"
  BY <1>1, <1>3, <1>b, LoaderParts DEF IsPackageOver
<1>6. dir # None /\ file # None /\ file \in DOMAIN heap /\ heap[file].kind = "map"
        /\ Over(heap, file) = {}
  BY <1>1, <1>3, <1>5, ObjectFacts DEF None, IsAlone, Over
<1>7. /\ Fits(session, heap, games, tickets, services, C, f)
      /\ Trust(heap, games, tickets, services, f) = {file}
      /\ f.op = "free" /\ Level(f.op) = 0
  <2>1. Frees(heap, games, tickets, services, C, file)
    BY <1>6 DEF FileKinds, Frees
  <2> QED BY <1>c, <2>1, FitsFree
<1>8. \A D : f \in D => Assured(heap, games, tickets, services, D, file)
  BY <1>6, <1>7 DEF Assured, Whole
<1>9. c.op = "destroy_package" /\ c.x = x /\ Level(c.op) = 0
  BY <1>c, CallParts, Levels
<1>10. Trust(heap, games, tickets, services, c) = {x, dir, y} \ {None}
  BY <1>9, <1>b DEF Trust
<1>11. Fits(session, heap, games, tickets, services, C \cup {f}, c)
  <2>1. IsCall(session, heap, games, c) /\ IsReady(heap, tickets, c)
    BY <1>3, <1>9 DEF IsCall, IsReady, Ops, OpsOfPackages
  <2>2. IsPlaced(heap, games, tickets, services, c, C \cup {f})
    BY <1>9 DEF IsPlaced, OpsOfPackages
  <2>3. ASSUME NEW i \in {x, dir, y} \ {None}, NEW j \in Over(heap, i) PROVE j = file
    <3>1. i = dir
      BY <1>5, <2>3
    <3> QED BY <1>5, <2>3, <3>1 DEF Over
  <2>4. Assured(heap, games, tickets, services, C \cup {f}, file)
    BY <1>8
  <2> QED BY <1>10, <2>1, <2>2, <2>3, <2>4 DEF Fits, Whole
<1>12. Pair(session, heap, games, tickets, services, C, c, f)
  <2>1. Above(f.op, c.op)
    BY <1>7, <1>9 DEF Above
  <2>2. ({x, dir, y} \ {None}) \cap {file} = {}
    BY <1>3, <1>5, <1>6
  <2> QED BY <1>7, <1>10, <1>11, <2>1, <2>2 DEF Pair
<1>13. Paired(session, heap, games, tickets, services, C, c, f)
  BY <1>12, TakesTwo
<1>14. PICK r : r = <<c, f>>
  OBVIOUS
<1>15. /\ Takes(session, heap, games, tickets, services, C, r)
       /\ Entrusted(heap, games, tickets, services, r) = ({x, dir, y} \ {None}) \cup {file}
       /\ Range(r) = {c, f} /\ \A a \in DOMAIN r : r[a] \in {c, f}
  BY <1>7, <1>10, <1>13, <1>14 DEF Paired
<1>16. IsSequence(heap[x].parts) /\ IsInjective(heap[x].parts)
  BY <1>1, <1>3, ObjectFacts
<1>17. /\ IsSequence(q) /\ DOMAIN q = DOMAIN heap[x].parts
       /\ \A a \in DOMAIN q : q[a] = Call("content_archive_destroy", heap[x].parts[a])
  <2>1. PICK l : l = heap[x].parts
    OBVIOUS
  <2>2. LET p == Each("content_archive_destroy", l)
        IN  IsSequence(p) /\ Len(p) = Len(l) /\ DOMAIN p = DOMAIN l
          /\ \A a \in DOMAIN l : p[a] = Call("content_archive_destroy", l[a])
    BY <1>16, <2>1, EachFacts
  <2> QED BY <1>c, <2>1, <2>2
<1>18. ASSUME NEW a \in DOMAIN q
       PROVE  /\ q[a].op = "content_archive_destroy" /\ q[a].x = heap[x].parts[a]
              /\ heap[x].parts[a] \in Range(heap[x].parts)
              /\ Trust(heap, games, tickets, services, q[a]) = Archive(heap, heap[x].parts[a])
  <2>1. q[a].op = "content_archive_destroy" /\ q[a].x = heap[x].parts[a]
    BY <1>17, CallParts
  <2>2. heap[x].parts[a] \in Range(heap[x].parts)
    BY <1>16, <1>17, SequenceIs
  <2> QED BY <2>1, <2>2 DEF Trust
<1>19. ASSUME NEW a \in DOMAIN q PROVE Fits(session, heap, games, tickets, services,
              C \cup Range(r), q[a])
  <2>1. PICK d, m : d = q[a] /\ m = heap[x].parts[a]
    OBVIOUS
  <2>2. d.op = "content_archive_destroy" /\ d.x = m /\ m \in Range(heap[x].parts)
        /\ Trust(heap, games, tickets, services, d) = Archive(heap, m)
    BY <1>18, <2>1
  <2>3. IsCall(session, heap, games, d) /\ IsReady(heap, tickets, d)
    BY <1>5, <2>2 DEF IsCall, IsReady, Ops, OpsOfPackages
  <2>4. IsPlaced(heap, games, tickets, services, d, C \cup Range(r))
    BY <2>2 DEF IsPlaced, OpsOfPackages
  <2>5. \A i : Whole(heap, games, tickets, services, d, i) <=> i \in Archive(heap, m)
    BY <2>2 DEF Whole
  <2>6. ASSUME NEW i \in Archive(heap, m), NEW j \in Over(heap, i)
        PROVE  j \in Archive(heap, m) \/ Assured(heap, games, tickets, services, C \cup Range(r), j)
    <3>1. Grounded(heap, x, m)
      BY <1>1, <1>3, <2>2 DEF HeapOk, IsGrounded
    <3>2. j \in Archive(heap, m) \/ (j \in {dir, y, file} /\ j # None)
      BY <1>5, <1>b, <2>6, <3>1 DEF Grounded, Ground, Over
    <3>3. Assured(heap, games, tickets, services, C \cup Range(r), file)
      BY <1>8, <1>15
    <3>4. \A i1 \in {dir, y} \ {None} : Assured(heap, games, tickets, services, C \cup Range(r), i1)
      BY <1>9, <1>10, <1>15 DEF Assured, Whole
    <3> QED BY <3>2, <3>3, <3>4
  <2> QED BY <2>1, <2>3, <2>4, <2>5, <2>6 DEF Fits
<1>20. Level("content_archive_destroy") = 0
  BY Levels
<1>21. Takes(session, heap, games, tickets, services, C \cup Range(r), q)
  <2>1. ASSUME NEW a \in DOMAIN q, NEW b \in DOMAIN q, a # b
        PROVE  /\ Above(q[b].op, q[a].op)
               /\ Trust(heap, games, tickets, services, q[a]) \cap Trust(heap, games, tickets,
                    services, q[b]) = {}
    <3>1. heap[x].parts[a] # heap[x].parts[b]
      BY <1>16, <1>17, <2>1 DEF IsInjective
    <3>2. Archive(heap, heap[x].parts[a]) \cap Archive(heap, heap[x].parts[b]) = {}
      BY <1>4, <1>18, <3>1
    <3>3. Above(q[b].op, q[a].op)
      BY <1>18, <1>20 DEF Above
    <3> QED BY <1>18, <3>2, <3>3
  <2>2. Apiece(session, heap, games, tickets, services, C \cup Range(r), q)
    BY <1>17, <1>19, <2>1 DEF Apiece
  <2> QED BY <2>2, TakesApiece
<1>22. Entrusted(heap, games, tickets, services,
         q) = UNION { Archive(heap, m) : m \in Range(heap[x].parts) }
  <2>1. Range(heap[x].parts) = { heap[x].parts[a] : a \in DOMAIN q }
    BY <1>17 DEF Range
  <2>2. Entrusted(heap, games, tickets, services,
          q) = UNION { Archive(heap, heap[x].parts[a]) : a \in DOMAIN q }
    BY <1>18 DEF Entrusted
  <2> QED BY <2>1, <2>2
<1>23. file \notin Package(heap, x)
  BY <1>4, <1>6 DEF FileKinds
<1>24. Joined(session, heap, games, tickets, services, C, q, r)
  <2>1. Entrusted(heap, games, tickets, services, q) \cap Entrusted(heap, games, tickets,
          services, r) = {}
    BY <1>4, <1>15, <1>22, <1>23
  <2>2. \A i \in DOMAIN q : \A j \in DOMAIN r : Above(r[j].op, q[i].op)
    BY <1>7, <1>9, <1>15, <1>18, <1>20 DEF Above
  <2>3. Joins(session, heap, games, tickets, services, C, q, r)
    BY <1>15, <1>21, <2>1, <2>2 DEF Joins
  <2> QED BY <2>3, TakesJoin
<1>25. Then(q \o r)
  <2>1. PICK u, v : u = <<c>> /\ v = <<f>>
    OBVIOUS
  <2>2. IsSequence(u) /\ IsSequence(v) /\ u \o v = r
    BY <1>14, <2>1, Small, Tuples
  <2>3. q \in Seq(Range(q) \cup Range(u) \cup Range(v))
          /\ u \in Seq(Range(q) \cup Range(u) \cup Range(v))
        /\ v \in Seq(Range(q) \cup Range(u) \cup Range(v))
    <3>1. q \in Seq(Range(q)) /\ u \in Seq(Range(u)) /\ v \in Seq(Range(v))
      BY <1>17, <2>2 DEF IsSequence
    <3> DEFINE S == Range(q) \cup Range(u) \cup Range(v)
    <3>2. Range(q) \subseteq S /\ Range(u) \subseteq S /\ Range(v) \subseteq S
      OBVIOUS
    <3> HIDE DEF S
    <3>3. q \in Seq(S) /\ u \in Seq(S) /\ v \in Seq(S)
      BY <3>1, <3>2, SeqMonotonic
    <3> QED BY <3>3 DEF S
  <2>4. (q \o u) \o v = q \o (u \o v)
    BY <2>3, ConcatAssociative
  <2> QED BY <1>0, <2>1, <2>2, <2>4
<1>26. /\ Takes(session, heap, games, tickets, services, C, q \o r)
       /\ Entrusted(heap, games, tickets, services, q \o r) = {file} \cup Package(heap, x)
  <2>1. Entrusted(heap, games, tickets, services, q \o r)
          = (UNION { Archive(heap, m) : m \in Range(heap[x].parts) }) \cup (({x, dir,
            y} \ {None}) \cup {file})
    BY <1>15, <1>22, <1>24 DEF Joined
  <2> QED BY <1>4, <1>24, <2>1 DEF Joined
<1>27. IsQuiet(Head(todo), q \o r) /\ Rises(Head(todo), q \o r)
  <2>1. IsQuiet(Head(todo), q) /\ Rises(Head(todo), q)
    BY <1>1, <1>18, <1>20 DEF IsQuiet, Rises
  <2>2. IsQuiet(Head(todo), r) /\ Rises(Head(todo), r)
    BY <1>1, <1>7, <1>9, <1>15 DEF IsQuiet, Rises
  <2>3. \A a \in DOMAIN (q \o r) : (\E i \in DOMAIN q : (q \o r)[a] = q[i])
          \/ (\E i \in DOMAIN r : (q \o r)[a] = r[i])
    BY <1>24, Zenon DEF Joined
  <2> QED BY <2>1, <2>2, <2>3, QuietJoin
<1>28. Ok'
  <2>1. PICK t : t = q \o r
    OBVIOUS
  <2> QED BY <1>n, <1>0, <1>1, <1>2, <1>b, <1>25, <1>26, <1>27, <2>1, SameAction
<1>29. fault' = fault
  <2>1. x \in Live(heap)
    BY <1>1, <1>2, <1>4, <1>5
  <2> QED BY <1>0, <2>1, Unused
<1> QED BY <1>28, <1>29

\* Two packages have no object in common.
LEMMA PackagesApart ==
  ASSUME NEW h, HeapOk(h), NEW l \in DOMAIN h, h[l].kind = "loader", NEW m \in DOMAIN h,
         h[m].kind = "loader", l # m
  PROVE  Package(h, l) \cap Package(h, m) = {}
<1>1. ASSUME NEW o \in DOMAIN h, h[o].kind = "loader"
      PROVE  /\ Package(h, o) = {o} \cup Owned(h,
                  o) \cup UNION { Owned(h, n) : n \in Range(h[o].parts) }
             /\ \A n \in Range(h[o].parts) : n \in DOMAIN h /\ h[n].kind = "nca"
                  /\ n \in Owned(h, o)
             /\ \A i \in Owned(h, o) : h[i].kind # "loader"
             /\ \A n \in Range(h[o].parts) : \A i \in Owned(h, n) : h[i].kind # "loader"
  <2>1. /\ h[h[o].dir].kind = "pfs" /\ (h[o].base # None => h[h[o].base].kind = "romfs")
        /\ \A n \in Range(h[o].parts) : n \in DOMAIN h /\ h[n].kind = "nca"
        /\ Owned(h, o) = ({h[o].dir, h[o].base} \ {None}) \cup Range(h[o].parts)
    BY <1>1, LoaderParts
  <2>2. \A i \in Owned(h, o) : h[i].kind # "loader"
    BY <2>1
  <2>3. ASSUME NEW n \in Range(h[o].parts), NEW i \in Owned(h, n) PROVE h[i].kind # "loader"
    <3>1. h[i].kind \in FileKinds \cup {"aes", "pfs", "romfs"}
      BY <2>1, <2>3, OwnedKinds
    <3> QED BY <3>1 DEF FileKinds
  <2> QED BY <2>1, <2>2, <2>3 DEF Package
<1>2. \A o, p \in DOMAIN h : o # p => Owned(h, o) \cap Owned(h, p) = {}
  BY DEF HeapOk, OwnedOnce
<1>3. ASSUME NEW i \in Package(h, l), i \in Package(h, m) PROVE FALSE
  <2>1. PICK a \in DOMAIN h : (a = l \/ a \in Range(h[l].parts)) /\ (i = l \/ i \in Owned(h, a))
    BY <1>1, <1>3
  <2>2. PICK b \in DOMAIN h : (b = m \/ b \in Range(h[m].parts)) /\ (i = m \/ i \in Owned(h, b))
    BY <1>1, <1>3
  <2>3. a # b
    <3>1. ASSUME a = b PROVE FALSE
      <4>1. a \in Range(h[l].parts) /\ a \in Range(h[m].parts)
        BY <1>1, <2>1, <2>2, <3>1
      <4> QED BY <1>1, <1>2, <4>1
    <3> QED BY <3>1
  <2>4. i # l
    BY <1>1, <2>2
  <2>5. i # m
    BY <1>1, <2>1
  <2> QED BY <1>2, <2>1, <2>2, <2>3, <2>4, <2>5
<1> QED BY <1>3

\* NxSysDestroy keeps the invariant, and uses and closes only what is live.
LEMMA NxSysDestroyStep ==
  ASSUME Ok, NxSysDestroy
  PROVE  Ok' /\ fault' = fault
<1>n. PICK n : n = Len(todo)
  OBVIOUS
<1>c. PICK C, p, q : /\ C = After(todo, n) /\ q = Each("free", tickets)
                     /\ p = [i \in DOMAIN games |-> CallOn("loader_destroy", games[i].file,
                          games[i].loader)]
  OBVIOUS
<1>0. Calling("nx_sys_destroy") /\ UNCHANGED heap /\ SameLists /\ Use({}) /\ Then(p \o q)
  BY <1>c DEF NxSysDestroy
<1>1. /\ HeapOk(heap) /\ Head(todo).op = "nx_sys_destroy" /\ todo # <<>>
      /\ ListsOk(heap, games, tickets, services)
      /\ Trust(heap, games, tickets, services, Head(todo)) \subseteq Live(heap)
  BY <1>0, <1>n, OkFacts
<1>2. Trust(heap, games, tickets, services,
        Head(todo)) = (UNION { Game(heap, games[a]) : a \in DOMAIN games }) \cup Range(tickets)
  BY <1>1 DEF Trust
<1>3. Level(Head(todo).op) = 1 /\ Level("loader_destroy") = 6 /\ Level("free") = 0
  BY <1>1, Levels
<1>4. /\ IsSequence(games)
      /\ \A a \in DOMAIN games :
           games[a].loader # None /\ games[a].loader \in Loaders(games)
             /\ IsPackageOver(heap, games[a].loader, games[a].file)
           /\ IsAlone(heap, games[a].file, "map")
      /\ \A a, b \in DOMAIN games : a # b => games[a].loader # games[b].loader
           /\ games[a].file # games[b].file
  BY <1>1, <1>3, LoadersKnown DEF Ok
<1>5. IsSequence(p) /\ DOMAIN p = DOMAIN games
  <2>1. Len(games) \in Nat /\ DOMAIN games = 1 .. Len(games)
    BY <1>4, SequenceIs
  <2>2. DOMAIN p = 1 .. Len(games) /\ p = [i \in 1 .. Len(games) |-> p[i]]
    BY <1>c, <2>1
  <2> QED BY <1>c, <2>1, <2>2, SequenceBy
<1>6. ASSUME NEW a \in DOMAIN p
      PROVE  /\ p[a].op = "loader_destroy" /\ p[a].x = games[a].loader /\ p[a].dir = games[a].file
             /\ Trust(heap, games, tickets, services, p[a]) = {games[a].file} \cup Package(heap,
                  games[a].loader)
  <2>1. p[a].op = "loader_destroy" /\ p[a].x = games[a].loader /\ p[a].dir = games[a].file
    BY <1>5, <1>c, CallParts
  <2> QED BY <2>1 DEF Trust
<1>7. ASSUME NEW a \in DOMAIN p
      PROVE  /\ games[a].loader \in DOMAIN heap /\ heap[games[a].loader].kind = "loader"
             /\ games[a].file \in DOMAIN heap /\ heap[games[a].file].kind = "map"
             /\ Over(heap, games[a].file) = {}
             /\ \A i \in Package(heap, games[a].loader) :
                  i \in DOMAIN heap /\ heap[i].kind \in FileKinds \cup {"loader", "pfs", "romfs",
                    "nca", "aes"}
  <2>1. /\ games[a].loader \in DOMAIN heap /\ heap[games[a].loader].kind = "loader"
        /\ games[a].file \in DOMAIN heap /\ heap[games[a].file].kind = "map"
        /\ Over(heap, games[a].file) = {}
    BY <1>4, <1>5 DEF IsPackageOver, IsAlone, Over
  <2> QED BY <1>1, <2>1, PackageFacts
<1>8. ASSUME NEW a \in DOMAIN p, NEW D PROVE Fits(session, heap, games, tickets, services, D, p[a])
  <2>1. PICK c, l, file : c = p[a] /\ l = games[a].loader /\ file = games[a].file
    OBVIOUS
  <2>2. /\ c.op = "loader_destroy" /\ c.x = l /\ c.dir = file
        /\ Trust(heap, games, tickets, services, c) = {file} \cup Package(heap, l)
    BY <1>6, <2>1
  <2>3. /\ l \in DOMAIN heap /\ file \in DOMAIN heap /\ IsPackageOver(heap, l, file)
        /\ IsAlone(heap, file, "map")
        /\ Over(heap, file) = {}
    BY <1>4, <1>5, <1>7, <2>1
  <2>4. IsCall(session, heap, games, c) /\ IsReady(heap, tickets, c)
    BY <2>2, <2>3 DEF IsCall, IsReady, Ops, OpsOfPackages
  <2>5. IsPlaced(heap, games, tickets, services, c, D)
    BY <2>2 DEF IsPlaced, OpsOfPackages
  <2>6. ASSUME NEW i \in {file} \cup Package(heap, l), NEW j \in Over(heap, i)
        PROVE j \in {file} \cup Package(heap, l)
    <3>1. CASE i = file
      BY <2>3, <2>6, <3>1
    <3>2. CASE i \in Package(heap, l)
      <4>1. j \in Package(heap, l) \cup {file}
        BY ONLY <1>1, <2>3, <2>6, <3>2, PackageClosed
      <4> QED BY <4>1
    <3> QED BY <2>6, <3>1, <3>2
  <2> QED BY <2>1, <2>2, <2>4, <2>5, <2>6 DEF Fits, Whole
<1>9. ASSUME NEW a \in DOMAIN p, NEW b \in DOMAIN p, a # b
      PROVE  /\ Above(p[b].op, p[a].op)
             /\ Trust(heap, games, tickets, services, p[a]) \cap Trust(heap, games, tickets,
                  services, p[b]) = {}
  <2>1. Above(p[b].op, p[a].op)
    BY <1>3, <1>6 DEF Above, Once
  <2>2. games[a].loader # games[b].loader /\ games[a].file # games[b].file
    BY <1>4, <1>5, <1>9
  <2>3. Package(heap, games[a].loader) \cap Package(heap, games[b].loader) = {}
    BY <1>1, <1>7, <2>2, PackagesApart
  <2>4. games[a].file \notin Package(heap, games[b].loader)
          /\ games[b].file \notin Package(heap, games[a].loader)
    BY <1>7 DEF FileKinds
  <2> QED BY <1>6, <2>1, <2>2, <2>3, <2>4
<1>10. /\ IsSequence(tickets) /\ IsInjective(tickets)
            /\ \A i \in Range(tickets) : IsAlone(heap, i, "tik")
  BY <1>1 DEF ListsOk, ListOk
<1>11. IsSequence(q) /\ DOMAIN q = DOMAIN tickets
         /\ \A a \in DOMAIN q : q[a] = Call("free", tickets[a])
  BY <1>10, <1>c, EachFacts
<1>12. ASSUME NEW a \in DOMAIN q
       PROVE  /\ Fits(session, heap, games, tickets, services, C, q[a]) /\ q[a].op = "free"
              /\ Trust(heap, games, tickets, services, q[a]) = {tickets[a]}
              /\ tickets[a] \in Range(tickets)
  <2>1. tickets[a] \in Range(tickets)
    BY <1>10, <1>11, SequenceIs
  <2>2. PICK x, c : x = tickets[a] /\ c = q[a]
    OBVIOUS
  <2>3. IsAlone(heap, x, "tik") /\ c = Call("free", x)
    BY <1>10, <1>11, <2>1, <2>2
  <2>4. Frees(heap, games, tickets, services, C, x)
    BY <2>3 DEF Frees, IsAlone, FileKinds, Over
  <2>5. Fits(session, heap, games, tickets, services, C, c)
          /\ Trust(heap, games, tickets, services, c) = {x} /\ c.op = "free"
    BY <2>3, <2>4, FitsFree
  <2> QED BY <2>1, <2>2, <2>5
<1>13. Takes(session, heap, games, tickets, services, C, q)
         /\ Entrusted(heap, games, tickets, services, q) = Range(tickets)
  <2>1. ASSUME NEW a \in DOMAIN q, NEW b \in DOMAIN q, a # b
        PROVE  /\ Above(q[b].op, q[a].op)
               /\ Trust(heap, games, tickets, services, q[a]) \cap Trust(heap, games, tickets,
                    services, q[b]) = {}
    <3>1. tickets[a] # tickets[b]
      BY <1>10, <1>11, <2>1 DEF IsInjective
    <3> QED BY <1>3, <1>12, <3>1 DEF Above
  <2>2. Apiece(session, heap, games, tickets, services, C, q)
    BY <1>11, <1>12, <2>1 DEF Apiece
  <2>3. Entrusted(heap, games, tickets, services, q) = Range(tickets)
    <3>1. Range(tickets) = { tickets[a] : a \in DOMAIN q }
      BY <1>11 DEF Range
    <3>2. Entrusted(heap, games, tickets, services, q) = UNION { {tickets[a]} : a \in DOMAIN q }
      BY <1>12 DEF Entrusted
    <3> QED BY <3>1, <3>2
  <2> QED BY <2>2, <2>3, TakesApiece
<1>14. Takes(session, heap, games, tickets, services, C \cup Range(q), p)
  <2>1. Apiece(session, heap, games, tickets, services, C \cup Range(q), p)
    BY <1>5, <1>8, <1>9 DEF Apiece
  <2> QED BY <2>1, TakesApiece
<1>15. Entrusted(heap, games, tickets, services,
         p) = UNION { Game(heap, games[a]) : a \in DOMAIN games }
  <2>1. \A a \in DOMAIN p : Trust(heap, games, tickets, services, p[a]) = Game(heap, games[a])
    BY <1>4, <1>5, <1>6 DEF Game
  <2> QED BY <1>5, <2>1 DEF Entrusted
<1>16. Joined(session, heap, games, tickets, services, C, p, q)
  <2>1. ASSUME NEW a \in DOMAIN p, NEW i \in Trust(heap, games, tickets, services, p[a])
        PROVE i \notin Range(tickets)
    <3>1. heap[i].kind \in FileKinds \cup {"map", "loader", "pfs", "romfs", "nca", "aes"}
      BY <1>6, <1>7, <2>1
    <3>2. heap[i].kind # "tik"
      BY <3>1 DEF FileKinds
    <3> QED BY <1>10, <3>2 DEF IsAlone
  <2>2. Entrusted(heap, games, tickets, services, p) \cap Entrusted(heap, games, tickets,
          services, q) = {}
    BY <1>13, <2>1 DEF Entrusted
  <2>3. \A i \in DOMAIN p : \A j \in DOMAIN q : Above(q[j].op, p[i].op)
    BY <1>3, <1>12 DEF Above
  <2>4. Joins(session, heap, games, tickets, services, C, p, q)
    BY <1>13, <1>14, <2>2, <2>3 DEF Joins
  <2> QED BY <2>4, TakesJoin
<1>17. /\ Takes(session, heap, games, tickets, services, C, p \o q)
       /\ Entrusted(heap, games, tickets, services, p \o q) = Trust(heap, games, tickets,
            services, Head(todo))
  BY <1>2, <1>13, <1>15, <1>16 DEF Joined
<1>18. IsQuiet(Head(todo), p \o q) /\ Rises(Head(todo), p \o q)
  <2>1. IsQuiet(Head(todo), p) /\ Rises(Head(todo), p)
    BY <1>1, <1>3, <1>6 DEF IsQuiet, Rises
  <2>2. IsQuiet(Head(todo), q) /\ Rises(Head(todo), q)
    BY <1>1, <1>3, <1>12 DEF IsQuiet, Rises
  <2>3. \A a \in DOMAIN (p \o q) : (\E i \in DOMAIN p : (p \o q)[a] = p[i])
          \/ (\E i \in DOMAIN q : (p \o q)[a] = q[i])
    BY <1>16, Zenon DEF Joined
  <2> QED BY <2>1, <2>2, <2>3, QuietJoin
<1>19. Ok'
  <2>1. PICK t : t = p \o q
    OBVIOUS
  <2> QED BY <1>n, <1>0, <1>1, <1>c, <1>17, <1>18, <2>1, SameAction
<1> QED BY <1>0, <1>19, Unused

\* A step of a call that opens no package
QuietIs(ses, t, h, g, k, s, q, R, n, h2, k2, s2) ==
  /\ StateOk(ses, t, h, g, k, s) /\ t # <<>> /\ R = q \o Tail(t) /\ n = Len(t)
  /\ HeapOk(h2) /\ ListOk(h2, k2, "tik") /\ ListOk(h2, s2, "service") /\ Growing(h, h2, g, g)
  /\ \A i \in DOMAIN h : h[i].kind = "nca" /\ h[i].romfs_list # <<>> => h2[i].romfs_list # <<>>
  /\ Takes(ses, h2, g, k2, s2, After(t, n), q) /\ IsQuiet(Head(t), q) /\ Rises(Head(t), q)
  /\ \A b \in After(t, n) : IsReady(h2, k2, b)

\* The step of a call that opens no package and fetches nothing.
LEMMA QuietStep ==
  ASSUME NEW ses, NEW t, NEW h, NEW g, NEW k, NEW s, NEW q, NEW R, NEW n, NEW h2, NEW k2, NEW s2,
         QuietIs(ses, t, h, g, k, s, q, R, n, h2, k2, s2),
         NEW fresh, NEW z, NEW Z, Handed(t, h, g, k, s, q, n, h2, g, k2, s2, fresh, z, Z)
  PROVE  StateOk(ses, R, h2, g, k2, s2)
<1>0. /\ HeapOk(h2) /\ IsQuiet(Head(t), q) /\ Rises(Head(t), q) /\ Growing(h, h2, g, g)
      /\ IsSequence(q) /\ t # <<>> /\ R = q \o Tail(t) /\ n = Len(t)
      /\ Takes(ses, h2, g, k2, s2, After(t, n), q)
      /\ ListOk(h2, k2, "tik") /\ ListOk(h2, s2, "service")
           /\ \A b \in After(t, n) : IsReady(h2, k2, b)
      /\ \A i \in DOMAIN h : h[i].kind = "nca" /\ h[i].romfs_list # <<>> => h2[i].romfs_list # <<>>
  BY Zenon DEF QuietIs, Takes
<1>1. HeapOk(h) /\ ListsOk(h, g, k, s) /\ CallsOk(ses, t, h, g, k, s) /\ TrustOk(t, h, g, k, s)
        /\ GamesOk(h, g)
  BY DEF StateOk, ListsOk, QuietIs
<1>2. IsSequence(t) /\ \A d \in Turns(t) : IsCall(ses, h, g, At(t, d))
  BY <1>1 DEF CallsOk
<1>m. PICK m : m = Len(q)
  OBVIOUS
<1>3. Puts(t, q, R, n, m)
  BY <1>0, <1>1, <1>2, <1>m, MakingPuts DEF Making
<1>10. DOMAIN q = 1 .. m
  BY <1>0, <1>m, SequenceIs
<1>11. Opening(R, g)
  <2>1. Opening(t, g) /\ Head(t).op \notin {"nsp", "nsz"}
          /\ \A a \in 1 .. m : q[a].op \notin {"nsp", "nsz"}
    BY <1>0, <1>1, <1>10 DEF IsQuiet, CallsOk
  <2> QED BY ONLY <1>3, <2>1, OpeningStays
<1>12. Apart(R)
  BY <1>0, <1>1, <1>3, <1>10, ApartStays DEF IsQuiet, CallsOk
<1>13. Serving(R, h2)
  <2>1. Serving(t, h) /\ Head(t).op # "get_file" /\ \A a \in 1 .. m : q[a].op # "service"
    BY <1>0, <1>1, <1>10 DEF IsQuiet, CallsOk
  <2>2. \A i \in DOMAIN h : h[i].kind = "nca" /\ h[i].romfs_list # <<>> => h2[i].romfs_list # <<>>
    BY <1>0
  <2>3. \A d \in Turns(t) : IsCall(ses, h, g, At(t, d))
    BY <1>2
  <2> QED BY ONLY <1>3, <2>1, <2>2, <2>3, ServingStays
<1>15. ListsOk(h2, g, k2, s2)
  <2>1. GamesOk(h2, g)
    BY <1>0, <1>1, ListsStay DEF Growing
  <2> QED BY <1>0, <2>1 DEF ListsOk
<1>18. StepIs(ses, t, h, g, k, s, q, R, n, h2, g, k2, s2)
  BY <1>0, <1>11, <1>12, <1>13, <1>15 DEF StepIs, QuietIs
<1> QED BY <1>18, AnyStep

\* The same of an action
LEMMA QuietAction ==
  ASSUME Ok, todo # <<>>, NEW q, Then(q), Same, games' = games, NEW n, n = Len(todo),
         HeapOk(heap'), ListOk(heap', tickets', "tik"), ListOk(heap', services', "service"),
         Growing(heap, heap', games, games),
         \A i \in DOMAIN heap : heap[i].kind = "nca" /\ heap[i].romfs_list # <<>>
           => heap'[i].romfs_list # <<>>,
         Takes(session, heap', games, tickets', services', After(todo, n), q),
         IsQuiet(Head(todo), q), Rises(Head(todo), q),
         \A b \in After(todo, n) : IsReady(heap', tickets', b),
         NEW fresh, NEW z, NEW Z,
         Handed(todo, heap, games, tickets, services, q, n, heap', games, tickets', services',
           fresh, z, Z)
  PROVE  Ok'
<1>1. QuietIs(session, todo, heap, games, tickets, services, q, todo', n, heap', tickets',
        services')
  BY Zenon DEF QuietIs, Ok, Then
<1>2. StateOk(session, todo', heap', games, tickets', services')
  BY <1>1, QuietStep
<1>3. session' = session /\ games' = games
  BY DEF Same
<1> QED BY <1>2, <1>3 DEF Ok

\* HosDisable keeps the invariant, and uses and closes only what is live.
LEMMA HosDisableStep ==
  ASSUME Ok, HosDisable
  PROVE  Ok' /\ fault' = fault
<1>n. PICK n : n = Len(todo)
  OBVIOUS
<1>c. PICK C, q, s2 : C = After(todo, n) /\ q = Each("free", services) /\ s2 = <<>>
  OBVIOUS
<1>0. /\ Calling("hos_disable") /\ UNCHANGED heap /\ Same /\ games' = games
      /\ tickets' = tickets /\ services' = s2
      /\ Use({}) /\ Then(q)
  BY <1>c DEF HosDisable
<1>1. /\ HeapOk(heap) /\ Head(todo).op = "hos_disable" /\ todo # <<>>
      /\ ListsOk(heap, games, tickets, services)
      /\ GamesOk(heap, games)
      /\ Trust(heap, games, tickets, services, Head(todo)) \subseteq Live(heap)
  BY <1>0, <1>n, OkFacts
<1>2. Trust(heap, games, tickets, services, Head(todo)) = Range(services)
  BY <1>1 DEF Trust
<1>3. Level(Head(todo).op) = 3 /\ Level("free") = 0
  BY <1>1, Levels
<1>4. /\ n \in Nat \ {0} /\ \A b \in C : Above(b.op, Head(todo).op)
           /\ IsCall(session, heap, games, b) /\ IsReady(heap, tickets, b)
      /\ \A d \in 1 .. n - 1 : At(todo, d) \in C
  BY <1>1, <1>n, <1>c, HeadFacts DEF Ok
<1>10. /\ IsSequence(services) /\ IsInjective(services)
            /\ \A i \in Range(services) : IsAlone(heap, i, "service")
  BY <1>1 DEF ListsOk, ListOk
<1>11. IsSequence(q) /\ DOMAIN q = DOMAIN services
         /\ \A a \in DOMAIN q : q[a] = Call("free", services[a])
  BY <1>10, <1>c, EachFacts
<1>12. ASSUME NEW a \in DOMAIN q
       PROVE  /\ Fits(session, heap, games, tickets, s2, C, q[a]) /\ q[a].op = "free"
              /\ Trust(heap, games, tickets, s2, q[a]) = {services[a]}
              /\ services[a] \in Range(services)
  <2>1. services[a] \in Range(services)
    BY <1>10, <1>11, SequenceIs
  <2>2. PICK x, c : x = services[a] /\ c = q[a]
    OBVIOUS
  <2>3. IsAlone(heap, x, "service") /\ c = Call("free", x)
    BY <1>10, <1>11, <2>1, <2>2
  <2>4. Frees(heap, games, tickets, s2, C, x)
    BY <2>3 DEF Frees, IsAlone, FileKinds, Over
  <2>5. Fits(session, heap, games, tickets, s2, C, c)
          /\ Trust(heap, games, tickets, s2, c) = {x} /\ c.op = "free"
    BY <2>3, <2>4, FitsFree
  <2> QED BY <2>1, <2>2, <2>5
<1>13. Takes(session, heap, games, tickets, s2, C, q)
         /\ Entrusted(heap, games, tickets, s2, q) = Range(services)
  <2>1. ASSUME NEW a \in DOMAIN q, NEW b \in DOMAIN q, a # b
        PROVE  /\ Above(q[b].op, q[a].op)
               /\ Trust(heap, games, tickets, s2, q[a]) \cap Trust(heap, games, tickets, s2,
                    q[b]) = {}
    <3>1. services[a] # services[b]
      BY <1>10, <1>11, <2>1 DEF IsInjective
    <3> QED BY <1>3, <1>12, <3>1 DEF Above
  <2>2. Apiece(session, heap, games, tickets, s2, C, q)
    BY <1>11, <1>12, <2>1 DEF Apiece
  <2>3. Entrusted(heap, games, tickets, s2, q) = Range(services)
    <3>1. Range(services) = { services[a] : a \in DOMAIN q }
      BY <1>11 DEF Range
    <3>2. Entrusted(heap, games, tickets, s2, q) = UNION { {services[a]} : a \in DOMAIN q }
      BY <1>12 DEF Entrusted
    <3> QED BY <3>1, <3>2
  <2> QED BY <2>2, <2>3, TakesApiece
<1>14. IsQuiet(Head(todo), q) /\ Rises(Head(todo), q)
  BY <1>1, <1>3, <1>12 DEF IsQuiet, Rises
<1>15. Frame(heap, heap)
  BY <1>1 DEF Frame, Steady, Stable, HeapOk
<1>16. Growing(heap, heap, games, games)
  BY <1>1, <1>15, FrameGrowing
<1>17. ListOk(heap, s2, "service") /\ ListOk(heap, tickets, "tik")
  BY <1>1, <1>c, Nothing DEF ListsOk, ListOk
<1>18. ASSUME NEW d \in 1 .. n - 1
       PROVE  Trust(heap, games, tickets, s2, At(todo, d)) = Trust(heap, games, tickets, services,
              At(todo, d))
  <2>1. Above(At(todo, d).op, Head(todo).op) /\ IsCall(session, heap, games, At(todo, d))
    BY <1>4
  <2>2. At(todo, d).op # "hos_disable"
    BY <1>1, <1>3, <2>1 DEF Above, Once
  <2> QED BY ONLY <1>1, <1>15, <2>1, <2>2, TrustStays
<1>19. Handed(todo, heap, games, tickets, services, q, n, heap, games, tickets, s2, {}, 0, {})
  <2>1. 0 \in 0 .. n - 1
    BY <1>4
  <2>2. \A d \in 1 .. n - 1 : Trust(heap, games, tickets, s2, At(todo, d))
                                = Trust(heap, games, tickets, services,
                                  At(todo, d)) \cup IF d = 0 THEN {} ELSE {}
    BY <1>18
  <2>3. Entrusted(heap, games, tickets, s2, q) = Trust(heap, games, tickets, services, Head(todo))
    BY <1>2, <1>13
  <2> QED BY <1>1, <2>1, <2>2, <2>3 DEF Handed
<1>20. Ok'
  <2>1. heap' = heap /\ services' = s2 /\ tickets' = tickets
    BY <1>0
  <2>2. \A b \in C : IsReady(heap, tickets, b)
    BY <1>4
  <2>3. QuietIs(session, todo, heap, games, tickets, services, q, todo', n, heap, tickets, s2)
    BY <1>0, <1>1, <1>n, <1>c, <1>13, <1>14, <1>16, <1>17, <2>2 DEF QuietIs, Ok, Then
  <2>4. StateOk(session, todo', heap, games, tickets, s2)
    BY <1>19, <2>3, QuietStep
  <2> QED BY <1>0, <2>1, <2>4 DEF Ok, Same
<1> QED BY <1>0, <1>20, Unused

----------------------------------------------------------------------------
(* Calls that open what lies over nothing *)

\* What is assumed of the disk, and that registered services are given back
Enabled == services # <<>> => \E d \in Turns(todo) : At(todo, d).op = "hos_disable"

\* What is on disk is as assumed.
OnDisk == session \in Sessions

\* The objects made
LEMMA Made ==
  ASSUME NEW kind, NEW over, NEW dir, NEW path
  PROVE  /\ LET o == Object(kind, over) IN
            /\ o = [kind |-> o.kind, base |-> o.base, dir |-> o.dir, parts |-> <<>>,
                    pfs_list |-> <<>>, romfs_list |-> <<>>, path |-> o.path, live |-> TRUE]
            /\ o.kind = kind /\ o.base = over /\ o.dir = None
         /\ LET o == Inside(dir, Object(kind, over)) IN
            /\ o = [kind |-> o.kind, base |-> o.base, dir |-> o.dir, parts |-> <<>>,
                    pfs_list |-> <<>>, romfs_list |-> <<>>, path |-> o.path, live |-> TRUE]
            /\ o.kind = kind /\ o.base = over /\ o.dir = dir
         /\ LET o == Named(path, Object(kind, over)) IN
            /\ o = [kind |-> o.kind, base |-> o.base, dir |-> o.dir, parts |-> <<>>,
                    pfs_list |-> <<>>, romfs_list |-> <<>>, path |-> o.path, live |-> TRUE]
            /\ o.kind = kind /\ o.base = over /\ o.dir = None /\ o.path = path
         /\ LET o == Inside(dir, Named(path, Object(kind, over))) IN
            /\ o = [kind |-> o.kind, base |-> o.base, dir |-> o.dir, parts |-> <<>>,
                    pfs_list |-> <<>>, romfs_list |-> <<>>, path |-> o.path, live |-> TRUE]
            /\ o.kind = kind /\ o.base = over /\ o.dir = dir /\ o.path = path
<1>1. PICK o, a, b, c : /\ o = Object(kind, over) /\ a = Inside(dir, o) /\ b = Named(path, o)
                        /\ c = Inside(dir, b)
  OBVIOUS
<1>2. o = [kind |-> kind, base |-> over, dir |-> None, parts |-> <<>>,
           pfs_list |-> <<>>, romfs_list |-> <<>>, path |-> NoName, live |-> TRUE]
  BY <1>1 DEF Object
<1>3. a = [kind |-> kind, base |-> over, dir |-> dir, parts |-> <<>>,
           pfs_list |-> <<>>, romfs_list |-> <<>>, path |-> NoName, live |-> TRUE]
  <2>1. a = [o EXCEPT !.dir = dir]
    BY <1>1 DEF Inside
  <2> QED BY ONLY <2>1, <1>2
<1>4. b = [kind |-> kind, base |-> over, dir |-> None, parts |-> <<>>,
           pfs_list |-> <<>>, romfs_list |-> <<>>, path |-> path, live |-> TRUE]
  <2>1. b = [o EXCEPT !.path = path]
    BY <1>1 DEF Named
  <2> QED BY ONLY <2>1, <1>2
<1>5. c = [kind |-> kind, base |-> over, dir |-> dir, parts |-> <<>>,
           pfs_list |-> <<>>, romfs_list |-> <<>>, path |-> path, live |-> TRUE]
  <2>1. c = [b EXCEPT !.dir = dir]
    BY <1>1 DEF Inside
  <2> QED BY ONLY <2>1, <1>4
<1>6. /\ o = [kind |-> o.kind, base |-> o.base, dir |-> o.dir, parts |-> <<>>,
              pfs_list |-> <<>>, romfs_list |-> <<>>, path |-> o.path, live |-> TRUE]
      /\ o.kind = kind /\ o.base = over /\ o.dir = None
  BY <1>2
<1>7. /\ a = [kind |-> a.kind, base |-> a.base, dir |-> a.dir, parts |-> <<>>,
              pfs_list |-> <<>>, romfs_list |-> <<>>, path |-> a.path, live |-> TRUE]
      /\ a.kind = kind /\ a.base = over /\ a.dir = dir
  BY <1>3
<1>8. /\ b = [kind |-> b.kind, base |-> b.base, dir |-> b.dir, parts |-> <<>>,
              pfs_list |-> <<>>, romfs_list |-> <<>>, path |-> b.path, live |-> TRUE]
      /\ b.kind = kind /\ b.base = over /\ b.dir = None /\ b.path = path
  BY <1>4
<1>9. /\ c = [kind |-> c.kind, base |-> c.base, dir |-> c.dir, parts |-> <<>>,
              pfs_list |-> <<>>, romfs_list |-> <<>>, path |-> c.path, live |-> TRUE]
      /\ c.kind = kind /\ c.base = over /\ c.dir = dir /\ c.path = path
  BY <1>5
<1> QED BY <1>1, <1>6, <1>7, <1>8, <1>9, Zenon

\* An object that owns none
Comes(h, h2, o) ==
  /\ HeapOk(h) /\ IsNew(h, o) /\ h2 = Append(h, o) /\ o.kind \notin {"nca", "loader"}
  /\ o.base # None => h[o.base].kind # "loader"
  /\ o.kind \in {"offset", "aes", "pfs", "zip", "zipfile"} => o.base # None
  /\ o.kind = "zip" => h[o.base].kind = "host"
  /\ o.kind = "zipfile" => o.dir = None
  /\ o.kind = "mem" => o.base = None
  /\ o.kind = "host" => o.base = None /\ (o.dir # None => h[o.dir].kind = "hostdir")

\* What follows from it.
Came(h, h2, o) ==
  /\ HeapOk(h2) /\ Frame(h, h2) /\ DOMAIN h2 = DOMAIN h \cup {Len(h) + 1} /\ Len(h2) = Len(h) + 1
  /\ Len(h) \in Nat /\ Len(h) + 1 \notin DOMAIN h /\ h2[Len(h) + 1] = o
       /\ \A i \in DOMAIN h : h2[i] = h[i]
  /\ Live(h2) = Live(h) \cup {Len(h) + 1}

\* A new object that owns nothing leaves the heap sound.
LEMMA Coming ==
  ASSUME NEW h, NEW h2, NEW o, Comes(h, h2, o)
  PROVE  Came(h, h2, o)
<1>0. HeapOk(h) /\ IsNew(h, o) /\ h2 = Append(h, o) /\ o.kind \notin {"nca", "loader"}
  BY DEF Comes
<1>n. PICK n : n = Len(h) + 1
  OBVIOUS
<1>1. /\ DOMAIN h2 = DOMAIN h \cup {n} /\ Len(h2) = n /\ n \notin DOMAIN h /\ n \in Nat
      /\ h2[n] = o /\ \A i \in DOMAIN h : h2[i] = h[i]
      /\ Steady(h, h2) /\ Live(h2) = Live(h) \cup {n}
      /\ IsLayered(h2, n) /\ IsLoader(h2, n) /\ IsNca(h2, n)
           /\ (\A i \in Owned(h2, n) : Unowned(h, i)) => HeapOk(h2)
  BY <1>0, <1>n, NewObject
<1>2. Len(h) \in Nat
  BY <1>0, SequenceIs DEF HeapOk
<1>3. IsLoader(h2, n) /\ IsNca(h2, n) /\ Owned(h2, n) = {}
  BY <1>0, <1>1 DEF IsLoader, IsNca, Owned
<1>4. IsLayered(h2, n)
  <2>1. o.base \in {None} \cup DOMAIN h /\ o.dir \in {None} \cup DOMAIN h
    BY <1>0 DEF IsNew
  <2>2. (o.base # None => h2[o.base] = h[o.base]) /\ (o.dir # None => h2[o.dir] = h[o.dir])
    BY <1>1, <2>1
  <2> QED BY <1>0, <1>1, <2>2 DEF Comes, IsLayered
<1>5. HeapOk(h2)
  BY <1>1, <1>3, <1>4
<1>6. Frame(h, h2)
  <2>1. \A i \in DOMAIN h2 \ DOMAIN h : i = n
    BY <1>1
  <2> QED BY <1>1, <1>3, <2>1 DEF Frame
<1> QED BY <1>n, <1>1, <1>2, <1>5, <1>6 DEF Came

\* A frame upon a frame is one.
LEMMA FrameOn ==
  ASSUME NEW h, NEW h1, HeapOk(h1), NEW h2, Frame(h, h1), Frame(h1, h2)
  PROVE  Frame(h, h2)
<1>1. Steady(h, h1) /\ Steady(h1, h2)
  BY DEF Frame
<1>2. Steady(h, h2)
  <2>1. DOMAIN h \subseteq DOMAIN h1
    BY <1>1 DEF Steady, Stable
  <2> QED BY <1>1, <2>1, Zenon DEF Steady, Stable
<1>3. DOMAIN h \subseteq DOMAIN h1 /\ DOMAIN h1 \subseteq DOMAIN h2
        /\ \A i \in DOMAIN h : h1[i].kind = h[i].kind
  BY <1>1 DEF Steady, Stable
<1>4. \A i \in DOMAIN h : h[i].kind = "romfs" => h2[i].parts = h[i].parts
  BY <1>3 DEF Frame
<1>5. ASSUME NEW o \in DOMAIN h2 \ DOMAIN h PROVE Owned(h2, o) \cap DOMAIN h = {}
  <2>1. CASE o \in DOMAIN h1
    <3>1. Owned(h2, o) = Owned(h1, o)
      BY <1>1, <2>1, SteadyFacts
    <3> QED BY <2>1, <3>1 DEF Frame
  <2>2. CASE o \notin DOMAIN h1
    <3>1. Owned(h2, o) \cap DOMAIN h1 = {}
      BY <2>2 DEF Frame
    <3> QED BY <1>3, <3>1
  <2> QED BY <2>1, <2>2
<1> QED BY <1>2, <1>4, <1>5 DEF Frame

\* A host directory
LEMMA NewHostDir ==
  ASSUME NEW h, HeapOk(h), NEW h2, h2 = Append(h, HostDir)
  PROVE  /\ HeapOk(h2) /\ Frame(h, h2) /\ Live(h2) = Live(h) \cup {Len(h) + 1}
         /\ Len(h) + 1 \notin DOMAIN h
         /\ IsAlone(h2, Len(h) + 1, "hostdir") /\ Over(h2, Len(h) + 1) = {}
<1>1. PICK o : o = HostDir
  OBVIOUS
<1>2. /\ o = [kind |-> o.kind, base |-> o.base, dir |-> o.dir, parts |-> <<>>,
              pfs_list |-> <<>>, romfs_list |-> <<>>, path |-> o.path, live |-> TRUE]
      /\ o.kind = "hostdir" /\ o.base = None /\ o.dir = None
  BY <1>1, Made DEF HostDir
<1>3. Comes(h, h2, o)
  BY <1>1, <1>2 DEF Comes, IsNew
<1>4. Came(h, h2, o)
  BY <1>3, Coming
<1> QED BY <1>2, <1>4 DEF Came, IsAlone, Over

\* The directory of the calls that are to be made in it
LEMMA FitsDirClose ==
  ASSUME NEW ses, NEW h, NEW g, NEW k, NEW s, NEW C, NEW x, IsAlone(h, x, "hostdir"), NEW c,
         c = Call("dir_close", x)
  PROVE  /\ Fits(ses, h, g, k, s, C, c) /\ Trust(h, g, k, s, c) = {x} /\ c.op = "dir_close"
         /\ Level(c.op) = 6
         /\ \A D : c \in D => Assured(h, g, k, s, D, x)
<1>1. c.op = "dir_close" /\ c.x = x
  BY CallParts
<1>2. Trust(h, g, k, s, c) = {x}
  BY <1>1 DEF Trust
<1>3. IsCall(ses, h, g, c) /\ IsReady(h, k, c)
  BY <1>1 DEF IsCall, IsReady, Ops, OpsOfPackages, IsAlone
<1>4. IsPlaced(h, g, k, s, c, C)
  BY <1>1 DEF IsPlaced, OpsOfPackages
<1>5. Over(h, x) = {}
  BY DEF IsAlone, Over
<1>6. \A i : Whole(h, g, k, s, c, i) <=> i = x
  BY <1>1, <1>2 DEF Whole
<1> QED BY <1>1, <1>2, <1>3, <1>4, <1>5, <1>6, Levels DEF Fits, Assured

\* The search for keys fits in a directory that stays open.
LEMMA FitsFindKeys ==
  ASSUME NEW ses, NEW h, NEW g, NEW k, NEW s, NEW C, NEW x, NEW path, IsAlone(h, x, "hostdir"),
         Assured(h, g, k, s, C, x),
         NEW c, c = CallOn("find_keys", x, path)
  PROVE  Fits(ses, h, g, k, s, C, c) /\ Trust(h, g, k, s, c) = {} /\ c.op = "find_keys"
         /\ Level(c.op) = 6
<1>1. c.op = "find_keys" /\ c.dir = x
  BY CallParts
<1>2. Trust(h, g, k, s, c) = {}
  BY <1>1 DEF Trust
<1>3. IsCall(ses, h, g, c) /\ IsReady(h, k, c)
  BY <1>1 DEF IsCall, IsReady, Ops, OpsOfPackages, IsAlone
<1>4. IsPlaced(h, g, k, s, c, C)
  BY <1>1 DEF IsPlaced, OpsOfPackages
<1> QED BY <1>1, <1>2, <1>3, <1>4, Levels DEF Fits, Whole

\* HosCreate keeps the invariant, and uses and closes only what is live.
LEMMA HosCreateStep ==
  ASSUME Ok, HosCreate
  PROVE  Ok' /\ fault' = fault
<1>n. PICK n : n = Len(todo)
  OBVIOUS
<1>a. PICK d : d = Len(heap) + 1
  OBVIOUS
<1>c. PICK C, a, b, c : /\ C = After(todo, n) /\ a = CallOn("find_keys", d, "title.keys")
                        /\ b = CallOn("find_keys", d, "prod.keys")
                        /\ c = Call("dir_close", d)
  OBVIOUS
<1>0. Calling("hos_create") /\ SameLists /\ Use({}) /\ Then(<<a, b, c>>)
        /\ heap' = Append(heap, HostDir)
  BY <1>a, <1>c DEF HosCreate, New
<1>1. HeapOk(heap) /\ Head(todo).op = "hos_create" /\ todo # <<>>
  BY <1>0, <1>n, OkFacts
<1>2. Trust(heap, games, tickets, services, Head(todo)) = {}
  BY <1>1 DEF Trust
<1>3. /\ HeapOk(heap') /\ Frame(heap, heap') /\ Live(heap') = Live(heap) \cup {d}
      /\ d \notin DOMAIN heap
      /\ IsAlone(heap', d, "hostdir") /\ Over(heap', d) = {}
  BY <1>0, <1>1, <1>a, NewHostDir
<1>4. PICK h2 : h2 = heap'
  OBVIOUS
<1>5. /\ Fits(session, h2, games, tickets, services, C, c)
      /\ Trust(h2, games, tickets, services, c) = {d}
      /\ c.op = "dir_close" /\ Level(c.op) = 6 /\ \A D : c \in D
           => Assured(h2, games, tickets, services, D, d)
  BY <1>3, <1>4, <1>c, FitsDirClose
<1>6. /\ Fits(session, h2, games, tickets, services, C \cup {c}, b)
      /\ Trust(h2, games, tickets, services, b) = {}
      /\ b.op = "find_keys" /\ Level(b.op) = 6
  <2>1. Assured(h2, games, tickets, services, C \cup {c}, d) /\ IsAlone(h2, d, "hostdir")
    BY <1>3, <1>4, <1>5
  <2> QED BY ONLY <1>c, <2>1, FitsFindKeys
<1>7. /\ Fits(session, h2, games, tickets, services, C \cup {b, c}, a)
      /\ Trust(h2, games, tickets, services, a) = {}
      /\ a.op = "find_keys" /\ Level(a.op) = 6
  <2>1. Assured(h2, games, tickets, services, C \cup {b, c}, d) /\ IsAlone(h2, d, "hostdir")
    BY <1>3, <1>4, <1>5
  <2> QED BY ONLY <1>c, <2>1, FitsFindKeys
<1>8. Triple(session, h2, games, tickets, services, C, a, b, c)
  BY <1>5, <1>6, <1>7 DEF Triple, Pair, Above, Once
<1>9. Tripled(session, h2, games, tickets, services, C, a, b, c)
  BY <1>8, TakesThree
<1>10. Level(Head(todo).op) = 5
  BY <1>1, Levels
<1>11. IsQuiet(Head(todo), <<a, b, c>>) /\ Rises(Head(todo), <<a, b, c>>)
  BY <1>1, <1>5, <1>6, <1>7, <1>10, QuietThree
<1>12. PICK q : q = <<a, b, c>>
  OBVIOUS
<1>13. Takes(session, h2, games, tickets, services, C, q)
         /\ Entrusted(h2, games, tickets, services, q) = {d}
  BY <1>5, <1>6, <1>7, <1>9, <1>12 DEF Tripled
<1>14. Passed(todo, heap, games, tickets, services, q, h2, {d})
  BY <1>2, <1>3, <1>4, <1>13 DEF Passed
<1>15. Ok'
  BY <1>n, <1>c, <1>0, <1>1, <1>3, <1>4, <1>11, <1>12, <1>13, <1>14, FrameAction
<1> QED BY <1>0, <1>15, Unused

\* A file of a host directory of which none is open
Opens(dir, path, h2, n) ==
  /\ HeapOk(heap) /\ dir \in DOMAIN heap /\ heap[dir].kind = "hostdir" /\ heap[dir].parts = <<>>
  /\ h2 = WithHostFile(dir, path) /\ n = Len(heap) + 1

\* What follows from it.
HostOpened(dir, path, h2, n) ==
  /\ HostFile(dir, path) = n /\ HeapOk(h2) /\ Frame(heap, h2) /\ Live(h2) = Live(heap) \cup {n}
  /\ n \notin DOMAIN heap
  /\ n \in DOMAIN h2 /\ Len(h2) = n /\ n \in Nat
  /\ h2[n].kind = "host" /\ h2[n].base = None /\ h2[n].dir = dir /\ h2[dir].kind = "hostdir"
  /\ dir \in DOMAIN h2
  /\ Over(h2, n) = {dir} /\ DOMAIN h2 = DOMAIN heap \cup {n}

\* dir_open_file gives a file of the directory, new or not.
LEMMA NewHostFile ==
  ASSUME NEW dir, NEW path, NEW h2, NEW n, Opens(dir, path, h2, n)
  PROVE  HostOpened(dir, path, h2, n)
<1> SUFFICES ASSUME HeapOk(heap), dir \in DOMAIN heap, heap[dir].kind = "hostdir",
                    heap[dir].parts = <<>>,
                    h2 = WithHostFile(dir, path), n = Len(heap) + 1
             PROVE  HostOpened(dir, path, h2, n)
  BY DEF Opens
<1>1. Cached(dir, path) = {}
  BY Nothing DEF Cached
<1>2. PICK o, h1 : o = Inside(dir, Host(path)) /\ h1 = Append(heap, o)
  OBVIOUS
<1>3. HostFile(dir, path) = n
  BY <1>1 DEF HostFile, New
<1>4. /\ o = [kind |-> o.kind, base |-> o.base, dir |-> o.dir, parts |-> <<>>,
              pfs_list |-> <<>>, romfs_list |-> <<>>, path |-> o.path, live |-> TRUE]
      /\ o.kind = "host" /\ o.base = None /\ o.dir = dir
  BY <1>2, Made DEF Host
<1>5. Comes(heap, h1, o)
  BY <1>2, <1>4 DEF Comes, IsNew
<1>6. Came(heap, h1, o)
  BY <1>5, Coming
<1>7. /\ HeapOk(h1) /\ Frame(heap, h1) /\ DOMAIN h1 = DOMAIN heap \cup {n} /\ Len(h1) = n
      /\ n \notin DOMAIN heap /\ h1[n] = o /\ (\A i \in DOMAIN heap : h1[i] = heap[i])
      /\ Live(h1) = Live(heap) \cup {n} /\ n \in Nat
  BY <1>6 DEF Came
<1>8. PICK s : s = <<n>>
  OBVIOUS
<1>9. h2 = [h1 EXCEPT ![dir].parts = s]
  <2>1. h2 = [h1 EXCEPT ![dir].parts = Append(@, n)]
    BY <1>1, <1>2 DEF WithHostFile, New
  <2>2. h1[dir].parts = <<>> /\ Append(<<>>, n) = s
    BY <1>7, <1>8
  <2> QED BY <2>1, <2>2
<1>10. IsSequence(s) /\ Range(s) = {n} /\ IsInjective(s)
  <2>1. IsSequence(s)
    BY <1>8, Small, Zenon
  <2>2. DOMAIN s = {1} /\ s[1] = n
    BY <1>8
  <2> QED BY <2>1, <2>2, Zenon DEF Range, IsInjective
<1>11. Lists(h1, h2, dir, s)
  <2>1. \A j \in Range(s) : h1[j].dir = dir /\ h1[j].live /\ h1[j].kind \in {"host"}
    BY <1>4, <1>7, <1>10
  <2> QED BY <1>7, <1>9, <1>10, <2>1 DEF Lists
<1>12. Listed(h1, h2, dir, s)
  BY <1>11, Listing
<1>13. Frame(h1, h2)
  BY <1>7, <1>12 DEF Listed, Frame
<1>14. Frame(heap, h2)
  BY <1>7, <1>13, FrameOn
<1>15. \A i \in DOMAIN h1 : h2[i].kind = h1[i].kind /\ h2[i].base = h1[i].base
         /\ h2[i].dir = h1[i].dir
  BY <1>12 DEF Listed, Steady, Stable
<1>16. /\ HeapOk(h2) /\ Live(h2) = Live(heap) \cup {n} /\ n \in DOMAIN h2 /\ Len(h2) = n
       /\ DOMAIN h2 = DOMAIN heap \cup {n}
  BY <1>7, <1>12 DEF Listed
<1>17. h2[n].kind = "host" /\ h2[n].base = None /\ h2[n].dir = dir /\ h2[dir].kind = "hostdir"
         /\ dir \in DOMAIN h2
  BY <1>4, <1>7, <1>15, <1>16
<1>18. Over(h2, n) = {dir}
  BY <1>17, ObjectFacts DEF Over, None
<1> QED BY <1>3, <1>7, <1>14, <1>16, <1>17, <1>18 DEF HostOpened

\* The call that closes it
LEMMA FitsDirCloseFile ==
  ASSUME NEW ses, NEW h, NEW g, NEW k, NEW s, NEW C, NEW dir \in DOMAIN h, NEW x \in DOMAIN h,
         h[x].kind = "host" /\ h[x].dir = dir /\ h[dir].kind = "hostdir" /\ Over(h, x) = {dir}
           /\ Assured(h, g, k, s, C, dir),
         NEW c, c = CallOn("dir_close_file", dir, x)
  PROVE  /\ Fits(ses, h, g, k, s, C, c) /\ Trust(h, g, k, s, c) = {x} /\ c.op = "dir_close_file"
         /\ Level(c.op) = 7
         /\ \A D : c \in D => Assured(h, g, k, s, D, x)
<1>1. c.op = "dir_close_file" /\ c.x = x /\ c.dir = dir
  BY CallParts
<1>2. Trust(h, g, k, s, c) = {x}
  BY <1>1 DEF Trust
<1>3. IsCall(ses, h, g, c) /\ IsReady(h, k, c)
  BY <1>1 DEF IsCall, IsReady, Ops, OpsOfPackages
<1>4. IsPlaced(h, g, k, s, c, C)
  BY <1>1 DEF IsPlaced, OpsOfPackages
<1>5. \A i : Whole(h, g, k, s, c, i) <=> i = x
  BY <1>1, <1>2 DEF Whole
<1> QED BY <1>1, <1>2, <1>3, <1>4, <1>5, Levels DEF Fits, Assured

\* FindKeys keeps the invariant, and uses and closes only what is live.
LEMMA FindKeysStep ==
  ASSUME Ok, FindKeys
  PROVE  Ok' /\ fault' = fault
<1>n. PICK n : n = Len(todo)
  OBVIOUS
<1>a. PICK dir, path, f : dir = Head(todo).dir /\ path = Head(todo).x /\ f = Len(heap) + 1
  OBVIOUS
<1>c. PICK C, c, h2 : C = After(todo, n) /\ c = CallOn("dir_close_file", dir, f) /\ h2 = heap'
  OBVIOUS
<1>0. /\ Calling("find_keys") /\ SameLists /\ Use({dir}) /\ heap' = WithHostFile(dir, path)
      /\ Then(<<CallOn("dir_close_file", dir, HostFile(dir, path))>>)
  BY <1>a DEF FindKeys, Arg
<1>1. /\ HeapOk(heap) /\ Head(todo).op = "find_keys" /\ todo # <<>>
      /\ IsCall(session, heap, games, Head(todo))
      /\ IsPlaced(heap, games, tickets, services, Head(todo), After(todo, n))
  BY <1>0, <1>n, OkFacts
<1>2. Trust(heap, games, tickets, services, Head(todo)) = {}
  BY <1>1 DEF Trust
<1>3. dir \in DOMAIN heap /\ heap[dir].kind = "hostdir"
        /\ Assured(heap, games, tickets, services, C, dir)
  BY <1>1, <1>a, <1>c DEF IsCall, IsPlaced
<1>4. heap[dir].parts = <<>>
  BY <1>1, <1>3, NoFileOpen DEF Ok
<1>5. /\ HostFile(dir, path) = f /\ HeapOk(h2) /\ Frame(heap, h2)
      /\ Live(h2) = Live(heap) \cup {f} /\ f \notin DOMAIN heap
      /\ f \in DOMAIN h2
      /\ h2[f].kind = "host" /\ h2[f].base = None /\ h2[f].dir = dir /\ h2[dir].kind = "hostdir"
      /\ dir \in DOMAIN h2
      /\ Over(h2, f) = {dir}
  <2>1. Opens(dir, path, h2, f)
    BY <1>0, <1>1, <1>3, <1>4, <1>a, <1>c DEF Opens
  <2>2. HostOpened(dir, path, h2, f)
    BY <2>1, NewHostFile
  <2> QED BY <2>2 DEF HostOpened
<1>6. Assured(h2, games, tickets, services, C, dir)
  BY <1>1, <1>3, <1>5, <1>n, <1>c, FrameAssured DEF Ok
<1>7. /\ Fits(session, h2, games, tickets, services, C, c)
      /\ Trust(h2, games, tickets, services, c) = {f}
      /\ c.op = "dir_close_file" /\ Level(c.op) = 7
  BY <1>5, <1>6, <1>c, FitsDirCloseFile
<1>8. Takes(session, h2, games, tickets, services, C, <<c>>)
        /\ Entrusted(h2, games, tickets, services, <<c>>) = {f}
  BY <1>7, TakesOne
<1>9. IsQuiet(Head(todo), <<c>>) /\ Rises(Head(todo), <<c>>)
  <2>1. Level(Head(todo).op) = 6
    BY <1>1, Levels
  <2> QED BY <1>1, <1>7, <2>1, QuietOne
<1>10. Then(<<c>>)
  BY <1>0, <1>5, <1>c
<1>11. Passed(todo, heap, games, tickets, services, <<c>>, h2, {f})
  BY <1>2, <1>5, <1>8 DEF Passed
<1>12. Ok'
  BY <1>n, <1>c, <1>0, <1>1, <1>5, <1>8, <1>9, <1>10, <1>11, FrameAction
<1>13. dir \in Live(heap)
  BY <1>1, <1>3, <1>n, <1>c, AssuredFacts DEF Ok
<1> QED BY <1>0, <1>12, <1>13, Unused

\* The call that loads a game fits in a directory that stays open.
LEMMA FitsLoadGame ==
  ASSUME NEW ses, NEW h, NEW g, NEW k, NEW s, NEW C, NEW x, NEW i, IsAlone(h, x, "hostdir"),
         Assured(h, g, k, s, C, x),
         Later(C, "nx_sys_destroy"), i \in DOMAIN ses.games, NEW c, c = CallOn("load_game", x, i)
  PROVE  Fits(ses, h, g, k, s, C, c) /\ Trust(h, g, k, s, c) = {} /\ c.op = "load_game"
         /\ Level(c.op) = 6
<1>1. c.op = "load_game" /\ c.dir = x /\ c.x = i
  BY CallParts
<1>2. Trust(h, g, k, s, c) = {}
  BY <1>1 DEF Trust
<1>3. IsCall(ses, h, g, c) /\ IsReady(h, k, c)
  BY <1>1 DEF IsCall, IsReady, Ops, OpsOfPackages, IsAlone
<1>4. IsPlaced(h, g, k, s, c, C)
  BY <1>1 DEF IsPlaced, OpsOfPackages
<1> QED BY <1>1, <1>2, <1>3, <1>4, Levels DEF Fits, Whole

\* Calls of which none is trusted with anything
LEMMA TakesIdle ==
  ASSUME NEW ses, NEW h, NEW g, NEW k, NEW s, NEW C, NEW q, IsSequence(q), NEW op,
         op \notin {"nsp", "nsz"}, Level(op) \notin Once,
         \A a \in DOMAIN q : Fits(ses, h, g, k, s, C, q[a]) /\ Trust(h, g, k, s, q[a]) = {}
           /\ q[a].op = op
  PROVE  Takes(ses, h, g, k, s, C, q) /\ Entrusted(h, g, k, s, q) = {}
<1>1. ASSUME NEW a \in DOMAIN q, NEW b \in DOMAIN q
      PROVE  Above(q[b].op, q[a].op) /\ Trust(h, g, k, s, q[a]) \cap Trust(h, g, k, s, q[b]) = {}
  BY DEF Above
<1>2. Apiece(ses, h, g, k, s, C, q)
  BY <1>1 DEF Apiece
<1> QED BY <1>2, TakesApiece DEF Entrusted

\* GetAllLoaders keeps the invariant, and uses and closes only what is live.
LEMMA GetAllLoadersStep ==
  ASSUME Ok, OnDisk, GetAllLoaders
  PROVE  Ok' /\ fault' = fault
<1>n. PICK n : n = Len(todo)
  OBVIOUS
<1>a. PICK d, h2, C, c, p, q : /\ d = Len(heap) + 1 /\ h2 = heap' /\ C = After(todo, n)
                               /\ c = Call("dir_close", d)
                            /\ p = [i \in DOMAIN session.games |-> CallOn("load_game", d, i)]
                            /\ q = <<c>>
  OBVIOUS
<1>0. Calling("nx_get_all_loaders") /\ SameLists /\ Use({}) /\ Then(p \o q)
        /\ heap' = Append(heap, HostDir)
  BY <1>a DEF GetAllLoaders, New
<1>1. /\ HeapOk(heap) /\ Head(todo).op = "nx_get_all_loaders" /\ todo # <<>>
      /\ IsPlaced(heap, games, tickets, services, Head(todo), After(todo, n))
  BY <1>0, <1>n, OkFacts
<1>2. Trust(heap, games, tickets, services, Head(todo)) = {} /\ Later(C, "nx_sys_destroy")
  BY <1>1, <1>a DEF Trust, IsPlaced
<1>3. /\ HeapOk(h2) /\ Frame(heap, h2) /\ Live(h2) = Live(heap) \cup {d} /\ d \notin DOMAIN heap
      /\ IsAlone(h2, d, "hostdir") /\ Over(h2, d) = {}
  BY <1>0, <1>1, <1>a, NewHostDir
<1>4. /\ Fits(session, h2, games, tickets, services, C, c)
      /\ Trust(h2, games, tickets, services, c) = {d}
      /\ c.op = "dir_close" /\ Level(c.op) = 6 /\ \A D : c \in D
           => Assured(h2, games, tickets, services, D, d)
  BY <1>3, <1>a, FitsDirClose
<1>5. /\ Takes(session, h2, games, tickets, services, C, q)
      /\ Entrusted(h2, games, tickets, services, q) = {d}
      /\ Range(q) = {c} /\ DOMAIN q = {1} /\ q[1] = c
  BY <1>4, <1>a, TakesOne
<1>6. IsSequence(p) /\ DOMAIN p = DOMAIN session.games
  <2>1. IsSequence(session.games)
    BY SessionsAssumption DEF OnDisk
  <2>2. Len(session.games) \in Nat /\ DOMAIN session.games = 1 .. Len(session.games)
    BY <2>1, SequenceIs
  <2>3. DOMAIN p = 1 .. Len(session.games) /\ p = [i \in 1 .. Len(session.games) |-> p[i]]
    BY <1>a, <2>2
  <2> QED BY <1>a, <2>2, <2>3, SequenceBy
<1>7. ASSUME NEW a \in DOMAIN p
      PROVE  /\ Fits(session, h2, games, tickets, services, C \cup Range(q), p[a])
             /\ Trust(h2, games, tickets, services, p[a]) = {}
             /\ p[a].op = "load_game" /\ Level(p[a].op) = 6
  <2>1. Assured(h2, games, tickets, services, C \cup Range(q), d)
          /\ Later(C \cup Range(q), "nx_sys_destroy")
    BY <1>2, <1>4, <1>5 DEF Later
  <2>2. p[a] = CallOn("load_game", d, a) /\ a \in DOMAIN session.games
    BY <1>6, <1>a
  <2> QED BY <1>3, <2>1, <2>2, FitsLoadGame
<1>8. Takes(session, h2, games, tickets, services, C \cup Range(q), p)
        /\ Entrusted(h2, games, tickets, services, p) = {}
  <2>1. Level("load_game") \notin Once
    BY Levels DEF Once
  <2> QED BY <1>6, <1>7, <2>1, TakesIdle
<1>9. Joined(session, h2, games, tickets, services, C, p, q)
  <2>1. \A i \in DOMAIN p : \A j \in DOMAIN q : Above(q[j].op, p[i].op)
    BY <1>4, <1>5, <1>7 DEF Above, Once
  <2>2. Joins(session, h2, games, tickets, services, C, p, q)
    BY <1>5, <1>8, <2>1 DEF Joins
  <2> QED BY <2>2, TakesJoin
<1>10. IsQuiet(Head(todo), p \o q) /\ Rises(Head(todo), p \o q)
  <2>0. Level(Head(todo).op) = 4
    BY <1>1, Levels
  <2>1. IsQuiet(Head(todo), p) /\ Rises(Head(todo), p)
    BY <1>1, <1>7, <2>0 DEF IsQuiet, Rises
  <2>2. IsQuiet(Head(todo), q) /\ Rises(Head(todo), q)
    BY <1>1, <1>4, <1>5, <2>0 DEF IsQuiet, Rises
  <2>3. \A a \in DOMAIN (p \o q) : (\E i \in DOMAIN p : (p \o q)[a] = p[i])
          \/ (\E i \in DOMAIN q : (p \o q)[a] = q[i])
    BY <1>9, Zenon DEF Joined
  <2> QED BY <2>1, <2>2, <2>3, QuietJoin
<1>11. PICK r : r = p \o q
  OBVIOUS
<1>12. Takes(session, h2, games, tickets, services, C, r)
         /\ Entrusted(h2, games, tickets, services, r) = {d}
  BY <1>5, <1>8, <1>9, <1>11 DEF Joined
<1>13. Passed(todo, heap, games, tickets, services, r, h2, {d})
  BY <1>2, <1>3, <1>12 DEF Passed
<1>14. Ok'
  BY <1>n, <1>a, <1>0, <1>1, <1>3, <1>10, <1>11, <1>12, <1>13, FrameAction
<1> QED BY <1>0, <1>14, Unused

\* The call that gives back the services, of which there are none yet
LEMMA FitsDisable ==
  ASSUME NEW ses, NEW h, NEW g, NEW k, NEW s, s = <<>>, NEW C, NEW c, c = Op("hos_disable")
  PROVE  Fits(ses, h, g, k, s, C, c) /\ Trust(h, g, k, s, c) = {} /\ c.op = "hos_disable"
         /\ Level(c.op) = 3
<1>1. c.op = "hos_disable"
  BY CallParts
<1>2. Trust(h, g, k, s, c) = {}
  BY <1>1, Nothing DEF Trust
<1>3. IsCall(ses, h, g, c) /\ IsReady(h, k, c)
  BY <1>1 DEF IsCall, IsReady, Ops, OpsOfPackages
<1>4. IsPlaced(h, g, k, s, c, C)
  BY <1>1 DEF IsPlaced, OpsOfPackages
<1> QED BY <1>1, <1>2, <1>3, <1>4, Levels DEF Fits, Whole

\* So does the one that loads the firmware.
LEMMA FitsFirmware ==
  ASSUME NEW ses, NEW h, NEW g, NEW k, NEW s, NEW C, NEW x, IsAlone(h, x, "hostdir"),
         Assured(h, g, k, s, C, x),
         Later(C, "hos_disable"), ses.firmware # <<>>, NEW c, c = Call("hos_firmware_load", x)
  PROVE  Fits(ses, h, g, k, s, C, c) /\ Trust(h, g, k, s, c) = {} /\ c.op = "hos_firmware_load"
         /\ Level(c.op) = 6
<1>1. c.op = "hos_firmware_load" /\ c.x = x
  BY CallParts
<1>2. Trust(h, g, k, s, c) = {}
  BY <1>1 DEF Trust
<1>3. IsCall(ses, h, g, c) /\ IsReady(h, k, c)
  BY <1>1 DEF IsCall, IsReady, Ops, OpsOfPackages, IsAlone
<1>4. IsPlaced(h, g, k, s, c, C)
  BY <1>1 DEF IsPlaced, OpsOfPackages
<1> QED BY <1>1, <1>2, <1>3, <1>4, Levels DEF Fits, Whole

\* LoadFirstOne keeps the invariant, and uses and closes only what is live.
LEMMA LoadFirstOneStep ==
  ASSUME Ok, Enabled, LoadFirstOne
  PROVE  Ok' /\ fault' = fault
<1>n. PICK n : n = Len(todo)
  OBVIOUS
<1>a. PICK d, h2, C, a, b, c : /\ d = Len(heap) + 1 /\ h2 = heap' /\ C = After(todo, n)
                               /\ a = Call("hos_firmware_load", d)
                               /\ b = Call("dir_close", d) /\ c = Op("hos_disable")
  OBVIOUS
<1>0. /\ Calling("nx_load_first_one") /\ SameLists /\ Use({})
      /\ IF games = <<>> THEN UNCHANGED heap /\ Then(<<>>)
         ELSE /\ heap' = Append(heap, HostDir)
              /\ Then((IF session.firmware = <<>> THEN <<>> ELSE <<a>>) \o <<b, c>>)
  BY <1>a DEF LoadFirstOne, New
<1>1. /\ HeapOk(heap) /\ Head(todo).op = "nx_load_first_one" /\ todo # <<>> /\ n \in Nat \ {0}
      /\ At(todo, n) = Head(todo)
      /\ Trust(heap, games, tickets, services, Head(todo)) \subseteq Live(heap)
  BY <1>0, <1>n, OkFacts
<1>2. Trust(heap, games, tickets, services, Head(todo)) = {}
  BY <1>1 DEF Trust
<1>3. CASE games = <<>>
  <2>1. /\ Takes(session, heap, games, tickets, services, After(todo, n), <<>>)
        /\ Entrusted(heap, games, tickets, services, <<>>) = {}
    BY TakesNone, Zenon
  <2>2. IsQuiet(Head(todo), <<>>) /\ Rises(Head(todo), <<>>)
    BY <1>1, QuietNone
  <2>3. Then(<<>>) /\ UNCHANGED heap
    BY <1>0, <1>3
  <2>4. Ok'
    BY <1>n, <1>0, <1>1, <1>2, <2>1, <2>2, <2>3, SameAction
  <2> QED BY <1>0, <2>4, Unused
<1>4. CASE games # <<>>
  <2>0. heap' = Append(heap, HostDir)
          /\ Then((IF session.firmware = <<>> THEN <<>> ELSE <<a>>) \o <<b, c>>)
    BY <1>0, <1>4
  <2>1. /\ HeapOk(h2) /\ Frame(heap, h2) /\ Live(h2) = Live(heap) \cup {d} /\ d \notin DOMAIN heap
        /\ IsAlone(h2, d, "hostdir") /\ Over(h2, d) = {}
    BY <1>1, <1>a, <2>0, NewHostDir
  <2>2. services = <<>>
    <3>1. SUFFICES ASSUME NEW e \in Turns(todo), At(todo, e).op = "hos_disable" PROVE FALSE
      BY DEF Enabled
    <3>2. Turns(todo) = 1 .. n /\ \A f \in After(todo, n) : Above(f.op, Head(todo).op)
      BY <1>1, <1>n, HeadFacts DEF Ok
    <3>3. e \in 1 .. n - 1
      BY <1>1, <3>1, <3>2
    <3>4. Above("hos_disable", "nx_load_first_one")
      BY <1>1, <3>1, <3>2, <3>3 DEF After
    <3> QED BY <3>4, Levels DEF Above, Once
  <2>3. /\ Fits(session, h2, games, tickets, services, C, c)
        /\ Trust(h2, games, tickets, services, c) = {}
        /\ c.op = "hos_disable" /\ Level(c.op) = 3
    BY <1>a, <2>2, FitsDisable
  <2>4. /\ Fits(session, h2, games, tickets, services, C \cup {c}, b)
        /\ Trust(h2, games, tickets, services, b) = {d}
        /\ b.op = "dir_close" /\ Level(b.op) = 6 /\ \A D : b \in D
             => Assured(h2, games, tickets, services, D, d)
    BY <1>a, <2>1, FitsDirClose
  <2>5. Level(Head(todo).op) = 3
    BY <1>1, Levels
  <2>6. Pair(session, h2, games, tickets, services, C, b, c)
    BY <2>3, <2>4 DEF Pair, Above
  <2>7. ASSUME NEW q, Then(q), Takes(session, h2, games, tickets, services, C, q),
               Entrusted(h2, games, tickets, services, q) = {d}, IsQuiet(Head(todo), q),
               Rises(Head(todo), q)
        PROVE  Ok'
    <3>1. Passed(todo, heap, games, tickets, services, q, h2, {d})
      BY <1>2, <2>1, <2>7 DEF Passed
    <3> QED BY <1>n, <1>a, <1>0, <1>1, <2>1, <2>7, <3>1, FrameAction
  <2>8. CASE session.firmware = <<>>
    <3>1. Then(<<b, c>>)
      <4>1. <<>> \o <<b, c>> = <<b, c>>
        OBVIOUS
      <4> QED BY <2>0, <2>8, <4>1
    <3>2. Paired(session, h2, games, tickets, services, C, b, c)
      BY <2>6, TakesTwo
    <3>3. IsQuiet(Head(todo), <<b, c>>) /\ Rises(Head(todo), <<b, c>>)
      BY <1>1, <2>3, <2>4, <2>5, QuietTwo
    <3>4. PICK q : q = <<b, c>>
      OBVIOUS
    <3>5. Takes(session, h2, games, tickets, services, C, q)
            /\ Entrusted(h2, games, tickets, services, q) = {d}
      BY <2>3, <2>4, <3>2, <3>4 DEF Paired
    <3>6. Ok'
      BY <2>7, <3>1, <3>3, <3>4, <3>5
    <3> QED BY <1>0, <3>6, Unused
  <2>9. CASE session.firmware # <<>>
    <3>1. Then(<<a, b, c>>)
      <4>1. <<a>> \o <<b, c>> = <<a, b, c>>
        BY Tuples
      <4> QED BY <2>0, <2>9, <4>1
    <3>2. /\ Fits(session, h2, games, tickets, services, C \cup {b, c}, a)
          /\ Trust(h2, games, tickets, services, a) = {}
          /\ a.op = "hos_firmware_load" /\ Level(a.op) = 6
      <4>1. Assured(h2, games, tickets, services, C \cup {b, c}, d)
              /\ Later(C \cup {b, c}, "hos_disable")
        BY <2>3, <2>4 DEF Later
      <4> QED BY <1>a, <2>1, <2>9, <4>1, FitsFirmware
    <3>3. Triple(session, h2, games, tickets, services, C, a, b, c)
      BY <2>3, <2>4, <2>6, <3>2 DEF Triple, Above, Once
    <3>4. Tripled(session, h2, games, tickets, services, C, a, b, c)
      BY <3>3, TakesThree
    <3>5. IsQuiet(Head(todo), <<a, b, c>>) /\ Rises(Head(todo), <<a, b, c>>)
      BY <1>1, <2>3, <2>4, <2>5, <3>2, QuietThree
    <3>6. PICK q : q = <<a, b, c>>
      OBVIOUS
    <3>7. Takes(session, h2, games, tickets, services, C, q)
            /\ Entrusted(h2, games, tickets, services, q) = {d}
      BY <2>3, <2>4, <3>2, <3>4, <3>6 DEF Tripled
    <3>8. Ok'
      BY <2>7, <3>1, <3>5, <3>6, <3>7
    <3> QED BY <1>0, <3>8, Unused
  <2> QED BY <2>8, <2>9
<1> QED BY <1>3, <1>4

\* The archives of the firmware are opened while its zip stays open.
LEMMA FitsOpenFirmware ==
  ASSUME NEW ses, NEW h, NEW g, NEW k, NEW s, NEW C, NEW x \in DOMAIN h, NEW e, h[x].kind = "zip",
         IsArchive(e),
         Assured(h, g, k, s, C, x), Later(C, "hos_disable"), NEW c,
         c = CallWith("content_archive_create", None, x, e)
  PROVE  Fits(ses, h, g, k, s, C, c) /\ Trust(h, g, k, s, c) = {}
         /\ c.op = "content_archive_create" /\ Level(c.op) = 11
<1>1. c.op = "content_archive_create" /\ c.dir = x /\ c.e = e /\ c.owner = None
  BY CallParts
<1>2. Trust(h, g, k, s, c) = {}
  BY <1>1 DEF Trust
<1>3. IsCall(ses, h, g, c) /\ IsReady(h, k, c)
  BY <1>1 DEF IsCall, IsReady, Ops, OpsOfPackages
<1>4. IsPlaced(h, g, k, s, c, C)
  BY <1>1 DEF IsPlaced, OpsOfPackages
<1> QED BY <1>1, <1>2, <1>3, <1>4, Levels DEF Fits, Whole

\* What is assumed of the firmware.
LEMMA FirmwareIs ==
  ASSUME OnDisk, session.firmware # <<>>
  PROVE  IsSequence(session.firmware[1])
         /\ \A i \in DOMAIN session.firmware[1] : IsArchive(session.firmware[1][i])
<1>1. /\ IsSequence(session.firmware) /\ Len(session.firmware) \in {0, 1}
      /\ \A f \in DOMAIN session.firmware :
           IsSequence(session.firmware[f])
             /\ \A i \in DOMAIN session.firmware[f] : IsArchive(session.firmware[f][i])
  BY SessionsAssumption DEF OnDisk
<1>2. 1 \in DOMAIN session.firmware
  <2>1. Len(session.firmware) # 0
    <3>1. session.firmware \in Seq(Range(session.firmware))
      BY <1>1, SequenceIs
    <3> QED BY <3>1
  <2> QED BY <1>1, <2>1, SequenceIs
<1> QED BY <1>1, <1>2

\* The directory made over a host file
Zips(h, f, h2, n) ==
  HeapOk(h) /\ f \in DOMAIN h /\ h[f].kind = "host" /\ h2 = Append(h, ZipDir(f)) /\ n = Len(h) + 1

\* What follows from it.
Zipped(h, f, h2, n) ==
  /\ Came(h, h2, ZipDir(f)) /\ n \in DOMAIN h2 /\ n \notin DOMAIN h /\ h2[n].kind = "zip"
  /\ Over(h2, n) = {f}
  /\ Live(h2) = Live(h) \cup {n}

\* zipdir_open_2 makes a directory over a host file.
LEMMA NewZip ==
  ASSUME NEW h, NEW f, NEW h2, NEW n, Zips(h, f, h2, n)
  PROVE  Zipped(h, f, h2, n)
<1>0. HeapOk(h) /\ f \in DOMAIN h /\ h[f].kind = "host" /\ h2 = Append(h, ZipDir(f))
        /\ n = Len(h) + 1
  BY DEF Zips
<1>1. PICK o : o = ZipDir(f)
  OBVIOUS
<1>2. /\ o = [kind |-> o.kind, base |-> o.base, dir |-> o.dir, parts |-> <<>>,
              pfs_list |-> <<>>, romfs_list |-> <<>>, path |-> o.path, live |-> TRUE]
      /\ o.kind = "zip" /\ o.base = f /\ o.dir = None
  BY <1>1, Made DEF ZipDir
<1>3. f # None
  BY <1>0, ObjectFacts DEF None
<1>4. Comes(h, h2, o)
  BY <1>0, <1>1, <1>2, <1>3 DEF Comes, IsNew
<1>5. Came(h, h2, o)
  BY <1>4, Coming
<1> QED BY <1>0, <1>1, <1>2, <1>3, <1>5 DEF Came, Over, Zipped

\* HosFirmwareLoad keeps the invariant, and uses and closes only what is live.
LEMMA HosFirmwareLoadStep ==
  ASSUME Ok, OnDisk, HosFirmwareLoad
  PROVE  Ok' /\ fault' = fault
<1>n. PICK n : n = Len(todo)
  OBVIOUS
<1>a. PICK x, f, h1, zip, C : x = Head(todo).x /\ f = Len(heap) + 1
        /\ h1 = WithHostFile(x, "firmware.zip") /\ zip = Len(h1) + 1
                              /\ C = After(todo, n)
  OBVIOUS
<1>b. PICK h2, a, b, p, q, ncas : /\ h2 = heap' /\ a = Call("free", zip)
                                  /\ b = CallOn("dir_close_file", x, f) /\ q = <<a, b>>
                                  /\ ncas = session.firmware[1]
                                  /\ p = EachWith("content_archive_create", None, zip, ncas)
  OBVIOUS
<1>0. /\ Calling("hos_firmware_load") /\ SameLists /\ Use({x})
      /\ heap' = Append(h1, ZipDir(HostFile(x, "firmware.zip")))
      /\ Then(p \o <<a, CallOn("dir_close_file", x, HostFile(x, "firmware.zip"))>>)
  BY <1>a, <1>b DEF HosFirmwareLoad, Arg
<1>1. /\ HeapOk(heap) /\ Head(todo).op = "hos_firmware_load" /\ todo # <<>>
      /\ IsCall(session, heap, games, Head(todo))
      /\ IsPlaced(heap, games, tickets, services, Head(todo), After(todo, n))
  BY <1>0, <1>n, OkFacts
<1>2. Trust(heap, games, tickets, services, Head(todo)) = {}
  BY <1>1 DEF Trust
<1>3. /\ x \in DOMAIN heap /\ heap[x].kind = "hostdir"
      /\ Assured(heap, games, tickets, services, C, x)
      /\ session.firmware # <<>> /\ Later(C, "hos_disable")
  BY <1>1, <1>a DEF IsCall, IsPlaced
<1>4. heap[x].parts = <<>>
  BY <1>1, <1>3, NoFileOpen DEF Ok
<1>5. /\ HostFile(x, "firmware.zip") = f /\ HeapOk(h1) /\ Frame(heap, h1)
      /\ Live(h1) = Live(heap) \cup {f} /\ f \notin DOMAIN heap
      /\ f \in DOMAIN h1 /\ Len(h1) = f /\ f \in Nat
      /\ h1[f].kind = "host" /\ h1[f].base = None /\ h1[f].dir = x /\ h1[x].kind = "hostdir"
      /\ x \in DOMAIN h1
      /\ Over(h1, f) = {x} /\ DOMAIN h1 = DOMAIN heap \cup {f}
  <2>1. Opens(x, "firmware.zip", h1, f)
    BY <1>1, <1>3, <1>4, <1>a DEF Opens
  <2>2. HostOpened(x, "firmware.zip", h1, f)
    BY <2>1, NewHostFile
  <2> QED BY <2>2 DEF HostOpened
<1>6. h2 = Append(h1, ZipDir(f))
  BY <1>0, <1>5, <1>b
<1>7. /\ Came(h1, h2, ZipDir(f)) /\ zip \in DOMAIN h2 /\ zip \notin DOMAIN h1
      /\ h2[zip].kind = "zip" /\ Over(h2, zip) = {f}
      /\ Live(h2) = Live(h1) \cup {zip}
  <2>1. Zips(h1, f, h2, zip)
    BY <1>5, <1>6, <1>a DEF Zips
  <2>2. Zipped(h1, f, h2, zip)
    BY <2>1, NewZip
  <2> QED BY <2>2 DEF Zipped
<1>8. HeapOk(h2) /\ Frame(h1, h2) /\ DOMAIN h2 = DOMAIN h1 \cup {zip}
        /\ \A i \in DOMAIN h1 : h2[i] = h1[i]
  BY <1>7, <1>a DEF Came
<1>9. Frame(heap, h2)
  BY <1>5, <1>8, FrameOn
<1>10. /\ Live(h2) = Live(heap) \cup {f, zip} /\ f \notin DOMAIN heap /\ zip \notin DOMAIN heap
       /\ f \in DOMAIN h2 /\ x \in DOMAIN h2
       /\ h2[f] = h1[f] /\ h2[x] = h1[x] /\ f # zip
  BY <1>5, <1>7, <1>8
<1>11. h2[f].kind = "host" /\ h2[f].dir = x /\ h2[x].kind = "hostdir" /\ Over(h2, f) = {x}
  BY <1>5, <1>10 DEF Over
<1>12. Assured(h2, games, tickets, services, C, x)
  BY <1>1, <1>3, <1>9, <1>n, <1>a, FrameAssured DEF Ok
<1>13. /\ Fits(session, h2, games, tickets, services, C, b)
       /\ Trust(h2, games, tickets, services, b) = {f}
       /\ b.op = "dir_close_file" /\ Level(b.op) = 7 /\ \A D : b \in D
            => Assured(h2, games, tickets, services, D, f)
  BY <1>10, <1>11, <1>12, <1>b, FitsDirCloseFile
<1>14. /\ Fits(session, h2, games, tickets, services, C \cup {b}, a)
       /\ Trust(h2, games, tickets, services, a) = {zip}
       /\ a.op = "free" /\ Level(a.op) = 0
  <2>1. Frees(h2, games, tickets, services, C \cup {b}, zip)
    BY <1>7, <1>13 DEF Frees, FileKinds
  <2> QED BY <1>b, <2>1, FitsFree
<1>15. /\ Takes(session, h2, games, tickets, services, C, q)
       /\ Entrusted(h2, games, tickets, services, q) = {f, zip}
       /\ Range(q) = {a, b} /\ DOMAIN q = {1, 2} /\ q[1] = a /\ q[2] = b
  <2>1. Pair(session, h2, games, tickets, services, C, a, b)
    BY <1>10, <1>13, <1>14 DEF Pair, Above
  <2>2. Paired(session, h2, games, tickets, services, C, a, b)
    BY <2>1, TakesTwo
  <2> QED BY <1>13, <1>14, <1>b, <2>2 DEF Paired
<1>16. Assured(h2, games, tickets, services, C \cup Range(q), zip)
         /\ Later(C \cup Range(q), "hos_disable")
  <2>1. Whole(h2, games, tickets, services, a, zip)
    BY <1>7, <1>14 DEF Whole
  <2> QED BY <1>3, <1>15, <2>1 DEF Assured, Later
<1>17. IsSequence(ncas) /\ \A i \in DOMAIN ncas : IsArchive(ncas[i])
  BY <1>3, <1>b, FirmwareIs
<1>18. IsSequence(p) /\ DOMAIN p = DOMAIN ncas
         /\ \A i \in DOMAIN p : p[i] = CallWith("content_archive_create", None, zip, ncas[i])
  BY <1>17, <1>b, EachFacts
<1>19. ASSUME NEW i \in DOMAIN p
       PROVE  /\ Fits(session, h2, games, tickets, services, C \cup Range(q), p[i])
              /\ Trust(h2, games, tickets, services, p[i]) = {}
              /\ p[i].op = "content_archive_create" /\ Level(p[i].op) = 11
  <2>1. PICK e, c : e = ncas[i] /\ c = p[i]
    OBVIOUS
  <2>2. IsArchive(e) /\ c = CallWith("content_archive_create", None, zip, e)
    BY <1>17, <1>18, <2>1
  <2> QED BY <1>7, <1>16, <2>1, <2>2, FitsOpenFirmware
<1>20. Takes(session, h2, games, tickets, services, C \cup Range(q), p)
         /\ Entrusted(h2, games, tickets, services, p) = {}
  <2>1. Level("content_archive_create") \notin Once
    BY Levels DEF Once
  <2> QED BY <1>18, <1>19, <2>1, TakesIdle
<1>21. Joined(session, h2, games, tickets, services, C, p, q)
  <2>1. \A i \in DOMAIN p : \A j \in DOMAIN q : Above(q[j].op, p[i].op)
    BY <1>13, <1>14, <1>15, <1>19 DEF Above
  <2>2. Joins(session, h2, games, tickets, services, C, p, q)
    BY <1>15, <1>20, <2>1 DEF Joins
  <2> QED BY <2>2, TakesJoin
<1>22. IsQuiet(Head(todo), p \o q) /\ Rises(Head(todo), p \o q)
  <2>0. Level(Head(todo).op) = 6
    BY <1>1, Levels
  <2>1. IsQuiet(Head(todo), p) /\ Rises(Head(todo), p)
    BY <1>1, <1>19, <2>0 DEF IsQuiet, Rises
  <2>2. IsQuiet(Head(todo), q) /\ Rises(Head(todo), q)
    BY <1>1, <1>13, <1>14, <1>15, <2>0 DEF IsQuiet, Rises
  <2>3. \A i \in DOMAIN (p \o q) : (\E j \in DOMAIN p : (p \o q)[i] = p[j])
          \/ (\E j \in DOMAIN q : (p \o q)[i] = q[j])
    BY <1>21, Zenon DEF Joined
  <2> QED BY <2>1, <2>2, <2>3, QuietJoin
<1>23. PICK r : r = p \o q
  OBVIOUS
<1>24. Takes(session, h2, games, tickets, services, C, r)
         /\ Entrusted(h2, games, tickets, services, r) = {f, zip}
  BY <1>15, <1>20, <1>21, <1>23 DEF Joined
<1>25. Passed(todo, heap, games, tickets, services, r, h2, {f, zip})
  BY <1>2, <1>10, <1>24 DEF Passed
<1>26. Then(r)
  BY <1>0, <1>5, <1>b, <1>23
<1>27. Ok'
  BY <1>n, <1>a, <1>b, <1>0, <1>1, <1>8, <1>9, <1>22, <1>23, <1>24, <1>25, <1>26, FrameAction
<1>28. x \in Live(heap)
  BY <1>1, <1>3, <1>n, <1>a, AssuredFacts DEF Ok
<1> QED BY <1>0, <1>27, <1>28, Unused

----------------------------------------------------------------------------
(* Tickets, files and icons *)

\* Two new objects
ComeTwo(h, h1, h2, a, b, n, m) ==
  Comes(h, h1, a) /\ Comes(h1, h2, b) /\ n = Len(h) + 1 /\ m = Len(h) + 2

\* What follows from it.
CameTwo(h, h2, a, b, n, m) ==
  /\ HeapOk(h2) /\ Frame(h, h2) /\ Live(h2) = Live(h) \cup {n, m} /\ h2[n] = a /\ h2[m] = b
  /\ n \notin DOMAIN h /\ m \notin DOMAIN h /\ n # m /\ DOMAIN h2 = DOMAIN h \cup {n, m}
  /\ \A i \in DOMAIN h : i \in DOMAIN h2 /\ h2[i] = h[i] /\ i < n /\ i < m

\* Two new objects.
LEMMA ComingTwo ==
  ASSUME NEW h, NEW h1, NEW h2, NEW a, NEW b, NEW n, NEW m, ComeTwo(h, h1, h2, a, b, n, m)
  PROVE  CameTwo(h, h2, a, b, n, m)
<1>0. Comes(h, h1, a) /\ Comes(h1, h2, b) /\ n = Len(h) + 1 /\ m = Len(h) + 2
  BY DEF ComeTwo
<1>1. Came(h, h1, a) /\ Came(h1, h2, b) /\ HeapOk(h)
  BY <1>0, Coming DEF Comes
<1>2. /\ HeapOk(h1) /\ Frame(h, h1) /\ DOMAIN h1 = DOMAIN h \cup {n} /\ Len(h1) = n
      /\ Len(h) \in Nat /\ n \notin DOMAIN h /\ h1[n] = a /\ (\A i \in DOMAIN h : h1[i] = h[i])
           /\ Live(h1) = Live(h) \cup {n}
  BY <1>0, <1>1 DEF Came
<1>3. n \in Nat /\ m = n + 1 /\ n # m
  BY <1>0, <1>2
<1>4. /\ HeapOk(h2) /\ Frame(h1, h2) /\ DOMAIN h2 = DOMAIN h1 \cup {m}
      /\ m \notin DOMAIN h1 /\ h2[m] = b /\ (\A i \in DOMAIN h1 : h2[i] = h1[i])
           /\ Live(h2) = Live(h1) \cup {m}
  BY <1>1, <1>2, <1>3 DEF Came
<1>5. Frame(h, h2)
  BY <1>2, <1>4, FrameOn
<1>6. \A i \in DOMAIN h : i < n /\ i < m
  BY <1>0, <1>1, <1>2, ObjectFacts
<1> QED BY <1>2, <1>3, <1>4, <1>5, <1>6 DEF CameTwo

\* Objects that come alone
LEMMA NewAlone ==
  ASSUME NEW h, HeapOk(h), NEW o, NEW kind, NEW path, o = Named(path, Object(kind, None)),
         kind \in {"tik", "host", "mem"},
         NEW h2, h2 = Append(h, o)
  PROVE  Comes(h, h2, o) /\ o.kind = kind /\ o.base = None /\ o.dir = None /\ o.path = path
<1>1. /\ o = [kind |-> o.kind, base |-> o.base, dir |-> o.dir, parts |-> <<>>,
              pfs_list |-> <<>>, romfs_list |-> <<>>, path |-> o.path, live |-> TRUE]
      /\ o.kind = kind /\ o.base = None /\ o.dir = None /\ o.path = path
  BY Made
<1> QED BY <1>1 DEF Comes, IsNew

\* An offset file over another file
LEMMA NewOffset ==
  ASSUME NEW h, HeapOk(h), NEW o, NEW b \in DOMAIN h, o = Offset(b), h[b].kind # "loader", NEW h2,
         h2 = Append(h, o)
  PROVE  Comes(h, h2, o) /\ o.kind = "offset" /\ o.base = b /\ o.dir = None
<1>1. /\ o = [kind |-> o.kind, base |-> o.base, dir |-> o.dir, parts |-> <<>>,
              pfs_list |-> <<>>, romfs_list |-> <<>>, path |-> o.path, live |-> TRUE]
      /\ o.kind = "offset" /\ o.base = b /\ o.dir = None
  BY Made DEF Offset
<1>2. b # None
  BY ObjectFacts DEF None
<1> QED BY <1>1, <1>2 DEF Comes, IsNew

\* A chain of files that are assured
LEMMA ChainOpen ==
  ASSUME Ok, todo # <<>>, NEW n, n = Len(todo), NEW i, heap[i].kind # "loader",
         Assured(heap, games, tickets, services, After(todo, n), i)
  PROVE  Chain(i) \subseteq Live(heap)
<1>1. PICK d \in Turns(todo) : Whole(heap, games, tickets, services, At(todo, d), i)
  BY AssuredFacts DEF Ok
<1>2. HeapOk(heap) /\ TrustOk(todo, heap, games, tickets, services)
  BY DEF Ok, StateOk
<1> QED BY <1>1, <1>2, ChainLive

\* A directory that can be read, and what it lies over
LEMMA DirectoryOpen ==
  ASSUME Ok, todo # <<>>, NEW n, n = Len(todo), NEW dir \in DOMAIN heap,
         heap[dir].kind \in {"pfs", "romfs", "zip"},
         Assured(heap, games, tickets, services, After(todo, n), dir), heap[dir].base # None
  PROVE  /\ heap[dir].base \in DOMAIN heap /\ heap[heap[dir].base].kind # "loader"
         /\ Assured(heap, games, tickets, services, After(todo, n), heap[dir].base)
         /\ Chain(heap[dir].base) \subseteq Live(heap) /\ Chain(dir) \subseteq Live(heap)
         /\ dir \in Live(heap)
<1>1. HeapOk(heap)
  BY DEF Ok, StateOk
<1>2. heap[dir].base \in DOMAIN heap /\ heap[heap[dir].base].kind # "loader"
  BY <1>1, ObjectFacts DEF HeapOk, IsLayered
<1>3. heap[dir].base \in Over(heap, dir)
  BY DEF Over
<1>4. Assured(heap, games, tickets, services, After(todo, n), heap[dir].base) /\ dir \in Live(heap)
  BY <1>3, AssuredFacts DEF Ok
<1>5. Chain(heap[dir].base) \subseteq Live(heap)
  BY <1>2, <1>4, ChainOpen
<1>6. Chain(dir) \subseteq Live(heap)
  BY ChainOpen
<1> QED BY <1>2, <1>4, <1>5, <1>6

\* A ticket to be added
LEMMA FitsAddTicket ==
  ASSUME NEW ses, NEW h, NEW g, NEW k, NEW s, NEW C, NEW x, IsAlone(h, x, "tik"),
         \A i \in Range(k) : i < x,
         Later(C, "nx_sys_destroy"), NEW c, c = Call("keys_db_add_ticket", x)
  PROVE  Fits(ses, h, g, k, s, C, c) /\ Trust(h, g, k, s, c) = {x}
         /\ c.op = "keys_db_add_ticket" /\ Level(c.op) = 10
<1>1. c.op = "keys_db_add_ticket" /\ c.x = x
  BY CallParts
<1>2. Trust(h, g, k, s, c) = {x}
  BY <1>1 DEF Trust
<1>3. IsCall(ses, h, g, c) /\ IsReady(h, k, c)
  BY <1>1 DEF IsCall, IsReady, Ops, OpsOfPackages, IsAlone
<1>4. IsPlaced(h, g, k, s, c, C)
  BY <1>1 DEF IsPlaced, OpsOfPackages
<1>5. Over(h, x) = {}
  BY DEF IsAlone, Over
<1> QED BY <1>1, <1>2, <1>3, <1>4, <1>5, Levels DEF Fits, Whole

\* LoadTik keeps the invariant, and uses and closes only what is live.
LEMMA LoadTikStep ==
  ASSUME Ok, LoadTik
  PROVE  Ok' /\ fault' = fault
<1>n. PICK n : n = Len(todo)
  OBVIOUS
<1>a. PICK dir, e, x, y, C, h2 : /\ dir = Head(todo).dir /\ e = Head(todo).e
                                 /\ x = Len(heap) + 1 /\ y = Len(heap) + 2
                                 /\ C = After(todo, n) /\ h2 = heap'
  OBVIOUS
<1>b. PICK a, b, o, p, owner : /\ a = CallOn("close_file", dir, x)
                               /\ b = Call("keys_db_add_ticket", y)
                               /\ o = Offset(heap[dir].base) /\ p = Ticket(e)
                               /\ owner = Head(todo).owner
  OBVIOUS
<1>1. /\ HeapOk(heap) /\ GamesOk(heap, games) /\ Head(todo).op = "load_tik" /\ todo # <<>>
      /\ IsCall(session, heap, games, Head(todo))
      /\ IsPlaced(heap, games, tickets, services, Head(todo), After(todo, n))
      /\ Calling("load_tik") /\ SameLists
      /\ Trust(heap, games, tickets, services, Head(todo)) \subseteq Live(heap)
      /\ ListsOk(heap, games, tickets, services)
  <2>1. Calling("load_tik") /\ SameLists
    BY DEF LoadTik
  <2> QED BY <1>n, <2>1, OkFacts
<1>2. Trust(heap, games, tickets, services, Head(todo)) = {}
  BY <1>1 DEF Trust
<1>3. CASE e.kind # "tik"
  <2>0. UNCHANGED <<heap, fault>> /\ Then(<<>>)
    BY <1>3, <1>a DEF LoadTik, Is, Arg
  <2>1. /\ Takes(session, heap, games, tickets, services, After(todo, n), <<>>)
        /\ Entrusted(heap, games, tickets, services, <<>>) = {}
    BY TakesNone, Zenon
  <2>2. IsQuiet(Head(todo), <<>>) /\ Rises(Head(todo), <<>>)
    BY <1>1, QuietNone
  <2>4. Ok'
    BY <1>n, <2>0, <1>1, <1>2, <2>1, <2>2, SameAction
  <2> QED BY <2>0, <2>4
<1>4. CASE e.kind = "tik"
  <2>x. Len(heap) \in Nat
    BY <1>1, SequenceIs DEF HeapOk
  <2>0. /\ heap' = heap \o <<o, p>> /\ Then(<<a, b>>) /\ Use({dir} \cup Chain(heap[dir].base))
    <3>1. New + 1 = y
      BY <1>a, <2>x DEF New
    <3> QED BY <1>4, <1>a, <1>b, <3>1 DEF LoadTik, Is, Arg, New
  <2>1. owner \in Loaders(games) /\ dir = heap[owner].dir /\ Later(C, "nx_sys_destroy")
    BY <1>1, <1>a, <1>b DEF IsCall, IsPlaced, OpsOfPackages
  <2>2. /\ owner # None /\ owner \in DOMAIN heap /\ heap[owner].kind = "loader"
        /\ dir \in DOMAIN heap /\ heap[dir].kind = "pfs"
        /\ heap[dir].base \in DOMAIN heap
    BY <1>1, <2>1, LoaderFacts
  <2>3. dir \in Package(heap, owner) /\ dir # None /\ heap[dir].base # None
    BY <1>1, <2>1, <2>2, ObjectFacts DEF Package, Owned, None
  <2>4. Assured(heap, games, tickets, services, C, dir)
    BY <2>1, <2>3, PackageAssured
  <2>5. /\ heap[heap[dir].base].kind # "loader" /\ dir \in Live(heap)
        /\ Assured(heap, games, tickets, services, C, heap[dir].base)
        /\ Chain(heap[dir].base) \subseteq Live(heap)
    BY <1>1, <1>n, <1>a, <2>2, <2>3, <2>4, DirectoryOpen
  <2>6. PICK h1 : h1 = Append(heap, o)
    OBVIOUS
  <2>7. h2 = Append(h1, p)
    BY <1>1, <1>a, <2>0, <2>6, BehindTwo DEF HeapOk
  <2>8. Comes(heap, h1, o) /\ o.kind = "offset" /\ o.base = heap[dir].base /\ o.dir = None
    <3>1. PICK bs : bs = heap[dir].base
      OBVIOUS
    <3>2. HeapOk(heap) /\ bs \in DOMAIN heap /\ o = Offset(bs) /\ heap[bs].kind # "loader"
            /\ h1 = Append(heap, o)
      BY <1>1, <1>b, <2>2, <2>5, <2>6, <3>1
    <3>3. Comes(heap, h1, o) /\ o.kind = "offset" /\ o.base = bs /\ o.dir = None
      BY ONLY <3>2, NewOffset
    <3> QED BY <3>1, <3>3
  <2>9. Comes(h1, h2, p) /\ p.kind = "tik" /\ p.base = None /\ p.dir = None
    <3>1. HeapOk(h1)
      BY <2>8, Coming DEF Came
    <3>2. PICK kd, pt : kd = "tik" /\ pt = e.ticket
      OBVIOUS
    <3>3. p = Named(pt, Object(kd, None)) /\ kd \in {"tik", "host", "mem"}
      BY <1>b, <3>2 DEF Ticket
    <3>4. Comes(h1, h2, p) /\ p.kind = kd /\ p.base = None /\ p.dir = None
      BY ONLY <2>7, <3>1, <3>3, NewAlone
    <3> QED BY <3>2, <3>4
  <2>10. CameTwo(heap, h2, o, p, x, y)
    BY <1>a, <2>8, <2>9, ComingTwo DEF ComeTwo
  <2>11. /\ HeapOk(h2) /\ Frame(heap, h2) /\ Live(h2) = Live(heap) \cup {x, y} /\ h2[x] = o
         /\ h2[y] = p
         /\ x \notin DOMAIN heap /\ y \notin DOMAIN heap /\ x # y /\ x \in DOMAIN h2
         /\ y \in DOMAIN h2
         /\ \A i \in DOMAIN heap : i \in DOMAIN h2 /\ h2[i] = heap[i] /\ i < x /\ i < y
    BY <2>10 DEF CameTwo
  <2>12. Assured(h2, games, tickets, services, C, dir)
           /\ Assured(h2, games, tickets, services, C, heap[dir].base)
    BY <1>1, <1>n, <1>a, <2>4, <2>5, <2>11, FrameAssured DEF Ok
  <2>13. /\ Fits(session, h2, games, tickets, services, C, b)
         /\ Trust(h2, games, tickets, services, b) = {y}
         /\ b.op = "keys_db_add_ticket" /\ Level(b.op) = 10
    <3>1. IsAlone(h2, y, "tik")
      BY <2>9, <2>11 DEF IsAlone
    <3>2. \A i \in Range(tickets) : i < y
      BY <1>1, <2>11 DEF ListsOk, ListOk, IsAlone
    <3> QED BY <1>b, <2>1, <3>1, <3>2, FitsAddTicket
  <2>14. /\ Fits(session, h2, games, tickets, services, C \cup {b}, a)
         /\ Trust(h2, games, tickets, services, a) = {x}
         /\ a.op = "close_file" /\ Level(a.op) = 0
    <3>1. IsFileOf(h2, x, dir)
      BY <2>2, <2>8, <2>11 DEF IsFileOf, FileKinds, DirKinds
    <3>2. Over(h2, x) = {heap[dir].base}
      BY <2>3, <2>8, <2>11 DEF Over
    <3>3. ClosesFile(h2, games, tickets, services, C \cup {b}, dir, x)
      BY <2>2, <2>11, <2>12, <3>1, <3>2 DEF ClosesFile, Assured
    <3> QED BY <1>b, <3>3, FitsCloseFile
  <2>15. Pair(session, h2, games, tickets, services, C, a, b)
    BY <2>11, <2>13, <2>14 DEF Pair, Above
  <2>16. Paired(session, h2, games, tickets, services, C, a, b)
    BY <2>15, TakesTwo
  <2>17. IsQuiet(Head(todo), <<a, b>>) /\ Rises(Head(todo), <<a, b>>)
    <3>1. Level(Head(todo).op) = 9
      BY <1>1, Levels DEF OpsOfPackages
    <3> QED BY <1>1, <2>13, <2>14, <3>1, QuietTwo
  <2>18. PICK q : q = <<a, b>>
    OBVIOUS
  <2>19. Takes(session, h2, games, tickets, services, C, q)
           /\ Entrusted(h2, games, tickets, services, q) = {x, y}
    BY <2>13, <2>14, <2>16, <2>18 DEF Paired
  <2>20. Passed(todo, heap, games, tickets, services, q, h2, {x, y})
    BY <1>2, <2>11, <2>19 DEF Passed
  <2>21. Ok'
    BY <1>n, <1>a, <1>1, <2>0, <2>11, <2>17, <2>18, <2>19, <2>20, FrameAction
  <2> QED BY <2>0, <2>5, <2>21, Unused
<1> QED BY <1>3, <1>4

\* The process that quits changes nothing else.
LEMMA QuitStep ==
  ASSUME Ok, Quit
  PROVE  Ok' /\ fault' = fault
<1>1. UNCHANGED <<session, heap, todo, games, tickets, services, fault>>
  BY DEF Quit
<1> QED BY <1>1 DEF Ok

\* DestroyFile keeps the invariant, and uses and closes only what is live.
LEMMA DestroyFileStep ==
  ASSUME Ok, DestroyFile
  PROVE  Ok' /\ fault' = fault
<1>n. PICK n : n = Len(todo)
  OBVIOUS
<1>a. PICK x, p, h1, h2, C : /\ x = Head(todo).dir /\ p = Head(todo).x
                             /\ h1 = [heap EXCEPT ![p.fs].live = FALSE] /\ h2 = heap'
                             /\ C = After(todo, n)
  OBVIOUS
<1>1. /\ HeapOk(heap) /\ Head(todo).op = "destroy_file" /\ todo # <<>>
      /\ IsCall(session, heap, games, Head(todo))
      /\ IsPlaced(heap, games, tickets, services, Head(todo), After(todo, n))
      /\ Trust(heap, games, tickets, services, Head(todo)) \subseteq Live(heap)
  <2>1. Calling("destroy_file")
    BY DEF DestroyFile
  <2> QED BY <1>n, <2>1, OkFacts
<1>2. CASE Quit
  BY <1>2, QuitStep
<1>3. ASSUME ~Quit PROVE Ok' /\ fault' = fault
  <2>0. /\ heap' = [heap EXCEPT ![p.fs].live = FALSE, ![p.file].live = FALSE] /\ Then(<<>>)
        /\ SameLists
        /\ Use({x, p.fs, p.file} \cup IF p.ctr THEN {} ELSE {heap[x].base})
    BY <1>3, <1>a DEF DestroyFile, Arg
  <2>1. x \in DOMAIN heap /\ heap[x].kind = "nca" /\ p \in Items(heap, x)
          /\ Assured(heap, games, tickets, services, C, x)
    BY <1>1, <1>a DEF IsCall, IsPlaced
  <2>2. /\ p.file \in DOMAIN heap /\ p.fs \in DOMAIN heap /\ p.fs = p.file + 1
        /\ heap[p.fs].kind \in {"pfs", "romfs"} /\ heap[p.fs].dir = None
        /\ heap[p.file].kind \in {"offset", "aes"} /\ heap[p.file].dir = None
    BY <1>1, <2>1, SectionFacts
  <2>3. Trust(heap, games, tickets, services, Head(todo)) = {p.fs, p.file}
    BY <1>1, <1>a DEF Trust
  <2>4. ASSUME NEW i \in DOMAIN heap, heap[i].kind \in {"hostdir", "romfs"}
        PROVE  p.fs \notin Range(heap[i].parts) /\ p.file \notin Range(heap[i].parts)
    <3>1. HoldsFiles(heap, i) /\ i # None
      BY <1>1, <2>4, ObjectFacts DEF HeapOk, None
    <3> QED BY <2>2, <2>4, <3>1 DEF HoldsFiles
  <2>5. Closed(heap, h1, p.fs)
    <3>1. Closes(heap, h1, p.fs)
      BY <1>1, <1>a, <2>2, <2>4 DEF Closes
    <3> QED BY <3>1, Closing
  <2>6. /\ HeapOk(h1) /\ Steady(heap, h1) /\ DOMAIN h1 = DOMAIN heap
        /\ (\A i \in DOMAIN heap : h1[i].parts = heap[i].parts) /\ Live(h1) = Live(heap) \ {p.fs}
    BY <2>5 DEF Closed
  <2>7. \A i \in DOMAIN heap : h1[i].kind = heap[i].kind
    BY <2>6 DEF Steady, Stable
  <2>8. h2 = [h1 EXCEPT ![p.file].live = FALSE]
    BY <1>a, <2>0
  <2>9. Closed(h1, h2, p.file)
    <3>1. Closes(h1, h2, p.file)
      BY <2>2, <2>4, <2>6, <2>7, <2>8 DEF Closes
    <3> QED BY <3>1, Closing
  <2>10. /\ HeapOk(h2) /\ Steady(h1, h2) /\ DOMAIN h2 = DOMAIN heap
         /\ (\A i \in DOMAIN heap : h2[i].parts = heap[i].parts)
              /\ Live(h2) = Live(heap) \ {p.fs, p.file}
    BY <2>6, <2>9 DEF Closed
  <2>11. Frame(heap, h2)
    <3>1. Steady(heap, h2)
      BY <2>6, <2>10, Zenon DEF Steady, Stable
    <3> QED BY <2>10, <3>1 DEF Frame
  <2>12. /\ Takes(session, h2, games, tickets, services, After(todo, n), <<>>)
         /\ Entrusted(h2, games, tickets, services, <<>>) = {}
    BY TakesNone, Zenon
  <2>13. IsQuiet(Head(todo), <<>>) /\ Rises(Head(todo), <<>>)
    BY <1>1, QuietNone
  <2>14. Passed(todo, heap, games, tickets, services, <<>>, h2, {})
    BY <2>3, <2>10, <2>12 DEF Passed
  <2>15. Ok'
    BY <1>n, <1>a, <1>1, <2>0, <2>10, <2>11, <2>12, <2>13, <2>14, FrameAction
  <2>16. x \in Live(heap) /\ heap[x].base \in Live(heap)
    <3>1. heap[x].base \in Over(heap, x)
      BY <1>1, <2>1, ArchiveFileIs
    <3>2. Assured(heap, games, tickets, services, C, heap[x].base)
      BY <1>1, <1>n, <1>a, <2>1, <3>1, AssuredFacts DEF Ok
    <3> QED BY <1>1, <1>n, <1>a, <2>1, <3>2, AssuredFacts DEF Ok
  <2> QED BY <1>1, <2>0, <2>3, <2>15, <2>16, Unused
<1> QED BY <1>2, <1>3

\* What an archive that is about to be served or kept owns is assured.
LEMMA ArchiveAssured ==
  ASSUME NEW h, NEW g, NEW k, NEW s, NEW C, NEW b \in C,
         b.op \in {"list_push", "content_archive_destroy"}, NEW i \in Archive(h, b.x)
  PROVE  Assured(h, g, k, s, C, i)
<1>1. i \in Trust(h, g, k, s, b) /\ b.op # "free"
  BY DEF Trust
<1> QED BY <1>1 DEF Assured, Whole

\* ServiceIdle keeps the invariant, and uses and closes only what is live.
LEMMA ServiceIdleStep ==
  ASSUME Ok, Service, ~Head(todo).e.svt
  PROVE  Ok' /\ fault' = fault
<1>n. PICK n : n = Len(todo)
  OBVIOUS
<1>a. PICK x, C : x = Head(todo).nca /\ C = After(todo, n)
  OBVIOUS
<1>0. /\ Calling("service") /\ UNCHANGED heap /\ SameLists /\ Then(<<>>) /\ Use({x})
  BY <1>a DEF Service, Arg, SameLists
<1>1. /\ HeapOk(heap) /\ Head(todo).op = "service" /\ todo # <<>>
      /\ IsCall(session, heap, games, Head(todo))
      /\ IsPlaced(heap, games, tickets, services, Head(todo), After(todo, n))
      /\ Trust(heap, games, tickets, services, Head(todo)) \subseteq Live(heap)
  BY <1>0, <1>n, OkFacts
<1>2. Trust(heap, games, tickets, services, Head(todo)) = {}
  BY <1>1 DEF Trust
<1>3. PICK b \in C : b.op \in {"list_push", "content_archive_destroy"} /\ b.x = x
  BY <1>1, <1>a DEF IsPlaced
<1>4. Assured(heap, games, tickets, services, C, x)
  <2>1. x \in Archive(heap, b.x)
    BY <1>3 DEF Archive
  <2> QED BY <1>3, <2>1, ArchiveAssured
<1>5. x \in Live(heap)
  BY <1>1, <1>4, <1>n, <1>a, AssuredFacts DEF Ok
<1>6. /\ Takes(session, heap, games, tickets, services, After(todo, n), <<>>)
      /\ Entrusted(heap, games, tickets, services, <<>>) = {}
  BY TakesNone, Zenon
<1>7. IsQuiet(Head(todo), <<>>) /\ Rises(Head(todo), <<>>)
  BY <1>1, QuietNone
<1>8. Ok'
  BY <1>n, <1>0, <1>1, <1>2, <1>6, <1>7, SameAction
<1> QED BY <1>0, <1>5, <1>8, Unused

\* A set of numbers has a least one.
LEMMA Least ==
  ASSUME NEW S, S \subseteq Nat, S # {}
  PROVE  Min(S) \in S
  BY LeastNatural DEF Min

\* GetLogo keeps the invariant, and uses and closes only what is live.
LEMMA GetLogoStep ==
  ASSUME Ok, GetLogo
  PROVE  Ok' /\ fault' = fault
<1>n. PICK n : n = Len(todo)
  OBVIOUS
<1>a. PICK l, ncas, C, h2 : l = Head(todo).x /\ ncas = heap[l].parts /\ C = After(todo, n)
        /\ h2 = heap'
  OBVIOUS
<1>b. PICK having : having = { a \in DOMAIN ncas : Icons(ncas[a]) # {} }
  OBVIOUS
<1>1. /\ HeapOk(heap) /\ GamesOk(heap, games) /\ Head(todo).op = "loader_get_logo" /\ todo # <<>>
      /\ IsCall(session, heap, games, Head(todo))
      /\ IsPlaced(heap, games, tickets, services, Head(todo), After(todo, n))
      /\ Trust(heap, games, tickets, services, Head(todo)) \subseteq Live(heap)
  <2>1. Calling("loader_get_logo")
    BY DEF GetLogo
  <2> QED BY <1>n, <2>1, OkFacts
<1>2. Trust(heap, games, tickets, services, Head(todo)) = {}
  BY <1>1 DEF Trust
<1>3. CASE having = {}
  <2>1. Quit
    BY <1>3, <1>a, <1>b DEF GetLogo, Arg
  <2> QED BY <2>1, QuitStep
<1>4. CASE having # {}
  <2>a. PICK nca : nca = ncas[Min(having)]
    OBVIOUS
  <2>b. PICK fs : fs = heap[nca].romfs_list[Min(Icons(nca))].fs
    OBVIOUS
  <2>c. PICK bs, x, y, o, p : bs = heap[fs].base /\ x = Len(heap) + 1 /\ y = Len(heap) + 2
          /\ o = Offset(bs) /\ p = Host("icon")
    OBVIOUS
  <2>d. PICK a, b : a = CallOn("close_file", fs, x) /\ b = Call("free", y)
    OBVIOUS
  <2>x. Len(heap) \in Nat
    BY <1>1, SequenceIs DEF HeapOk
  <2>0. /\ heap' = heap \o <<o, p>> /\ Then(<<a, b>>) /\ SameLists
        /\ Use({l} \cup Range(ncas) \cup Chain(fs))
    <3>1. New + 1 = y
      BY <2>c, <2>x DEF New
    <3> QED BY <1>4, <1>a, <1>b, <2>a, <2>b, <2>c, <2>d, <3>1 DEF GetLogo, Arg, New
  <2>1. l \in Loaders(games) /\ Later(C, "nx_sys_destroy")
    BY <1>1, <1>a DEF IsCall, IsPlaced, OpsOfPackages
  <2>2. /\ l \in DOMAIN heap /\ heap[l].kind = "loader" /\ IsSequence(ncas)
             /\ \A i \in Range(ncas) : i \in DOMAIN heap /\ heap[i].kind = "nca"
    BY <1>1, <1>a, <2>1, LoaderFacts, ObjectFacts
  <2>3. nca \in Range(ncas) /\ Icons(nca) # {}
    <3>1. having \subseteq DOMAIN ncas /\ DOMAIN ncas \subseteq Nat
      BY <1>b, <2>2, SequenceIs
    <3>2. Min(having) \in having
      BY <1>4, <3>1, Least
    <3> QED BY <1>b, <2>2, <2>a, <3>2, SequenceIs
  <2>4. \E r \in Items(heap, nca) : fs = r.fs
    <3>1. IsSequence(heap[nca].romfs_list)
      BY <1>1, <2>2, <2>3, ObjectFacts
    <3>2. Icons(nca) \subseteq DOMAIN heap[nca].romfs_list
            /\ DOMAIN heap[nca].romfs_list \subseteq Nat
      BY <3>1, SequenceIs DEF Icons
    <3>3. Min(Icons(nca)) \in Icons(nca)
      BY <2>3, <3>2, Least
    <3> QED BY <2>b, <3>1, <3>2, <3>3, SequenceIs DEF Items
  <2>5. nca \in DOMAIN heap /\ heap[nca].kind = "nca" /\ fs \in SectionObjects(heap, nca)
    BY <2>2, <2>3, <2>4 DEF SectionObjects
  <2>6. fs \in DOMAIN heap /\ heap[fs].kind \in {"pfs", "romfs"} /\ bs # None
    <3>1. PICK r \in Items(heap, nca) : fs = r.fs
      BY <2>4
    <3>2. r.fs \in DOMAIN heap /\ heap[r.fs].kind \in {"pfs", "romfs"}
            /\ heap[r.fs].base = r.file /\ r.file \in DOMAIN heap
      BY <1>1, <2>5, <3>1, SectionFacts
    <3> QED BY <1>1, <2>c, <3>1, <3>2, ObjectFacts DEF None
  <2>7. \A i \in {l, fs} \cup Range(ncas) : i \in Package(heap, l)
    <3>1. fs \in Owned(heap, nca)
      BY <2>5 DEF Owned
    <3> QED BY <1>a, <2>2, <2>3, <3>1 DEF Package, Owned
  <2>8. \A i \in {l, fs} \cup Range(ncas) : Assured(heap, games, tickets, services, C, i)
    BY <2>1, <2>7, PackageAssured
  <2>9. \A i \in {l, fs} \cup Range(ncas) : i \in Live(heap)
    BY <1>1, <1>n, <1>a, <2>8, AssuredFacts DEF Ok
  <2>10. /\ bs \in DOMAIN heap /\ heap[bs].kind # "loader"
         /\ Assured(heap, games, tickets, services, C, bs)
         /\ Chain(fs) \subseteq Live(heap)
    BY <1>1, <1>n, <1>a, <2>6, <2>c, <2>8, DirectoryOpen
  <2>11. PICK h1 : h1 = Append(heap, o)
    OBVIOUS
  <2>12. h2 = Append(h1, p)
    BY <1>1, <1>a, <2>0, <2>11, BehindTwo DEF HeapOk
  <2>13. Comes(heap, h1, o) /\ o.kind = "offset" /\ o.base = bs /\ o.dir = None
    BY ONLY <1>1, <2>10, <2>c, <2>11, NewOffset
  <2>14. Comes(h1, h2, p) /\ p.kind = "host" /\ p.base = None /\ p.dir = None
    <3>1. HeapOk(h1)
      BY <2>13, Coming DEF Came
    <3>2. PICK kd, pt : kd = "host" /\ pt = "icon"
      OBVIOUS
    <3>3. p = Named(pt, Object(kd, None)) /\ kd \in {"tik", "host", "mem"}
      BY <2>c, <3>2 DEF Host
    <3>4. Comes(h1, h2, p) /\ p.kind = kd /\ p.base = None /\ p.dir = None
      BY ONLY <2>12, <3>1, <3>3, NewAlone
    <3> QED BY <3>2, <3>4
  <2>15. CameTwo(heap, h2, o, p, x, y)
    BY <2>c, <2>13, <2>14, ComingTwo DEF ComeTwo
  <2>16. /\ HeapOk(h2) /\ Frame(heap, h2) /\ Live(h2) = Live(heap) \cup {x, y} /\ h2[x] = o
         /\ h2[y] = p
         /\ x \notin DOMAIN heap /\ y \notin DOMAIN heap /\ x # y /\ x \in DOMAIN h2
         /\ y \in DOMAIN h2
         /\ \A i \in DOMAIN heap : i \in DOMAIN h2 /\ h2[i] = heap[i] /\ i < x /\ i < y
    BY <2>15 DEF CameTwo
  <2>17. Assured(h2, games, tickets, services, C, fs)
           /\ Assured(h2, games, tickets, services, C, bs)
    BY <1>1, <1>n, <1>a, <2>8, <2>10, <2>16, FrameAssured DEF Ok
  <2>18. /\ Fits(session, h2, games, tickets, services, C, b)
         /\ Trust(h2, games, tickets, services, b) = {y}
         /\ b.op = "free" /\ Level(b.op) = 0
    <3>1. Frees(h2, games, tickets, services, C, y)
      BY <2>14, <2>16 DEF Frees, FileKinds, Over
    <3> QED BY <2>d, <3>1, FitsFree
  <2>19. /\ Fits(session, h2, games, tickets, services, C \cup {b}, a)
         /\ Trust(h2, games, tickets, services, a) = {x}
         /\ a.op = "close_file" /\ Level(a.op) = 0
    <3>1. IsFileOf(h2, x, fs)
      BY <2>6, <2>c, <2>13, <2>16 DEF IsFileOf, FileKinds, DirKinds
    <3>2. Over(h2, x) = {bs}
      BY <2>6, <2>13, <2>16 DEF Over
    <3>3. ClosesFile(h2, games, tickets, services, C \cup {b}, fs, x)
      BY <2>6, <2>16, <2>17, <3>1, <3>2 DEF ClosesFile, Assured
    <3> QED BY <2>d, <3>3, FitsCloseFile
  <2>20. Pair(session, h2, games, tickets, services, C, a, b)
    BY <2>16, <2>18, <2>19 DEF Pair, Above
  <2>21. Paired(session, h2, games, tickets, services, C, a, b)
    BY <2>20, TakesTwo
  <2>22. IsQuiet(Head(todo), <<a, b>>) /\ Rises(Head(todo), <<a, b>>)
    BY <1>1, <2>18, <2>19, QuietTwo
  <2>23. PICK q : q = <<a, b>>
    OBVIOUS
  <2>24. Takes(session, h2, games, tickets, services, C, q)
           /\ Entrusted(h2, games, tickets, services, q) = {x, y}
    BY <2>18, <2>19, <2>21, <2>23 DEF Paired
  <2>25. Passed(todo, heap, games, tickets, services, q, h2, {x, y})
    BY <1>2, <2>16, <2>24 DEF Passed
  <2>26. Ok'
    BY <1>n, <1>a, <1>1, <2>0, <2>16, <2>22, <2>23, <2>24, <2>25, FrameAction
  <2> QED BY <2>0, <2>9, <2>10, <2>26, Unused
<1> QED BY <1>3, <1>4

\* Of the calls that keep a strict order there are no two alike.
LEMMA OnlyOne ==
  ASSUME NEW t, InOrder(t), NEW d \in Turns(t), NEW e \in Turns(t), At(t, d).op = At(t, e).op,
         Level(At(t, d).op) \in Once, IsSequence(t)
  PROVE  d = e
<1>1. Turns(t) \subseteq Nat
  BY SequenceIs DEF Turns
<1>2. ASSUME NEW a \in Turns(t), NEW b \in Turns(t), a < b, At(t, a).op = At(t, b).op,
             Level(At(t, a).op) \in Once
      PROVE  FALSE
  <2>1. Above(At(t, a).op, At(t, b).op)
    <3>1. a \in 1 .. b - 1
      BY <1>1, <1>2 DEF Turns
    <3> QED BY <1>2, <3>1 DEF InOrder
  <2> QED BY <1>2, <2>1 DEF Above, Once
<1>3. d < e \/ e < d \/ d = e
  BY <1>1
<1> QED BY <1>2, <1>3

\* The turn of a call that is still to be made, of which there is one
IsTurn(t, n, z, op) ==
  /\ z \in 1 .. n - 1 /\ At(t, z).op = op /\ \A d \in 1 .. n - 1 : At(t, d).op = op => d = z

\* A call of which there is only one has one turn.
LEMMA TheTurn ==
  ASSUME NEW ses, NEW t, NEW h, NEW g, NEW k, NEW s, StateOk(ses, t, h, g, k, s), t # <<>>,
         NEW n, n = Len(t), NEW op, Level(op) \in Once, Later(After(t, n), op)
  PROVE  \E z : IsTurn(t, n, z, op)
<1>1. PICK z \in 1 .. n - 1 : At(t, z).op = op
  BY DEF Later, After
<1>2. InOrder(t) /\ IsSequence(t)
  BY DEF StateOk, CallsOk
<1>3. \A d \in 1 .. n - 1 : d \in Turns(t)
  BY HeadFacts
<1>4. \A d \in 1 .. n - 1 : At(t, d).op = op => d = z
  BY <1>1, <1>2, <1>3, OnlyOne
<1> QED BY <1>1, <1>4 DEF IsTurn

\* AddTicket keeps the invariant, and uses and closes only what is live.
LEMMA AddTicketStep ==
  ASSUME Ok, AddTicket
  PROVE  Ok' /\ fault' = fault
<1>n. PICK n : n = Len(todo)
  OBVIOUS
<1>a. PICK x, C, k2 : x = Head(todo).x /\ C = After(todo, n) /\ k2 = tickets'
  OBVIOUS
<1>0. /\ Calling("keys_db_add_ticket") /\ UNCHANGED heap /\ Same /\ games' = games
      /\ services' = services
      /\ Use({x} \cup Range(tickets)) /\ Then(<<>>)
      /\ k2 = IF \E i \in Range(tickets) : heap[i].path = heap[x].path THEN tickets ELSE Append(tickets, x)
  BY <1>a DEF AddTicket, Arg
<1>1. /\ HeapOk(heap) /\ Head(todo).op = "keys_db_add_ticket" /\ todo # <<>>
      /\ ListsOk(heap, games, tickets, services)
      /\ GamesOk(heap, games) /\ IsCall(session, heap, games, Head(todo))
      /\ IsReady(heap, tickets, Head(todo))
      /\ IsPlaced(heap, games, tickets, services, Head(todo), After(todo, n))
      /\ Trust(heap, games, tickets, services, Head(todo)) \subseteq Live(heap)
      /\ TrustOk(todo, heap, games, tickets, services)
  BY <1>0, <1>n, OkFacts
<1>2. Trust(heap, games, tickets, services, Head(todo)) = {x}
  BY <1>1, <1>a DEF Trust
<1>3. /\ n \in Nat \ {0} /\ \A b \in C : Above(b.op, Head(todo).op)
           /\ IsCall(session, heap, games, b) /\ IsReady(heap, tickets, b)
      /\ \A d \in 1 .. n - 1 : At(todo, d) \in C /\ d \in Turns(todo)
  BY <1>1, <1>n, <1>a, HeadFacts DEF Ok
<1>4. IsAlone(heap, x, "tik") /\ (\A i \in Range(tickets) : i < x) /\ Later(C, "nx_sys_destroy")
  BY <1>1, <1>a DEF IsCall, IsReady, IsPlaced
<1>5. PICK z : IsTurn(todo, n, z, "nx_sys_destroy")
  <2>1. Level("nx_sys_destroy") \in Once
    BY Levels DEF Once
  <2> QED BY <1>1, <1>4, <1>n, <1>a, <2>1, TheTurn DEF Ok
<1>6. ListOk(heap, tickets, "tik") /\ ListOk(heap, services, "service")
  BY <1>1 DEF ListsOk
<1>7. IsSequence(tickets) /\ IsInjective(tickets)
        /\ \A i \in Range(tickets) : IsAlone(heap, i, "tik")
  BY <1>6 DEF ListOk
<1>8. \A i \in Range(tickets) : i \in Live(heap)
  <2>1. z \in Turns(todo) /\ At(todo, z).op = "nx_sys_destroy"
    BY <1>3, <1>5 DEF IsTurn
  <2>2. Range(tickets) \subseteq Trust(heap, games, tickets, services, At(todo, z))
    BY <2>1 DEF Trust
  <2> QED BY <1>1, <2>1, <2>2 DEF TrustOk
<1>9. fault' = fault
  BY <1>0, <1>1, <1>2, <1>8, Unused
<1>10. Frame(heap, heap)
  BY <1>1 DEF Frame, Steady, Stable, HeapOk
<1>11. Takes(session, heap, games, k2, services, C, <<>>)
         /\ Entrusted(heap, games, k2, services, <<>>) = {}
  BY TakesNone, Zenon
<1>12. IsQuiet(Head(todo), <<>>) /\ Rises(Head(todo), <<>>)
  BY <1>1, QuietNone
<1>13. CASE \E i \in Range(tickets) : heap[i].path = heap[x].path
  <2>1. k2 = tickets
    BY <1>0, <1>13
  <2>2. Dropped(heap, tickets, x)
    BY <1>4, <1>13 DEF Dropped, IsAlone
  <2>3. Passed(todo, heap, games, tickets, services, <<>>, heap, {})
    BY <1>2, <1>11, <2>1, <2>2 DEF Passed
  <2>4. SameLists
    BY <1>0, <1>a, <2>1 DEF SameLists
  <2>5. heap' = heap
    BY <1>0
  <2>6. Ok'
    BY <1>n, <1>a, <1>0, <1>1, <1>10, <1>11, <1>12, <2>1, <2>3, <2>4, <2>5, FrameAction
  <2> QED BY <1>9, <2>6
<1>14. CASE ~ \E i \in Range(tickets) : heap[i].path = heap[x].path
  <2>1. k2 = Append(tickets, x) /\ x \notin Range(tickets)
    BY <1>0, <1>14
  <2>2. IsSequence(k2) /\ IsInjective(k2) /\ Range(k2) = Range(tickets) \cup {x}
    BY <1>7, <2>1, OneMore
  <2>3. ListOk(heap, k2, "tik")
    BY <1>4, <1>7, <2>2 DEF ListOk
  <2>4. Growing(heap, heap, games, games)
    BY <1>1, <1>10, FrameGrowing
  <2>5. ASSUME NEW b \in C PROVE IsReady(heap, k2, b) /\ b.op # "keys_db_add_ticket"
    <3>1. b.op # "keys_db_add_ticket"
      BY <1>1, <1>3, Levels DEF Above, Once
    <3>2. IsCall(session, heap, games, b) /\ IsReady(heap, tickets, b)
      BY <1>3
    <3> QED BY ONLY <1>1, <1>10, <3>1, <3>2, ReadyStays
  <2>6. ASSUME NEW d \in 1 .. n - 1
        PROVE  Trust(heap, games, k2, services, At(todo, d))
                 = Trust(heap, games, tickets, services, At(todo, d)) \cup IF d = z THEN {x} ELSE {}
    <3>1. CASE d = z
      <4>1. At(todo, d).op = "nx_sys_destroy"
        BY <1>5, <3>1 DEF IsTurn
      <4> QED BY <2>2, <3>1, <4>1 DEF Trust
    <3>2. CASE d # z
      <4>1. At(todo, d).op # "nx_sys_destroy" /\ IsCall(session, heap, games, At(todo, d))
        BY <1>3, <1>5, <3>2 DEF IsTurn
      <4>2. Trust(heap, games, k2, services, At(todo, d)) = Trust(heap, games, tickets, services,
              At(todo, d))
        BY ONLY <1>1, <1>10, <4>1, TrustStays
      <4> QED BY <3>2, <4>2
    <3> QED BY <3>1, <3>2
  <2>7. \A i \in Live(heap) : Dropped(heap, tickets, i) => Dropped(heap, k2, i)
    BY <2>2 DEF Dropped
  <2>8. Over(heap, x) = {}
    BY <1>4 DEF Over, IsAlone
  <2>9. z \in 0 .. n - 1 /\ z # 0 /\ At(todo, z).op # "free"
    BY <1>3, <1>5 DEF IsTurn
  <2>10. Handed(todo, heap, games, tickets, services, <<>>, n, heap, games, k2, services, {}, z,
           {x})
    BY <1>1, <1>2, <1>11, <2>6, <2>7, <2>8, <2>9 DEF Handed
  <2>11. Ok'
    <3>1. heap' = heap /\ services' = services /\ tickets' = k2
      BY <1>0, <1>a
    <3>2. \A b \in C : IsReady(heap, k2, b)
      BY <2>5
    <3>3. QuietIs(session, todo, heap, games, tickets, services, <<>>, todo', n, heap, k2, services)
      BY <1>0, <1>1, <1>n, <1>a, <1>6, <1>11, <1>12, <2>3, <2>4, <3>2 DEF QuietIs, Ok, Then
    <3>4. StateOk(session, todo', heap, games, k2, services)
      BY <2>10, <3>3, QuietStep
    <3> QED BY <1>0, <3>1, <3>4 DEF Ok, Same
  <2> QED BY <1>9, <2>11
<1> QED BY <1>13, <1>14
==============================================================================
