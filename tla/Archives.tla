------------------------------ MODULE Archives ------------------------------
(***************************************************************************)
(* Who opens, owns and closes what in src/src/supernx: the files and       *)
(* directories of a session, from nx_sys_create to nx_sys_destroy, with    *)
(* archives inside packages inside mapped host files.  The program is one  *)
(* thread, so its state is the heap and the calls still to be made: an     *)
(* action is the call at the head of todo, which may put others before     *)
(* the rest.                                                               *)
(*                                                                         *)
(* Of a file's contents there is what decides which calls are made.  Files *)
(* exist and are what their names say (nx_get_all_loaders quits if not);   *)
(* packages name no file twice; a package without the icon main asks for,  *)
(* on which the process dies, ends it here too.  Of libzip, entries are    *)
(* stored, one that has been read is not rewound for a read at 0, and a    *)
(* zip keeps a copy of the descriptor it is opened by, which it closes.    *)
(***************************************************************************)
EXTENDS Naturals, Sequences, SequencesExt, FiniteSetsExt

CONSTANT Sessions  \* games, a sequence of packages, and firmware, at most one archive file

IsSequence(s) == s \in Seq(Range(s))

\* What is assumed of an archive: directories of either kind, icons and the version
\* archive's file in a romfs, and encrypted sections only in one that is encrypted.
IsArchive(e) ==
  /\ IsSequence(e.sections)
  /\ \A i \in DOMAIN e.sections : LET s == e.sections[i]
                                 IN  s.fs \in {"pfs", "romfs"} /\ (s.icon => s.fs = "romfs")
  /\ ~e.encrypted => \A i \in DOMAIN e.sections : ~e.sections[i].ctr
  /\ e.svt => \E i \in DOMAIN e.sections : e.sections[i].fs = "romfs"

\* What is assumed of a package: no two archives of one name.
IsPackage(game) ==
  /\ game.type \in {"nsp", "nsz"}
  /\ IsSequence(game.files)
  /\ \A i \in DOMAIN game.files :
       /\ game.files[i].kind \in {"nca", "ncz", "cnmt"} => IsArchive(game.files[i])
       /\ \A j \in DOMAIN game.files :
            {game.files[i].kind, game.files[j].kind} \subseteq {"nca", "ncz"}
              => game.files[i].name # game.files[j].name \/ i = j

ASSUME SessionsAssumption ==
  \A s \in Sessions :
    /\ IsSequence(s.games) /\ \A g \in DOMAIN s.games : IsPackage(s.games[g])
    /\ IsSequence(s.firmware) /\ Len(s.firmware) \in {0, 1}
    /\ \A f \in DOMAIN s.firmware :
         IsSequence(s.firmware[f]) /\ \A i \in DOMAIN s.firmware[f] : IsArchive(s.firmware[f][i])

VARIABLES
  session,   \* what is on disk
  heap,      \* every object made: what it is, what it lies over, and whether it is live
  todo,      \* the calls to be made, the next one first
  games,     \* the list of nx_sys: the mapped file of each game and its loader
  tickets,   \* the list of keys_db
  services,  \* the list of hos
  fault,     \* objects used or closed although they were closed
  stale,     \* host files whose descriptor libzip has closed and the FILE has yet to
  ended      \* the process has quit

vars == <<session, heap, todo, games, tickets, services, fault, stale, ended>>

None == 0        \* no object
NoName == ""     \* no name, no ticket
Objects == DOMAIN heap
New == Len(heap) + 1

Object(kind, over) ==
  [kind |-> kind, base |-> over, dir |-> None, parts |-> <<>>, pfs_list |-> <<>>,
   romfs_list |-> <<>>, path |-> NoName, live |-> TRUE]
Inside(dir, o) == [o EXCEPT !.dir = dir]
Named(path, o) == [o EXCEPT !.path = path]

\* dir_open, file_open, mapfile_open of a host file and mapfile_open_2 of memory
HostDir == Object("hostdir", None)
Host(path) == Named(path, Object("host", None))
Map == Object("map", None)
Memory(path) == Named(path, Object("mem", None))

\* offset_file_open and aes_file_open, over another file
Offset(file) == Object("offset", file)
Aes(file) == Object("aes", file)

\* pfs_create and romfs_create over a file, romfs_create_2 over none, zipdir_open_2 and
\* zipfile_open
Pfs(file) == Object("pfs", file)
Romfs(file) == Object("romfs", file)
NcaFiles == Object("romfs", None)
ZipDir(file) == Object("zip", file)
ZipFile(zip) == Object("zipfile", zip)

\* tik_create
Ticket(e) == Named(e.ticket, Object("tik", None))

Op(name) == [op |-> name]
Call(name, x) == [op |-> name, x |-> x]
CallOn(name, dir, x) == [op |-> name, dir |-> dir, x |-> x]
CallWith(name, owner, dir, e) == [op |-> name, owner |-> owner, dir |-> dir, e |-> e]

\* A call for each of a sequence
Each(name, s) == [i \in DOMAIN s |-> Call(name, s[i])]
EachOn(name, dir, s) == [i \in DOMAIN s |-> CallOn(name, dir, s[i])]
EachWith(name, owner, dir, s) == [i \in DOMAIN s |-> CallWith(name, owner, dir, s[i])]

\* A sequence without one of its elements, of which it has no two
Without(s, x) == IF x \in Range(s) THEN RemoveAt(s, CHOOSE i \in DOMAIN s : s[i] = x) ELSE s

\* An object and all it lies over: what a read of it goes through.
Chain(i) ==
  LET c[j \in 0 .. Len(heap)] == IF j = 0 THEN {} ELSE {j} \cup c[heap[j].base] IN c[i]

----------------------------------------------------------------------------
(* The machine *)

Init ==
  /\ session \in Sessions
  /\ heap = <<>> /\ games = <<>> /\ tickets = <<>> /\ services = <<>>
  /\ todo = <<Op("hos_create"), Op("nx_get_all_loaders"), Op("nx_load_first_one"),
              Op("logos"), Op("nx_sys_destroy")>>
  /\ fault = {} /\ stale = {} /\ ended = FALSE

Calling(name) == ~ended /\ todo # <<>> /\ Head(todo).op = name
Arg == Head(todo)
Then(calls) == todo' = calls \o Tail(todo)
Use(S) == fault' = fault \cup { i \in S : ~heap[i].live }

\* quit: the process ends here.
Quit == ended' = TRUE /\ UNCHANGED <<session, heap, todo, games, tickets, services, fault>>

Same == UNCHANGED <<session, ended>>
SameLists == Same /\ UNCHANGED <<games, tickets, services>>

\* fb_free, and the closing functions that do no more: aes_file_close, pfs_destroy,
\* mapfile_close, tik_destroy and zipdir_close
Free ==
  /\ Calling("free")
  /\ heap' = [heap EXCEPT ![Arg.x].live = FALSE]
  /\ Use({Arg.x}) /\ Then(<<>>) /\ SameLists

----------------------------------------------------------------------------
(* Host directories *)

\* dir_open_file: the handle of a path that is open already, or a new one.
Cached(dir, path) == { i \in Range(heap[dir].parts) : heap[i].path = path }
HostFile(dir, path) ==
  IF Cached(dir, path) # {} THEN CHOOSE i \in Cached(dir, path) : TRUE ELSE New
WithHostFile(dir, path) ==
  IF Cached(dir, path) # {} THEN heap
  ELSE [Append(heap, Inside(dir, Host(path))) EXCEPT ![dir].parts = Append(@, New)]

\* dir_close_file and file_close
DirCloseFile ==
  /\ Calling("dir_close_file")
  /\ heap' = [heap EXCEPT ![Arg.dir].parts = Without(@, Arg.x), ![Arg.x].live = FALSE]
  /\ stale' = stale \ {Arg.x}
  /\ Use({Arg.dir, Arg.x}) /\ Then(<<>>) /\ SameLists

\* dir_close: each file closed leaves the list the loop goes over, so every second one is.
EverySecond(s) == [k \in 1 .. (Len(s) + 1) \div 2 |-> s[2 * k - 1]]
DirClose ==
  /\ Calling("dir_close")
  /\ Then(EachOn("dir_close_file", Arg.x, EverySecond(heap[Arg.x].parts))
            \o <<Call("free", Arg.x)>>)
  /\ Use({Arg.x}) /\ UNCHANGED heap /\ SameLists

\* find_keys, of a file in the directory
FindKeys ==
  /\ Calling("find_keys")
  /\ heap' = WithHostFile(Arg.dir, Arg.x)
  /\ Then(<<CallOn("dir_close_file", Arg.dir, HostFile(Arg.dir, Arg.x))>>)
  /\ Use({Arg.dir}) /\ SameLists

\* hos_create
HosCreate ==
  /\ Calling("hos_create")
  /\ heap' = Append(heap, HostDir)
  /\ Then(<<CallOn("find_keys", New, "title.keys"), CallOn("find_keys", New, "prod.keys"),
            Call("dir_close", New)>>)
  /\ Use({}) /\ SameLists

----------------------------------------------------------------------------
(* Packages *)

\* nx_get_all_loaders
GetAllLoaders ==
  /\ Calling("nx_get_all_loaders")
  /\ heap' = Append(heap, HostDir)
  /\ Then([i \in DOMAIN session.games |-> CallOn("load_game", New, i)]
            \o <<Call("dir_close", New)>>)
  /\ Use({}) /\ SameLists

\* loader_get_rom_type
TypeOf(game) == session.games[game].type

\* The body of its loop: the game is mapped by a descriptor of its own.
LoadGame ==
  /\ Calling("load_game")
  /\ LET opened == WithHostFile(Arg.dir, Arg.x)
         map == Len(opened) + 1
     IN  /\ heap' = Append(opened, Map)
         /\ games' = Append(games, [file |-> map, loader |-> None, type |-> TypeOf(Arg.x)])
         /\ Then(<<CallOn(TypeOf(Arg.x), map, Arg.x),
                   CallOn("dir_close_file", Arg.dir, HostFile(Arg.dir, Arg.x))>>)
  /\ Use({Arg.dir}) /\ Same /\ UNCHANGED <<tickets, services>>

Is(kinds, e) == e.kind \in kinds

\* Mutant: archives are opened before the tickets are loaded.
NspOrderSwapped(pfs, loader, files) ==
  EachWith("nsp_addfile", loader, pfs, files) \o EachWith("load_tik", loader, pfs, files)

\* submission_package_create: what it does with the files of the package
NspOrder(pfs, loader, files) ==
  EachWith("load_tik", loader, pfs, files) \o EachWith("nsp_addfile", loader, pfs, files)

\* nsp_create
NspCreate ==
  /\ Calling("nsp")
  /\ LET loader == New + 1
     IN  /\ heap' = heap \o <<Pfs(Arg.dir), Inside(New, Object("loader", None))>>
         /\ games' = [games EXCEPT ![Len(games)].loader = loader]
         /\ Then(NspOrder(New, loader, session.games[Arg.x].files))
  /\ Use(Chain(Arg.dir)) /\ Same /\ UNCHANGED <<tickets, services>>

\* nsz_create: the archives it finds go into a directory of its own, nca_files.
NszCreate ==
  /\ Calling("nsz")
  /\ LET loader == New + 2
     IN  /\ heap' = heap \o <<Pfs(Arg.dir), NcaFiles,
                              Inside(New, Object("loader", New + 1))>>
         /\ games' = [games EXCEPT ![Len(games)].loader = loader]
         /\ Then(EachWith("nsz_addfile", loader, New, session.games[Arg.x].files))
  /\ Use(Chain(Arg.dir)) /\ Same /\ UNCHANGED <<tickets, services>>

\* The body of load_all_tiks, for the files that are tickets: an offset file, and the
\* ticket read from it
LoadTik ==
  /\ Calling("load_tik")
  /\ IF Is({"tik"}, Arg.e)
       THEN /\ heap' = heap \o <<Offset(heap[Arg.dir].base), Ticket(Arg.e)>>
            /\ Then(<<CallOn("close_file", Arg.dir, New), Call("keys_db_add_ticket", New + 1)>>)
            /\ Use({Arg.dir} \cup Chain(heap[Arg.dir].base))
       ELSE UNCHANGED <<heap, fault>> /\ Then(<<>>)
  /\ SameLists

\* The body of the loop of submission_package_create
NspAddFile ==
  /\ Calling("nsp_addfile")
  /\ Then(IF Is({"nca", "cnmt"}, Arg.e)
            THEN <<CallWith("content_archive_create", Arg.owner, Arg.dir, Arg.e)>> ELSE <<>>)
  /\ Use({Arg.dir}) /\ UNCHANGED heap /\ SameLists

\* keys_db_add_ticket: one that is known already is not kept, and nobody frees it.
AddTicket ==
  /\ Calling("keys_db_add_ticket")
  /\ tickets' = IF \E i \in Range(tickets) : heap[i].path = heap[Arg.x].path
                  THEN tickets ELSE Append(tickets, Arg.x)
  /\ Use({Arg.x} \cup Range(tickets)) /\ Then(<<>>)
  /\ Same /\ UNCHANGED <<heap, games, services>>

\* Mutants: every file of an nsz is closed; the file of a compressed archive is not.
KeepsNone(e) == FALSE
KeepsCompressed(e) == Is({"nca", "ncz"}, e)

\* closefile of nsz_addfile
Keeps(e) == Is({"nca"}, e)

\* ncz_create: a compressed archive, unpacked into memory.  AesFile has what it holds.
Unpacked(e) == Memory(e.name)

\* fs_romfs_addfile: of the last object of h
WithFile(dir, h) == [h EXCEPT ![dir].parts = Append(@, Len(h))]

\* The body of the loop of nsz_create
NszAddFile ==
  /\ Calling("nsz_addfile")
  /\ LET pfs == Arg.dir
         nca_files == heap[Arg.owner].base
         file == Named(Arg.e.name, Offset(heap[pfs].base))
     IN  /\ heap' = CASE Is({"nca"}, Arg.e) ->
                          WithFile(nca_files, Append(heap, Inside(nca_files, file)))
                      [] Is({"ncz"}, Arg.e) ->
                          WithFile(nca_files, heap \o <<file, Inside(nca_files, Unpacked(Arg.e))>>)
                      [] Is({"tik"}, Arg.e) -> heap \o <<file, Ticket(Arg.e)>>
                      [] OTHER -> Append(heap, file)
         /\ Then((IF Is({"tik"}, Arg.e) THEN <<Call("keys_db_add_ticket", New + 1)>> ELSE <<>>)
                 \o (IF Is({"nca", "ncz"}, Arg.e)
                       THEN <<CallWith("content_archive_create", Arg.owner, nca_files, Arg.e)>>
                       ELSE <<>>)
                 \o IF Keeps(Arg.e) THEN <<>> ELSE <<CallOn("close_file", pfs, New)>>)
  /\ Use({Arg.dir} \cup Chain(heap[Arg.dir].base)) /\ SameLists

----------------------------------------------------------------------------
(* Archives *)

\* open_file of the directory of an archive: pfs and zip make a new file, nca_files
\* hands out the one it holds.
Held(dir, name) == { i \in Range(heap[dir].parts) : heap[i].path = name }
ArchiveFile(dir, name) ==
  IF heap[dir].kind = "romfs" THEN CHOOSE i \in Held(dir, name) : TRUE ELSE New
WithArchiveFile(dir) ==
  CASE heap[dir].kind = "pfs" -> Append(heap, Offset(heap[dir].base))
    [] heap[dir].kind = "zip" -> Append(heap, ZipFile(dir))
    [] OTHER -> heap

\* content_archive_create, with the file list_push puts the archive on, or, for firmware,
\* what hos_firmware_load does with it next
ContentArchiveCreate ==
  /\ Calling("content_archive_create")
  /\ LET e == Arg.e
         opened == WithArchiveFile(Arg.dir)
         file == ArchiveFile(Arg.dir, e.name)
         wrapped == IF e.encrypted THEN Append(opened, Aes(file)) ELSE opened
         nca == Len(wrapped) + 1
     IN  IF e.encrypted /\ heap[Arg.dir].kind = "zip" THEN Quit
         ELSE /\ heap' = Append(wrapped, Inside(Arg.dir,
                                   Object("nca", IF e.encrypted THEN nca - 1 ELSE file)))
              /\ Then([i \in DOMAIN e.sections |->
                         [op |-> "get_file", nca |-> nca, e |-> e, section |-> e.sections[i]]]
                      \o IF Arg.owner # None THEN <<CallOn("list_push", Arg.owner, nca)>>
                         ELSE <<[op |-> "service", nca |-> nca, e |-> e],
                                Call("content_archive_destroy", nca)>>)
              /\ Use({Arg.dir} \cup IF file \in Objects THEN Chain(file) ELSE Chain(heap[Arg.dir].base))
              /\ SameLists

\* list_push(nca_list, ...)
PushArchive ==
  /\ Calling("list_push")
  /\ heap' = [heap EXCEPT ![Arg.dir].parts = Append(@, Arg.x)]
  /\ Use({Arg.dir}) /\ Then(<<>>) /\ SameLists

IsEncrypted(nca) == heap[heap[nca].base].kind = "aes"

\* The file sections are cut from: below the wrapper, if there is one.
Backing(nca) == IF IsEncrypted(nca) THEN heap[heap[nca].base].base ELSE heap[nca].base

HasTitleKey(e) == e.rights = NoName \/ \E i \in Range(tickets) : heap[i].path = e.rights

\* The parent of the file open_decrypted_file and open_encrypted_file open.
SectionBase(nca) == Backing(nca)
DecryptedFile(nca) == Offset(SectionBase(nca))
EncryptedFile(nca) == Aes(SectionBase(nca))

\* list_push(nca->pfs_list, ...) or list_push(nca->romfs_list, ...)
WithSection(nca, s, h) ==
  LET item == [file |-> New, fs |-> New + 1, ctr |-> s.ctr, icon |-> s.icon]
  IN  IF s.fs = "pfs" THEN [h EXCEPT ![nca].pfs_list = Append(@, item)]
      ELSE [h EXCEPT ![nca].romfs_list = Append(@, item)]

\* The body of the loop in content_archive_get_all_files.  Without its title key an
\* encrypted section is decrypted to what is no directory.
GetFile ==
  /\ Calling("get_file")
  /\ LET nca == Arg.nca
         s == Arg.section
     IN  IF s.ctr /\ ~HasTitleKey(Arg.e) THEN Quit
         ELSE /\ heap' = WithSection(nca, s,
                           heap \o <<IF s.ctr THEN EncryptedFile(nca) ELSE DecryptedFile(nca),
                                     IF s.fs = "pfs" THEN Pfs(New) ELSE Romfs(New)>>)
              /\ Then(<<>>)
              /\ Use({nca} \cup Chain(heap[nca].base)) /\ SameLists

\* content_archive_destroy: nca_destroy_files of each list, then the archive itself
ContentArchiveDestroy ==
  /\ Calling("content_archive_destroy")
  /\ Then(EachOn("destroy_file", Arg.x, heap[Arg.x].pfs_list)
            \o EachOn("destroy_file", Arg.x, heap[Arg.x].romfs_list)
            \o <<Call("close_archive", Arg.x)>>)
  /\ Use({Arg.x}) /\ UNCHANGED heap /\ SameLists

\* The body of nca_destroy_files.  offset_file_close quits if the base is another one.
DestroyFile ==
  /\ Calling("destroy_file")
  /\ LET nca == Arg.dir
         p == Arg.x
     IN  IF ~p.ctr /\ heap[p.file].base # Backing(nca) THEN Quit
         ELSE /\ heap' = [heap EXCEPT ![p.fs].live = FALSE, ![p.file].live = FALSE]
              /\ Use({nca, p.fs, p.file} \cup IF p.ctr THEN {} ELSE {heap[nca].base})
              /\ Then(<<>>) /\ SameLists

\* Mutant: the wrapper is closed first.
CloseOrderWrapperFirst(nca) ==
  IF IsEncrypted(nca)
    THEN <<Call("free", heap[nca].base), CallOn("close_wrapped", heap[nca].dir, heap[nca].base)>>
    ELSE <<CallOn("close_file", heap[nca].dir, heap[nca].base)>>

\* The end of content_archive_destroy: the file below the wrapper, then the wrapper
CloseOrder(nca) ==
  IF IsEncrypted(nca)
    THEN <<CallOn("close_wrapped", heap[nca].dir, heap[nca].base), Call("free", heap[nca].base)>>
    ELSE <<CallOn("close_file", heap[nca].dir, heap[nca].base)>>

CloseArchive ==
  /\ Calling("close_archive")
  /\ Then(CloseOrder(Arg.x) \o <<Call("free", Arg.x)>>)
  /\ Use({Arg.x}) /\ UNCHANGED heap /\ SameLists

CloseWrapped ==
  /\ Calling("close_wrapped")
  /\ Then(<<CallOn("close_file", Arg.dir, heap[Arg.x].base)>>)
  /\ Use({Arg.x}) /\ UNCHANGED heap /\ SameLists

\* The files of a directory after one is closed: fs_romfs_close_file drops it.
FilesLeft(dir, x) == Without(heap[dir].parts, x)

\* close_file of pfs, romfs and zip directories: offset_file_close quits if the base is
\* another one, which nca_files, that has none, does not check; fs_romfs_close_file
\* closes offset files and mapped ones.
CloseFile ==
  /\ Calling("close_file")
  /\ LET dir == Arg.dir
         x == Arg.x
     IN  IF /\ heap[dir].kind \in {"pfs", "romfs"} /\ heap[x].kind = "offset"
            /\ heap[dir].base # None /\ heap[x].base # heap[dir].base
         THEN Quit
         ELSE /\ heap' = [heap EXCEPT ![dir].parts = FilesLeft(dir, x),
                                      ![x].live = (@ /\ heap[dir].kind = "romfs"
                                                     /\ heap[x].kind \notin {"offset", "map", "mem"})]
              /\ Use({dir, x}) /\ Then(<<>>) /\ SameLists

----------------------------------------------------------------------------
(* Firmware, icons and the end *)

\* nx_load_first_one and hos_enable
LoadFirstOne ==
  /\ Calling("nx_load_first_one")
  /\ IF games = <<>> THEN UNCHANGED heap /\ Then(<<>>)
     ELSE /\ heap' = Append(heap, HostDir)
          /\ Then((IF session.firmware = <<>> THEN <<>> ELSE <<Call("hos_firmware_load", New)>>)
                    \o <<Call("dir_close", New), Op("hos_disable")>>)
  /\ Use({}) /\ SameLists

\* zip_fdopen: the descriptor is closed, the FILE it came from still has its number.
ZipFdopen(file) == stale' = stale \cup {file}

\* hos_firmware_load, of the file hos_enable opens and closes
HosFirmwareLoad ==
  /\ Calling("hos_firmware_load")
  /\ LET opened == WithHostFile(Arg.x, "firmware.zip")
         file == HostFile(Arg.x, "firmware.zip")
         zip == Len(opened) + 1
     IN  /\ heap' = Append(opened, ZipDir(file))
         /\ ZipFdopen(file)
         /\ Then(EachWith("content_archive_create", None, zip, session.firmware[1])
                 \o <<Call("free", zip), CallOn("dir_close_file", Arg.x, file)>>)
  /\ Use({Arg.x}) /\ SameLists

\* Mutant: the service keeps a file of the host with what it read.
ServiceDumps ==
  /\ Calling("service")
  /\ IF Arg.e.svt
       THEN LET fs == heap[Arg.nca].romfs_list[1].fs
            IN  /\ heap' = heap \o <<Object("service", None), Offset(heap[fs].base), Host("dump")>>
                /\ services' = Append(services, New)
                /\ Then(<<CallOn("close_file", fs, New + 1)>>)
                /\ Use({Arg.nca} \cup Chain(fs))
       ELSE UNCHANGED <<heap, services>> /\ Then(<<>>) /\ Use({Arg.nca})
  /\ Same /\ UNCHANGED <<games, tickets>>

\* svt_load, if the archive is the one it is registered for
Service ==
  /\ Calling("service")
  /\ IF Arg.e.svt
       THEN LET fs == heap[Arg.nca].romfs_list[1].fs
            IN  /\ heap' = heap \o <<Object("service", None), Offset(heap[fs].base)>>
                /\ services' = Append(services, New)
                /\ Then(<<CallOn("close_file", fs, New + 1)>>)
                /\ Use({Arg.nca} \cup Chain(fs))
       ELSE UNCHANGED <<heap, services>> /\ Then(<<>>) /\ Use({Arg.nca})
  /\ Same /\ UNCHANGED <<games, tickets>>

\* hos_disable
HosDisable ==
  /\ Calling("hos_disable")
  /\ Then(Each("free", services))
  /\ services' = <<>>
  /\ Use({}) /\ Same /\ UNCHANGED <<heap, games, tickets>>

\* The loop of main
Logos ==
  /\ Calling("logos")
  /\ Then([i \in DOMAIN games |-> Call("loader_get_logo", games[i].loader)])
  /\ Use({}) /\ UNCHANGED heap /\ SameLists

\* The directories of an archive that have the icon
Icons(nca) ==
  { k \in DOMAIN heap[nca].romfs_list : heap[nca].romfs_list[k].icon }

\* loader_get_logo for both kinds of packages, and the file main writes the icon to: the
\* first directory that has it, in the order of the archives
GetLogo ==
  /\ Calling("loader_get_logo")
  /\ LET ncas == heap[Arg.x].parts
         having == { a \in DOMAIN ncas : Icons(ncas[a]) # {} }
     IN  IF having = {} THEN Quit
         ELSE LET nca == ncas[Min(having)]
                  fs == heap[nca].romfs_list[Min(Icons(nca))].fs
              IN  /\ heap' = heap \o <<Offset(heap[fs].base), Host("icon")>>
                  /\ Then(<<CallOn("close_file", fs, New), Call("free", New + 1)>>)
                  /\ Use({Arg.x} \cup Range(ncas) \cup Chain(fs)) /\ SameLists

\* nsz_destroy and nsp_destroy: archives first
DestroyOrder(loader) ==
  Each("content_archive_destroy", heap[loader].parts) \o <<Call("destroy_package", loader)>>

\* The body of the loop of nx_sys_destroy
LoaderDestroy ==
  /\ Calling("loader_destroy")
  /\ Then(DestroyOrder(Arg.x) \o <<Call("free", Arg.dir)>>)
  /\ Use({Arg.x}) /\ UNCHANGED heap /\ SameLists

\* romfs_destroy of nca_files, which goes over the list its closes shorten, pfs_destroy,
\* and the loader
DestroyPackage ==
  /\ Calling("destroy_package")
  /\ LET nca_files == heap[Arg.x].base
     IN  /\ Then((IF nca_files = None THEN <<>>
                  ELSE EachOn("close_file", nca_files, EverySecond(heap[nca_files].parts))
                       \o <<Call("free", nca_files)>>)
                 \o <<Call("free", heap[Arg.x].dir), Call("free", Arg.x)>>)
         /\ Use({Arg.x} \cup IF nca_files = None THEN {} ELSE {nca_files})
  /\ UNCHANGED heap /\ SameLists

\* nx_sys_destroy and hos_destroy
NxSysDestroy ==
  /\ Calling("nx_sys_destroy")
  /\ Then([i \in DOMAIN games |-> CallOn("loader_destroy", games[i].file, games[i].loader)]
            \o Each("free", tickets))
  /\ Use({}) /\ UNCHANGED heap /\ SameLists

Next ==
  \/ HosFirmwareLoad \/ DirCloseFile
  \/ /\ UNCHANGED stale
     /\ \/ Free \/ DirClose \/ FindKeys \/ HosCreate
        \/ GetAllLoaders \/ LoadGame \/ NspCreate \/ NszCreate
        \/ LoadTik \/ NspAddFile \/ AddTicket \/ NszAddFile
        \/ ContentArchiveCreate \/ PushArchive \/ GetFile
        \/ ContentArchiveDestroy \/ DestroyFile \/ CloseArchive \/ CloseWrapped \/ CloseFile
        \/ LoadFirstOne \/ Service \/ HosDisable
        \/ Logos \/ GetLogo \/ LoaderDestroy \/ DestroyPackage \/ NxSysDestroy

Spec == Init /\ [][Next]_vars

----------------------------------------------------------------------------
(* Properties *)

\* No object of the program is read, closed or freed after it was closed: an archive is
\* closed before the directory it came from, the file below a wrapper before the wrapper
\* that names it.  This is about objects: of firmware.zip the FILE is closed once, its
\* descriptor twice, by zip_fdopen and by the fclose of that FILE (file_close).
NoUseAfterClose == fault = {}

\* The second close of that descriptor closes no other file: while its number is free and
\* the FILE that has it is still to be closed, hos_enable opens no file of the host, which
\* might be given the number.
SecondCloseHitsNothing ==
  \A i \in stale : \A j \in Objects :
    heap[j].kind \in {"host", "map"} /\ heap[j].live => j <= i

\* Whatever is open as a directory can be read at any time: the files it lies over are
\* open, down to the mapped game.
DirectoriesReadable ==
  \A i \in Objects : heap[i].live /\ heap[i].kind \in {"pfs", "romfs", "zip"}
                       => \A j \in Chain(i) : heap[j].live

\* A session that ends by itself has closed everything, the files a directory's close
\* would skip included, but for tickets that two packages have in common.
NothingLeftOpen ==
  todo = <<>> => \A i \in Objects : heap[i].live =>
     /\ heap[i].kind = "tik"
     /\ \E j \in 1 .. i - 1 : heap[j].kind = "tik" /\ heap[j].path = heap[i].path

\* The tickets known when the k-th file of game g is opened: those of the packages before,
\* and of its own all if it is an nsp, those further up if it is an nsz.
TicketsBefore(g, k) ==
  LET Tiks(h) == { j \in DOMAIN session.games[h].files : session.games[h].files[j].kind = "tik" }
      Loaded(h) == { j \in Tiks(h) : h < g \/ session.games[g].type = "nsp" \/ j < k }
  IN  UNION { { session.games[h].files[j].ticket : j \in Loaded(h) } : h \in 1 .. g }

Opened(g, k) ==
  session.games[g].files[k].kind \in
    IF session.games[g].type = "nsp" THEN {"nca", "cnmt"} ELSE {"nca", "ncz"}

Complete ==
  /\ \A g \in DOMAIN session.games :
       /\ \A k \in DOMAIN session.games[g].files :
            LET e == session.games[g].files[k]
            IN  Opened(g, k) /\ (\E i \in DOMAIN e.sections : e.sections[i].ctr)
                  => e.rights \in {NoName} \cup TicketsBefore(g, k)
       /\ \E k \in DOMAIN session.games[g].files :
            Opened(g, k) /\ LET e == session.games[g].files[k]
                            IN  \E i \in DOMAIN e.sections : e.sections[i].icon
  /\ session.firmware # <<>> => \A i \in DOMAIN session.firmware[1] : ~session.firmware[1][i].encrypted

\* The process does not quit on a session whose packages are complete.  Of an nsp it is
\* enough that its ticket is somewhere in it, because tickets are loaded first; an nsz
\* must have the ticket before the archive.
CompleteLoads == ended => ~Complete
=============================================================================
