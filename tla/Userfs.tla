------------------------------- MODULE Userfs -------------------------------
(***************************************************************************)
(* The user-space file system of src/src/core/fs/userfs.c: a tree of       *)
(* directories and files the main thread extends with userfs_mountfile     *)
(* while a FUSE loop, another thread, walks it to answer the kernel.       *)
(* Neither side locks the tree; points_mutex only guards creation and      *)
(* destruction.                                                            *)
(*                                                                         *)
(* A node is known by its inode number, which next_inode hands out in      *)
(* order from 1, so the tree is a sequence of nodes.  A path is a sequence *)
(* of names below the mount point; the mount point is the empty sequence.  *)
(* NamePrefixes holds the pairs of different names the first of which is a *)
(* string prefix of the second: strncmp in udir_mkdir can tell.            *)
(*                                                                         *)
(* One userfs exists at a time, and paths start with the mount point, as   *)
(* in the only caller the repository has (core/unit_test/userfs_test.c).   *)
(***************************************************************************)
EXTENDS Naturals, Sequences, SequencesExt, FiniteSetsExt

CONSTANTS
  Paths,         \* the paths userfs_mountfile may be given
  NamePrefixes,  \* pairs of names, the first a proper string prefix of the second
  RootName,      \* the last name of the mount point
  MaxMounts      \* bound on the calls of userfs_mountfile per userfs

Names == UNION { ToSet(p) : p \in Paths }

\* Paths lead somewhere below the mount point, and none to what another one takes for a
\* directory: userfs_mountfile would use the file's node as one.
ASSUME PathAssumption ==
  \A p \in Paths : /\ p \in Seq(Names) /\ Len(p) >= 1
                   /\ \A k \in 0 .. Len(p) - 1 : SubSeq(p, 1, k) \notin Paths
ASSUME MountAssumption == MaxMounts \in Nat

VARIABLES
  phase,    \* "none", "online" (created, loop running) or "exiting" (in userfs_destroy)
  node,     \* the nodes, by inode: type, path, parent and children
  call,     \* the userfs_mountfile in progress: path, levels done, target directory
  calls,    \* how many userfs_mountfile calls this userfs has seen
  loop,     \* the FUSE thread: "absent", "waiting" (in read) or "walking"
  req,      \* the request being answered, with the inodes that existed when it came
  stack,    \* the frames of walk: a directory and the index of its next child
  found,    \* the node the callbacks matched last, 0 for none
  listed,   \* the entries readdir has filled in
  reply     \* the last answer, until the next request

tree == <<node, call, calls>>
walk == <<req, stack, found, listed>>
userfsVars == <<phase, tree, loop, walk, reply>>

NoCall == [path |-> <<>>, level |-> 0, target |-> 0]
NoReq == [op |-> "none", ino |-> 0, name |-> RootName, seen |-> 0]
NoReply == [req |-> NoReq, kind |-> "none", ino |-> 0, listed |-> <<>>]
Root == [type |-> "dir", path |-> <<>>, parent |-> 0, children |-> <<>>]

UserfsInit ==
  /\ phase = "none" /\ node = <<>> /\ call = NoCall /\ calls = 0
  /\ loop = "absent" /\ req = NoReq /\ stack = <<>> /\ found = 0 /\ listed = <<>>
  /\ reply = NoReply

Inodes == DOMAIN node
IsDir(n) == node[n].type = "dir"
NameOf(n) == IF node[n].path = <<>> THEN RootName ELSE Last(node[n].path)

----------------------------------------------------------------------------
(* The life of a userfs *)

Create ==
  /\ phase = "none"
  /\ phase' = "online" /\ loop' = "waiting"
  /\ node' = <<Root>>
  /\ UNCHANGED <<call, calls, walk, reply>>

\* userfs_destroy: online = false and fuse_session_exit, then pthread_join
Exit ==
  /\ phase = "online" /\ call = NoCall
  /\ phase' = "exiting"
  /\ UNCHANGED <<tree, loop, walk, reply>>

\* Mutant: udir_destroy runs without the join.
DestroyUnjoined ==
  /\ phase = "exiting"
  /\ phase' = "none" /\ node' = <<>> /\ calls' = 0 /\ reply' = NoReply
  /\ UNCHANGED <<call, loop, walk>>

\* Once the loop has ended, udir_destroy frees the whole tree.
UserfsDestroy ==
  /\ phase = "exiting" /\ loop = "absent"
  /\ phase' = "none" /\ node' = <<>> /\ calls' = 0 /\ reply' = NoReply
  /\ UNCHANGED <<call, loop, walk>>

----------------------------------------------------------------------------
(* userfs_mountfile *)

\* strncmp(x, q, strlen(x)) == 0, on paths that share the mount point
StringPrefix(x, q) ==
  \/ x = <<>>
  \/ /\ Len(x) <= Len(q)
     /\ \A i \in 1 .. Len(x) - 1 : x[i] = q[i]
     /\ \/ x[Len(x)] = q[Len(x)]
        \/ <<x[Len(x)], q[Len(x)]>> \in NamePrefixes

\* walk with exists_cb: the first node with this full path, 0 for none
FindPath(q) ==
  LET hits == { n \in Inodes : node[n].path = q }
  IN  IF hits = {} THEN 0 ELSE Min(hits)

\* Where among the children of d udir_mkdir would go on to create q.
Into(d, q) ==
  { k \in DOMAIN node[d].children :
      LET c == node[d].children[k] IN IsDir(c) /\ StringPrefix(node[c].path, q) }

\* The directory in which udir_mkdir(root, q) ends up creating q: at each level the
\* first subdirectory whose full path is a string prefix of q.
MkdirIn(q) ==
  LET below[d \in Inodes] ==
        IF Into(d, q) = {} THEN d ELSE below[node[d].children[Min(Into(d, q))]]
  IN  below[1]

\* list_push publishes a finished node at the end of its parent's children.
AddNode(n, parent) ==
  node' = Append([node EXCEPT ![parent].children = Append(@, Len(node) + 1)],
                 [n EXCEPT !.parent = parent])

MountFile(p) ==
  /\ phase = "online" /\ call = NoCall /\ calls < MaxMounts
  /\ calls' = calls + 1
  /\ call' = IF FindPath(p) # 0 THEN NoCall ELSE [path |-> p, level |-> 0, target |-> 0]
  /\ UNCHANGED <<phase, node, loop, walk, reply>>

\* Mutant: every missing directory is created in the root.
MountDirInRoot ==
  /\ call # NoCall /\ call.level < Len(call.path)
  /\ LET q == SubSeq(call.path, 1, call.level)
     IN  IF FindPath(q) # 0
         THEN /\ call' = [call EXCEPT !.level = @ + 1, !.target = FindPath(q)]
              /\ UNCHANGED node
         ELSE /\ call' = [call EXCEPT !.level = @ + 1, !.target = Len(node) + 1]
              /\ AddNode([Root EXCEPT !.path = <<Last(q)>>], 1)
  /\ UNCHANGED <<phase, calls, loop, walk, reply>>

\* One turn of the loop over the directories of the path: find or create one.
MountDir ==
  /\ call # NoCall /\ call.level < Len(call.path)
  /\ LET q == SubSeq(call.path, 1, call.level)
         at == FindPath(q)
         parent == MkdirIn(q)
     IN  \/ /\ at # 0
            /\ call' = [call EXCEPT !.level = @ + 1, !.target = at]
            /\ UNCHANGED node
         \/ /\ at = 0
            /\ call' = [call EXCEPT !.level = @ + 1, !.target = Len(node) + 1]
            /\ AddNode([Root EXCEPT !.path = Append(node[parent].path, Last(q))], parent)
  /\ UNCHANGED <<phase, calls, loop, walk, reply>>

\* udir_addfile in the last directory
MountAdd ==
  /\ call # NoCall /\ call.level = Len(call.path)
  /\ AddNode([Root EXCEPT !.type = "file", !.path = call.path], call.target)
  /\ call' = NoCall
  /\ UNCHANGED <<phase, calls, loop, walk, reply>>

----------------------------------------------------------------------------
(* The FUSE loop *)

\* The callbacks: does the node end the walk (files_cb never does: the reply
\* buffer is assumed to hold every entry).
Matches(n) ==
  CASE req.op \in {"open", "opendir", "read", "getattr"} -> n = req.ino
    [] req.op = "lookup"  -> NameOf(n) = req.name \/ node[n].parent = req.ino
    [] req.op = "readdir" -> FALSE

\* What a callback leaves behind at a node: the match, or a directory entry.
Visit(n) ==
  /\ found' = IF Matches(n) THEN n ELSE found
  /\ listed' = IF req.op = "readdir" /\ node[n].parent = req.ino
               THEN Append(listed, n) ELSE listed

\* The kernel asks about inodes it has been told of.  userfs_getattr answers for
\* inodes below 3 without looking at the tree.
Request(op, ino, name) ==
  /\ loop = "waiting" /\ ino \in Inodes
  /\ op \in {"lookup", "readdir"} => IsDir(ino)
  /\ op # "lookup" => name = RootName
  /\ req' = [op |-> op, ino |-> ino, name |-> name, seen |-> Len(node)]
  /\ loop' = "walking"
  /\ LET rootMatches == \/ op \in {"open", "opendir", "read"} /\ ino = 1
                        \/ op = "lookup" /\ name = RootName
     IN  /\ found' = IF rootMatches THEN 1 ELSE 0
         /\ stack' = IF rootMatches \/ (op = "getattr" /\ ino < 3)
                     THEN <<>> ELSE <<[dir |-> 1, next |-> 1]>>
  /\ listed' = <<>> /\ reply' = NoReply
  /\ UNCHANGED <<phase, tree>>

Top == Last(stack)
Advance(s) == [s EXCEPT ![Len(s)].next = @ + 1]
Child == node[Top.dir].children[Top.next]
MoreChildren == Top.next <= Len(node[Top.dir].children)

\* Into a subdirectory, before its own callback
Descend ==
  /\ loop = "walking" /\ stack # <<>> /\ found = 0 /\ MoreChildren
  /\ IsDir(Child)
  /\ stack' = Append(stack, [dir |-> Child, next |-> 1])
  /\ UNCHANGED <<phase, tree, loop, req, found, listed, reply>>

\* Mutant: the walk looks at a file again and again.
VisitFileForever ==
  /\ loop = "walking" /\ stack # <<>> /\ found = 0 /\ MoreChildren
  /\ ~IsDir(Child)
  /\ Visit(Child)
  /\ UNCHANGED <<phase, tree, loop, req, stack, reply>>

VisitFile ==
  /\ loop = "walking" /\ stack # <<>> /\ found = 0 /\ MoreChildren
  /\ ~IsDir(Child)
  /\ Visit(Child)
  /\ stack' = Advance(stack)
  /\ UNCHANGED <<phase, tree, loop, req, reply>>

\* Mutant: the walk stops at the end of the first subdirectory.
AscendToEnd ==
  /\ loop = "walking" /\ stack # <<>> /\ (found # 0 \/ ~MoreChildren)
  /\ stack' = <<>>
  /\ IF Top.dir = 1 THEN UNCHANGED <<found, listed>> ELSE Visit(Top.dir)
  /\ UNCHANGED <<phase, tree, loop, req, reply>>

\* The end of a directory, or the way back after a match: the directory's own
\* callback still runs and may replace the match.
Ascend ==
  /\ loop = "walking" /\ stack # <<>> /\ (found # 0 \/ ~MoreChildren)
  /\ \/ /\ Top.dir = 1
        /\ stack' = <<>>
        /\ UNCHANGED <<found, listed>>
     \/ /\ Top.dir # 1
        /\ stack' = Advance(Front(stack))
        /\ Visit(Top.dir)
  /\ UNCHANGED <<phase, tree, loop, req, reply>>

\* What each handler answers when its walk has returned.
Answer ==
  LET type == IF found = 0 THEN "none" ELSE node[found].type
      OfType(want, yes, no) == IF type = "none" THEN "EBADF" ELSE IF type = want THEN yes ELSE no
  IN  CASE req.op = "open"    -> OfType("file", "opened", "EISDIR")
        [] req.op = "opendir" -> OfType("dir", "opened", "ENOTDIR")
        [] req.op = "read"    -> OfType("file", "data", "ENOTDIR")
        [] req.op = "getattr" -> IF req.ino < 3 THEN "dir" ELSE type
        [] req.op = "lookup"  -> IF found = 0 THEN "ENOENT" ELSE "entry"
        [] req.op = "readdir" -> "entries"

\* Mutant: the loop does not look at the session after a request.
ReplyForever ==
  /\ loop = "walking" /\ stack = <<>>
  /\ reply' = [req |-> req, kind |-> Answer, ino |-> found, listed |-> listed]
  /\ loop' = "waiting"
  /\ req' = NoReq /\ found' = 0 /\ listed' = <<>>
  /\ UNCHANGED <<phase, tree, stack>>

\* Between two requests the loop sees that the session was told to exit; while it
\* waits for a request it does not.
Reply ==
  /\ loop = "walking" /\ stack = <<>>
  /\ reply' = [req |-> req, kind |-> Answer, ino |-> found, listed |-> listed]
  /\ loop' = IF phase = "exiting" THEN "absent" ELSE "waiting"
  /\ req' = NoReq /\ found' = 0 /\ listed' = <<>>
  /\ UNCHANGED <<phase, tree, stack>>

LoopStep == Descend \/ VisitFile \/ Ascend \/ Reply

Ops == {"lookup", "readdir", "getattr", "open", "opendir", "read"}
AnyRequest == \E op \in Ops, ino \in Inodes, name \in Names \cup {RootName} :
                Request(op, ino, name)

UserfsNext ==
  \/ Create \/ Exit \/ UserfsDestroy
  \/ \E p \in Paths : MountFile(p)
  \/ MountDir \/ MountAdd
  \/ AnyRequest
  \/ LoopStep

\* Both threads keep running; the kernel and the caller owe nothing.
UserfsFairness == WF_userfsVars(LoopStep) /\ WF_userfsVars(MountDir \/ MountAdd) /\ WF_userfsVars(UserfsDestroy)

UserfsSpec == UserfsInit /\ [][UserfsNext]_userfsVars /\ UserfsFairness

----------------------------------------------------------------------------
(* Properties *)

UserfsTypeOK ==
  /\ phase \in {"none", "online", "exiting"} /\ loop \in {"absent", "waiting", "walking"}
  /\ calls \in 0 .. MaxMounts /\ call.target \in 0 .. Len(node)
  /\ \A n \in Inodes : /\ node[n].type \in {"dir", "file"}
                       /\ ToSet(node[n].children) \subseteq Inodes
                       /\ n # 1 => /\ node[n].parent \in 1 .. n - 1
                                   /\ n \in ToSet(node[node[n].parent].children)
  /\ found \in Nat /\ \A i \in DOMAIN stack : stack[i].next \in Nat \ {0}

\* Every variable has its type, every node but the root has a parent directory among
\* whose children it is, and wherever the loop's walk stands, it stands on nodes that have
\* not been freed: userfs_destroy cannot pull the tree away under a request.
WalkOnLiveTree ==
  /\ UserfsTypeOK
  /\ loop = "walking" =>
       /\ phase # "none"
       /\ \A i \in DOMAIN stack : stack[i].dir \in Inodes /\ IsDir(stack[i].dir)
       /\ found \in Inodes \cup {0}

\* A node that was in the tree when a request came is found by it, however many
\* nodes the main thread has added since: open and read never answer EBADF for an
\* inode the kernel was told of, lookup never ENOENT for an entry that was there, and a
\* listing has every child that was there, each once.
NothingIsMissed ==
  /\ reply.kind # "EBADF"
  /\ reply.req.op = "getattr" => reply.kind # "none"
  /\ IsInjective(reply.listed)
  /\ \A n \in 1 .. reply.req.seen :
       /\ reply.kind = "ENOENT" => ~(node[n].parent = reply.req.ino /\ NameOf(n) = reply.req.name)
       /\ reply.kind = "entries" /\ node[n].parent = reply.req.ino => n \in ToSet(reply.listed)

\* A file is in the directory its mount path names.
FilesWhereMounted ==
  \A n \in Inodes :
    node[n].type = "file" => node[node[n].parent].path = Front(node[n].path)

\* Every request is answered, also while the tree grows under the walk.
RequestAnswered == loop = "walking" ~> loop # "walking"

\* A userfs_destroy that catches the loop in the middle of a request comes to its end:
\* the loop sees the exit after that request, and the join returns.
ExitDuringRequestEnds == phase = "exiting" /\ loop = "walking" ~> phase = "none"
=============================================================================
