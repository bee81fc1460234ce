-------------------------------- MODULE Vfs --------------------------------
(***************************************************************************)
(* Paths and nodes: the mount table and resolve (kernel/src/fs/vfs.rs),    *)
(* the directories of devfs and procfs, and the initrd tree that is built  *)
(* from a ustar archive (kernel/src/fs/initrd.rs, tools/make_initrd.py).   *)
(*                                                                         *)
(* A path is the sequence of names between its slashes; it may hold empty  *)
(* names ("/dev//null", a trailing slash).  The initrd tree is a sequence  *)
(* of nodes in the order they were pushed, each with its parent's index.   *)
(*                                                                         *)
(* An operator named X_Variant is a deliberately wrong variant of X, there *)
(* to show that the properties of the modules above notice it.             *)
(***************************************************************************)
EXTENDS Integers, Sequences, FiniteSetsExt

CONSTANT BLOCK    \* bytes of a tar block (512 in the code)

ASSUME BlockAssumption == BLOCK \in Nat \ {0}

Comps(path) == SelectSeq(path, LAMBDA c : c # "")
-----------------------------------------------------------------------------
(* ustar.  A header block carries a name, a size field and a type; a data  *)
(* block carries bytes.  A block that starts with a zero byte has no name. *)

\* A size field: octal digits, padding (8) that is ignored, or another
\* character (9) that ends it.
octal(field) ==
  LET ends == {i \in DOMAIN field : field[i] = 9}
      read == IF ends = {} THEN field ELSE SubSeq(field, 1, Min(ends) - 1)
      value[i \in Nat] ==
        IF i = 0 THEN 0
        ELSE IF read[i] < 8 THEN value[i - 1] * 8 + read[i] ELSE value[i - 1]
  IN  value[Len(read)]

Blocks_Floor(size) == size \div BLOCK
Blocks(size) == (size + BLOCK - 1) \div BLOCK

Bytes(tar, from) ==
  LET rest[i \in Nat] == IF i > Len(tar) THEN <<>> ELSE tar[i].bytes \o rest[i + 1]
  IN  rest[from]

\* The entries of an archive, up to its first block without a name.
parse(tar) ==
  LET walk[pos \in Nat] ==
        IF pos > Len(tar) \/ tar[pos].name = <<>> THEN <<>>
        ELSE LET size == octal(tar[pos].size)
                 body == Bytes(tar, pos + 1)
                 data == SubSeq(body, 1, Min({size, Len(body)}))
             IN  << [path |-> tar[pos].name, dir |-> tar[pos].dir,
                     data |-> IF tar[pos].dir THEN <<>> ELSE data] >>
                   \o walk[pos + 1 + Blocks(size)]
  IN  walk[1]

\* What add_bytes calls write: header, data padded to whole blocks, and two zero blocks.
Header(e) ==
  [name  |-> IF e.dir THEN Append(e.path, "") ELSE e.path, dir |-> e.dir,
   size  |-> <<Len(e.data) \div 8, Len(e.data) % 8, 8>>, bytes |-> <<"hdr">>]

Data(bytes) ==
  [name |-> <<"data">>, dir |-> FALSE, size |-> <<0, 8>>, bytes |-> bytes]

Zero == [name |-> <<>>, dir |-> FALSE, size |-> <<>>, bytes |-> <<>>]

Pack(files) ==
  LET Padded(d, i) == [k \in 1..BLOCK |-> IF i * BLOCK + k <= Len(d) THEN d[i * BLOCK + k] ELSE "0"]
      Number(d) == (Len(d) + BLOCK - 1) \div BLOCK
      Entry(e) == <<Header(e)>> \o [i \in 1..Number(e.data) |-> Data(Padded(e.data, i - 1))]
      rest[i \in Nat] == IF i > Len(files) THEN <<Zero, Zero>> ELSE Entry(files[i]) \o rest[i + 1]
  IN  rest[1]
-----------------------------------------------------------------------------
(* The initrd tree.                                                        *)

Node(name, dir, data, parent) ==
  [name |-> name, dir |-> dir, data |-> data, parent |-> parent]

Nodes == [name : STRING, dir : BOOLEAN, data : Seq(STRING), parent : Nat]

find_child(nodes, cur, name) ==
  LET same == {i \in DOMAIN nodes : nodes[i].parent = cur /\ nodes[i].name = name}
  IN  {i \in same : \A j \in same : i <= j}

\* Walk to the parent, creating directories on the way, and push the entry.
insert(nodes, e) ==
  LET comps == Comps(e.path)
      Down(w, c) ==
        LET child == find_child(w.nodes, w.cur, c)
        IN  IF child # {}
              THEN [w EXCEPT !.cur = CHOOSE i \in child : TRUE]
              ELSE [nodes |-> Append(w.nodes, Node(c, TRUE, <<>>, w.cur)),
                    cur   |-> Len(w.nodes) + 1]
      walk[i \in Nat] ==
        IF i = 0 THEN [nodes |-> nodes, cur |-> 1] ELSE Down(walk[i - 1], comps[i])
      at == walk[Len(comps) - 1]
  IN  IF comps = <<>> THEN nodes
      ELSE Append(at.nodes, Node(comps[Len(comps)], e.dir, e.data, at.cur))

from_tar(tar) ==
  LET entries == parse(tar)
      tree[i \in Nat] ==
        IF i = 0 THEN <<Node("/", TRUE, <<>>, 0)>> ELSE insert(tree[i - 1], entries[i])
  IN  tree[Len(entries)]
-----------------------------------------------------------------------------
(* Inodes.  `at` is the node of an initrd inode or the socket's slot.      *)

Inode(kind, at) == [kind |-> kind, at |-> at]

Devices_NoKbd == {"console", "null", "zero"}
Devices == {"console", "null", "zero", "kbd"}

mounts == << [prefix |-> <<"dev">>,    root |-> Inode("devdir", 0)],
             [prefix |-> <<"proc">>,   root |-> Inode("procdir", 0)],
             [prefix |-> <<"initrd">>, root |-> Inode("node", 1)] >>

\* Only directories have children; everything else answers NotFound.
lookup(nodes, dir, name) ==
  CASE dir.kind = "devdir" /\ name \in Devices -> Inode(name, 0)
    [] dir.kind = "procdir" /\ name \in {"meminfo", "uptime"} -> Inode("proc", 0)
    [] dir.kind = "node" /\ find_child(nodes, dir.at, name) # {} ->
         Inode("node", CHOOSE i \in find_child(nodes, dir.at, name) : TRUE)
    [] OTHER -> Inode("NotFound", 0)

list_dir(nodes, dir) ==
  CASE dir.kind = "devdir"  -> <<"console", "null", "zero", "kbd">>
    [] dir.kind = "procdir" -> <<"meminfo", "uptime">>
    [] dir.kind = "node"    ->
         LET kids == SelectSeq(nodes, LAMBDA n : n.parent = dir.at)
         IN  [i \in DOMAIN kids |-> kids[i].name]
    [] OTHER                -> <<>>    \* Err(NotDir)

\* What lookup and resolve answer: the inodes of a tree, and their errors.
Inodes(nodes) ==
  [kind : Devices \cup {"devdir", "procdir", "proc", "NotFound", "InvalidArg"}, at : {0}]
    \cup [kind : {"node"}, at : DOMAIN nodes]

covers(prefix, path) == Len(prefix) <= Len(path) /\ SubSeq(path, 1, Len(prefix)) = prefix

\* The longest covering mount, the later one of two of the same length.
longest_mount(path) ==
  LET hits == {i \in DOMAIN mounts : covers(mounts[i].prefix, path)}
      Beats(i, j) == \/ Len(mounts[i].prefix) > Len(mounts[j].prefix)
                     \/ Len(mounts[i].prefix) = Len(mounts[j].prefix) /\ i >= j
  IN  {i \in hits : \A j \in hits : Beats(i, j)}

\* `abs` says that the path starts with a slash.
resolve(nodes, abs, path) ==
  LET m == mounts[CHOOSE i \in longest_mount(path) : TRUE]
      rest == SubSeq(path, Len(m.prefix) + 1, Len(path))
      comps == Comps(rest)
      walk[i \in Nat] == IF i = 0 THEN m.root ELSE lookup(nodes, walk[i - 1], comps[i])
  IN  IF ~abs THEN Inode("InvalidArg", 0)
      ELSE IF longest_mount(path) = {} THEN Inode("NotFound", 0)
      ELSE walk[Len(comps)]
=============================================================================
