------------------------------ MODULE Ext2Dir ------------------------------
(* The records of one ext2 directory (fs/ext2/dir.c).  A directory is a      *)
(* sequence of blocks; a block is tiled by records, each a header (inode,    *)
(* record length, name) and the bytes of the name.  Space is counted in the  *)
(* 4-byte units that EXT2_DIR_REC_LEN rounds to.  A deletion leaves the      *)
(* bytes of the record where they are, and a reader (getdents) keeps only a  *)
(* byte position between two calls, so it may come back to such bytes.       *)
EXTENDS Integers, Sequences, FiniteSets, FiniteSetsExt

CONSTANTS
    Name,        \* the names that programs use in this directory
    RecLen,      \* EXT2_DIR_REC_LEN of each name, in units; also of the dots
    Entry,       \* the pairs <<name, inode>> that programs make entries of
    BLOCK_SIZE,  \* units in a block
    MaxBlocks    \* blocks the allocator can give to the directory

VARIABLES
    data,        \* the blocks of the directory: data[k][offset] is a unit
    scan         \* the reader: its position, and the names it has still to report

vars == <<data, scan>>

HEADER == 2      \* an entry begins with 8 bytes

Dots == {"dot", "dotdot"}
AllNames == Name \cup Dots
Ino == {e[2] : e \in Entry}

(* A unit that is not a header holds bytes of a name or zeroes; as a header  *)
(* it has no valid length.                                                   *)
Bytes == [ino |-> 0, len |-> 0, name |-> "dot"]

Header(ino, len, name) == [ino |-> ino, len |-> len, name |-> name]

ext2_dirent_init(b, o, ino, len, name) ==
    [u \in 0..BLOCK_SIZE-1 |->
        IF u = o THEN Header(ino, len, name)
        ELSE IF u \in o+1..o+RecLen[name]-1 THEN Bytes ELSE b[u]]

Zeroed == [u \in 0..BLOCK_SIZE-1 |-> Bytes]

(* The loop all of dir.c uses: offset + 8 <= BLOCK_SIZE, stop at a bad       *)
(* length.  The offsets of the records of block b.                           *)
Valid(b, o) == b[o].len >= HEADER /\ o + b[o].len <= BLOCK_SIZE

Records(b) ==
    LET from[o \in 0..BLOCK_SIZE] ==
            IF o + HEADER > BLOCK_SIZE THEN {}
            ELSE IF ~Valid(b, o) THEN {}
            ELSE {o} \cup from[o + b[o].len]
    IN  from[0]

ext2_match(de, name) == de.ino # 0 /\ de.name = name

(* The places <<block, offset>> of the records that satisfy a test, and the  *)
(* first of them in the order of the loops.                                  *)
Places(d) == UNION {{k} \X Records(d[k]) : k \in 1..Len(d)}

FirstOf(P) == CHOOSE p \in P : \A q \in P : p[1] < q[1] \/ (p[1] = q[1] /\ p[2] <= q[2])

At(d, p) == d[p[1]][p[2]]

ext2_find_entry(d, name) == {p \in Places(d) : ext2_match(At(d, p), name)}

Spare(de) == de.len - RecLen[de.name]

Fits(d, name) ==
    {p \in Places(d) : \/ At(d, p).ino = 0 /\ At(d, p).len >= RecLen[name]
                       \/ Spare(At(d, p)) >= RecLen[name]}

(* Into an unused record, keeping its length; or into the slack of a used    *)
(* one, which shrinks to what it needs.                                      *)
Reuse(b, o, name, ino) == ext2_dirent_init(b, o, ino, b[o].len, name)

Split(b, o, name, ino) ==
    ext2_dirent_init([b EXCEPT ![o].len = RecLen[b[o].name]],
                     o + RecLen[b[o].name], ino, Spare(b[o]), name)

InsertAt(d, p, name, ino) ==
    [d EXCEPT ![p[1]] = IF @[p[2]].ino = 0 THEN Reuse(@, p[2], name, ino)
                                           ELSE Split(@, p[2], name, ino)]

ext2_add_entry(d, name, ino) ==
    IF ext2_find_entry(d, name) # {} THEN d
    ELSE IF Fits(d, name) # {} THEN InsertAt(d, FirstOf(Fits(d, name)), name, ino)
    ELSE IF Len(d) = MaxBlocks THEN d
    ELSE Append(d, ext2_dirent_init(Zeroed, 0, ino, BLOCK_SIZE, name))

(* The record before the deleted one swallows it; the first record of a      *)
(* block is marked unused instead.                                           *)
Unlinked(b, o) ==
    IF o = 0 THEN [b EXCEPT ![0].ino = 0]
    ELSE [b EXCEPT ![Max({r \in Records(b) : r < o})].len = @ + b[o].len]

ext2_delete_entry(d, name) ==
    IF ext2_find_entry(d, name) = {} THEN d
    ELSE LET p == FirstOf(ext2_find_entry(d, name))
         IN  [d EXCEPT ![p[1]] = Unlinked(@, p[2])]

ext2_replace_entry(d, name, ino) ==
    IF ext2_find_entry(d, name) = {} THEN d
    ELSE LET p == FirstOf(ext2_find_entry(d, name))
         IN  [d EXCEPT ![p[1]][p[2]].ino = ino]

(* Unlike the other searches this one does not ask for a used record.        *)
ext2_set_dotdot(d, ino) ==
    LET P == {p \in Places(d) : At(d, p).name = "dotdot"}
    IN  IF P = {} THEN d ELSE [d EXCEPT ![FirstOf(P)[1]][FirstOf(P)[2]].ino = ino]

ext2_dir_is_empty(d) ==
    \A p \in Places(d) : At(d, p).ino # 0 => At(d, p).name \in Dots

ext2_make_empty_dir(self, parent) ==
    <<ext2_dirent_init(ext2_dirent_init(Zeroed, 0, self, RecLen["dot"], "dot"),
                       RecLen["dot"], parent, BLOCK_SIZE - RecLen["dot"], "dotdot")>>

----------------------------------------------------------------------------
NameOf(d) == {At(d, p).name : p \in {q \in Places(d) : At(d, q).ino # 0}}

Stopped(state) == [at |-> 0, owed |-> {}, state |-> state]

Init == data = ext2_make_empty_dir(1, 1) /\ scan = Stopped("idle")

(* What a change of the directory means to a reader: a name that goes away   *)
(* is no longer owed.                                                        *)
Changed(d) ==
    /\ data' = d
    /\ scan' = [scan EXCEPT !.owed = @ \cap NameOf(d)]

Add(name, ino) ==
    /\ ext2_find_entry(data, name) = {}
    /\ Changed(ext2_add_entry(data, name, ino))

Delete(name) ==
    /\ ext2_find_entry(data, name) # {}
    /\ Changed(ext2_delete_entry(data, name))

Replace(name, ino) ==
    /\ ext2_find_entry(data, name) # {}
    /\ Changed(ext2_replace_entry(data, name, ino))

SetDotdot(ino) == Changed(ext2_set_dotdot(data, ino))

(* opendir or a seek to the start: every name there now is owed.             *)
Rewind ==
    /\ scan' = [at |-> 0, owed |-> NameOf(data), state |-> "reading"]
    /\ UNCHANGED data

(* One round of the loop of ext2_readdir at the byte position pos, which a   *)
(* full user buffer can stop between any two rounds.                         *)
Reported(de, pos) ==
    [at    |-> pos + de.len,
     owed  |-> IF de.ino = 0 THEN scan.owed ELSE scan.owed \ {de.name},
     state |-> "reading"]

Round(b, o, pos) ==
    IF o + HEADER > BLOCK_SIZE \/ ~Valid(b, o) THEN Stopped("EIO")
    ELSE Reported(b[o], pos)

ext2_readdir ==
    /\ scan.state = "reading"
    /\ UNCHANGED data
    /\ \/ /\ scan.at >= Len(data) * BLOCK_SIZE
          /\ scan' = [scan EXCEPT !.state = "end"]
       \/ /\ scan.at < Len(data) * BLOCK_SIZE
          /\ scan' = Round(data[scan.at \div BLOCK_SIZE + 1], scan.at % BLOCK_SIZE, scan.at)

Next ==
    \/ \E e \in Entry : \/ e[1] \in Name /\ (Add(e[1], e[2]) \/ Replace(e[1], e[2]))
                        \/ e[1] = "dotdot" /\ SetDotdot(e[2])
    \/ \E name \in Name : Delete(name)
    \/ Rewind
    \/ ext2_readdir

Spec == Init /\ [][Next]_vars

----------------------------------------------------------------------------
TypeOK ==
    /\ data \in Seq([0..BLOCK_SIZE-1 -> [ino : Ino \cup {0}, len : 0..BLOCK_SIZE, name : AllNames]])
    /\ scan.at \in 0..MaxBlocks*BLOCK_SIZE

(* The records of every block tile it from the first byte to the last, each  *)
(* has room for its own name, and no name is in use twice: the loops of      *)
(* dir.c never stop early, so no entry is out of their reach.                *)
RecordsTile ==
    /\ \A k \in 1..Len(data) : \A o \in Records(data[k]) :
          /\ data[k][o].len >= RecLen[data[k][o].name]
          /\ o + data[k][o].len = BLOCK_SIZE \/ o + data[k][o].len \in Records(data[k])
    /\ \A k \in 1..Len(data) : 0 \in Records(data[k])
    /\ \A name \in AllNames : Cardinality(ext2_find_entry(data, name)) <= 1
    /\ Dots \subseteq NameOf(data)
    /\ ext2_dir_is_empty(data) <=> NameOf(data) = Dots

(* A reader that reaches the end has been given every name that was in the   *)
(* directory from its start to its end, whatever was added and deleted while *)
(* it read.                                                                  *)
ScanComplete == scan.state = "end" => scan.owed = {}

(* What lookups see is a map from names to inodes.                           *)
View ==
    LET used == {p \in Places(data) : At(data, p).ino # 0}
        named(name) == {At(data, p).ino : p \in {q \in used : At(data, q).name = name}}
    IN  [name \in AllNames |-> IF named(name) = {} THEN 0 ELSE Max(named(name))]

Map == INSTANCE NameMap WITH map <- View

(* Adding, deleting and replacing an entry change that one name and nothing  *)
(* else: no insertion into slack or reused space damages a neighbour.        *)
ImplementsNameMap == Map!Spec
=============================================================================
