------------------------------- MODULE AesFile -------------------------------
(***************************************************************************)
(* Encrypted files of supernx: src/src/supernx/fs_fmt/aes_file.c under the *)
(* offset files of offset_file.c, as content_archive.c reads them and      *)
(* ncz_create of nsz.c writes them.                                        *)
(*                                                                         *)
(* A byte is a pair: the place its plaintext came from, and the set of     *)
(* masks on it.  Applying a mask that is there takes it away, as XOR does. *)
(* In CTR the mask of a byte is given by the counter, the initial one plus *)
(* the blocks passed since, and its place in the block; in XTS by the      *)
(* sector's tweak and its place in the sector.  Keys and the upper half of *)
(* the counter are those of the file throughout.  The assertion around     *)
(* mbedtls_cipher_set_iv is evaluated, as in the debug build.              *)
(***************************************************************************)
EXTENDS Integers, Sequences

CONSTANTS
  Block,     \* ctr_block_size and mbedtls's block size, a power of two
  Sector,    \* the sector size, 0x200
  Word,      \* one more than the largest size_t
  Length,    \* the bytes of the parent file
  Headers,   \* the sectors at its start that are encrypted with XTS
  Sections,  \* the sections ncz_create encrypts, in order
  Bases,     \* sector_offset and sector_pad of the file systems in an archive
  Views      \* start and size of the offset files over them

ASSUME BlockAssumption == Block \in Nat \ {0} /\ Sector \in Nat \ {0} /\ Sector % Block = 0
ASSUME LengthAssumption ==
  /\ Length \in Nat /\ Length % Block = 0
  /\ Headers \in Nat /\ 2 <= Headers /\ Headers * Sector <= Length
  /\ Word \in Nat /\ 2 * Sector < Word

\* The sections lie behind the header and apart from each other ...
ASSUME SectionAssumption ==
  /\ Sections \in Seq([offset : Nat, size : Nat])
  /\ \A i \in DOMAIN Sections :
       /\ Sections[i].offset % Block = 0 /\ Sections[i].size % Block = 0
       /\ Headers * Sector <= Sections[i].offset
       /\ Sections[i].offset + Sections[i].size <= Length
  /\ \A i, j \in DOMAIN Sections :
       i < j => \/ Sections[i].offset + Sections[i].size <= Sections[j].offset
                \/ Sections[j].offset + Sections[j].size <= Sections[i].offset

Encrypted(p) ==
  \E i \in DOMAIN Sections :
    p \in Sections[i].offset .. Sections[i].offset + Sections[i].size - 1

\* ... and hold the file systems that are read.
ASSUME ViewAssumption ==
  /\ Bases \subseteq [sector_offset : Nat, sector_pad : Nat]
  /\ Views \subseteq [start : Nat, size : Nat]
  /\ \A b \in Bases, v \in Views :
       LET first == b.sector_offset * Sector + b.sector_pad + v.start
       IN  \A p \in first .. first + v.size - 1 : Encrypted(p)

VARIABLES
  parent,     \* the parent file: a function from places to bytes
  section,    \* the next section to encrypt
  base,       \* the file system being read
  buffer,     \* the size of the buffer of each open aes_file_t
  encBuffer,  \* the size of the enc_buffer of the one that writes
  asked,      \* the last read of the parent that the read in progress made
  call,       \* the read in progress
  out         \* what it has put out so far

aesFileVars == <<parent, section, base, buffer, encBuffer, asked, call, out>>

Files == {"xts", "ctr", "ncz"}
Idle == [kind |-> "none"]
NoRead == [file |-> "ctr", offset |-> 0, size |-> 0]
Places == 0 .. Length - 1

Masked(byte, mask) == <<byte[1], (byte[2] \ {mask}) \cup ({mask} \ byte[2])>>

\* The decryption of a CTR stream from the block the counter names, and of one XTS sector.
Ctr(bytes, counter) ==
  [i \in DOMAIN bytes |-> Masked(bytes[i], <<"ctr", counter + i \div Block, i % Block>>)]
Xts(bytes, tweak) == [i \in DOMAIN bytes |-> Masked(bytes[i], <<"xts", tweak, i>>)]

\* fs_read of the parent
Stored(offset, size) == [i \in 0 .. size - 1 |-> parent[offset + i]]

\* roundto: v + n with the bit n cleared
RoundTo(v, n) == IF ((v + n) \div n) % 2 = 1 THEN v ELSE v + n

Grown(had, size) == IF size > had THEN RoundTo(size, Block) ELSE had

\* aes_file_update of a file open for reading, but for the decryption
Update(f, size, offset) ==
  /\ asked' = [file |-> f, offset |-> offset, size |-> size]
  /\ buffer' = [buffer EXCEPT ![f] = Grown(@, size)]

\* Put bytes into the output from position k on.
Put(bytes, k) ==
  [i \in DOMAIN out \cup { k + j : j \in DOMAIN bytes } |->
     IF i - k \in DOMAIN bytes THEN bytes[i - k] ELSE out[i]]

\* The parent before ncz_create has encrypted its sections: headers come as they were.
Decompressed ==
  [p \in Places |->
     <<p, IF p < Headers * Sector THEN {<<"xts", p \div Sector, p % Sector>>} ELSE {}>>]

AesFileInit ==
  /\ parent = Decompressed /\ section = 1
  /\ base \in Bases
  /\ buffer = [f \in Files |-> 0] /\ encBuffer = 0
  /\ asked = NoRead
  /\ call = Idle /\ out = << >>

----------------------------------------------------------------------------
(* Writing *)

\* Mutant: the counter starts anew with every section.
EncryptSectionFromZero ==
  /\ section <= Len(Sections)
  /\ LET s == Sections[section]
         bytes == Ctr(Stored(s.offset, s.size), 0)
     IN  /\ parent' = [p \in Places |-> IF p - s.offset \in DOMAIN bytes
                                        THEN bytes[p - s.offset] ELSE parent[p]]
         /\ encBuffer' = Grown(encBuffer, s.size)
         /\ buffer' = [buffer EXCEPT !["ncz"] = Grown(@, s.size)]
  /\ section' = section + 1
  /\ UNCHANGED <<base, asked, call, out>>

\* fs_aes_file_write without an input, of one section: read, encrypt, write back
EncryptSection ==
  /\ section <= Len(Sections)
  /\ LET s == Sections[section]
         bytes == Ctr(Stored(s.offset, s.size), s.offset \div Block)
     IN  /\ parent' = [p \in Places |-> IF p - s.offset \in DOMAIN bytes
                                        THEN bytes[p - s.offset] ELSE parent[p]]
         /\ encBuffer' = Grown(encBuffer, s.size)
         /\ buffer' = [buffer EXCEPT !["ncz"] = Grown(@, s.size)]
  /\ section' = section + 1
  /\ UNCHANGED <<base, asked, call, out>>

----------------------------------------------------------------------------
(* Reading.  An archive is opened once ncz_create is done. *)

Start(c) ==
  /\ section > Len(Sections) /\ call = Idle
  /\ call' = c /\ out' = << >>
  /\ UNCHANGED <<parent, section, base, buffer, encBuffer, asked>>

\* fs_offset_file_read and fs_aes_file_read: the place in the parent, from the place in
\* the offset file
ReadView(v, offset, size) ==
  /\ offset + size <= v.size
  /\ LET at == base.sector_offset * Sector + base.sector_pad + v.start + offset
     IN  Start([kind |-> "ctr", at |-> at, size |-> size, done |-> 0])

\* The reads content_archive.c makes of the XTS file: the header, then one sector each.
HeaderReads == { <<0, 2 * Sector>> } \cup { <<i * Sector, Sector>> : i \in 2 .. Headers - 1 }

ReadHeader(r) ==
  Start([kind |-> "xts", at |-> r[1], size |-> r[2],
         offset |-> r[1], it |-> 0, tweak |-> r[1] \div Sector])

Return ==
  /\ call.kind = "done"
  /\ call' = Idle /\ out' = << >> /\ asked' = NoRead
  /\ UNCHANGED <<parent, section, base, buffer, encBuffer>>

Done == [kind |-> "done", at |-> call.at, size |-> call.size]

\* One call of aes_file_read_ctr: what is left to read starts at offset.
CtrOffset == call.at + call.done
CtrLeft == call.size - call.done

\* ... at the start of a block: all of it at once
CtrAligned ==
  /\ call.kind = "ctr" /\ CtrOffset % Block = 0
  /\ Update("ctr", CtrLeft, CtrOffset)
  /\ out' = Put(Ctr(Stored(CtrOffset, CtrLeft), CtrOffset \div Block), call.done)
  /\ call' = Done
  /\ UNCHANGED <<parent, section, base, encBuffer>>

\* Mutant: a read that ends with its first block is taken to go on.
CtrWithinStrictly ==
  /\ call.kind = "ctr" /\ CtrOffset % Block # 0
  /\ CtrLeft + (CtrOffset % Block) < Block

\* The rest ends in the block it starts in.
CtrWithin ==
  /\ call.kind = "ctr" /\ CtrOffset % Block # 0
  /\ CtrLeft + (CtrOffset % Block) <= Block

\* Mutant: what the first block gave is not counted.
CtrUnalignedAgain ==
  /\ call.kind = "ctr" /\ CtrOffset % Block # 0
  /\ LET align == CtrOffset % Block
         start_block == Ctr(Stored(CtrOffset - align, Block), (CtrOffset - align) \div Block)
         keep == IF CtrWithin THEN CtrLeft ELSE Block - align
     IN  /\ Update("ctr", Block, CtrOffset - align)
         /\ out' = Put([i \in 0 .. keep - 1 |-> start_block[align + i]], call.done)
         /\ call' = IF CtrWithin THEN Done ELSE call
  /\ UNCHANGED <<parent, section, base, encBuffer>>

\* ... inside a block: that block through start_block, of which the rest is kept; the
\* recursive call goes on behind it.
CtrUnaligned ==
  /\ call.kind = "ctr" /\ CtrOffset % Block # 0
  /\ LET align == CtrOffset % Block
         from == CtrOffset - align
         start_block == Ctr(Stored(from, Block), from \div Block)
         keep == IF CtrWithin THEN CtrLeft ELSE Block - align
     IN  /\ Update("ctr", Block, from)
         /\ out' = Put([i \in 0 .. keep - 1 |-> start_block[align + i]], call.done)
         /\ call' = IF CtrWithin THEN Done ELSE [call EXCEPT !.done = @ + keep]
  /\ UNCHANGED <<parent, section, base, encBuffer>>

\* The condition of the loop of aes_file_read_xts: offset moves, sector_end does not, and
\* the difference is unsigned.
XtsGoesOn == call.it <= (call.at + call.size - call.offset) % Word

XtsSector ==
  /\ call.kind = "xts" /\ XtsGoesOn
  /\ Update("xts", Sector, call.offset)
  /\ out' = Put(Xts(Stored(call.offset, Sector), call.tweak), call.it)
  /\ call' = [call EXCEPT !.offset = @ + Sector, !.it = @ + Sector, !.tweak = @ + 1]
  /\ UNCHANGED <<parent, section, base, encBuffer>>

XtsEnd ==
  /\ call.kind = "xts" /\ ~XtsGoesOn
  /\ call' = Done
  /\ UNCHANGED <<parent, section, base, buffer, encBuffer, asked, out>>

Step == CtrAligned \/ CtrUnaligned \/ XtsSector \/ XtsEnd \/ Return

AesFileNext ==
  \/ EncryptSection
  \/ \E v \in Views : \E offset \in 0 .. v.size - 1, size \in 1 .. v.size : ReadView(v, offset, size)
  \/ \E r \in HeaderReads : ReadHeader(r)
  \/ Step

AesFileSpec == AesFileInit /\ [][AesFileNext]_aesFileVars /\ WF_aesFileVars(Step)

----------------------------------------------------------------------------
(* Properties *)

TypeOK ==
  /\ DOMAIN parent = Places /\ section \in 1 .. Len(Sections) + 1 /\ base \in Bases
  /\ buffer \in [Files -> Nat] /\ encBuffer \in Nat
  /\ call.kind \in {"none", "ctr", "xts", "done"}
  /\ \A i \in DOMAIN out : out[i][1] \in Places

\* A read gives the plaintext of exactly the bytes asked for, at any offset and of any
\* size, over block and sector borders, also of sections ncz_create has encrypted.
ReadGivesPlain ==
  call.kind = "done" => out = [i \in 0 .. call.size - 1 |-> <<call.at + i, {}>>]

\* Every variable has its type; nothing is put out beyond the bytes asked for, and nothing is read from the parent
\* beyond its end, nor more than the buffer holds; an empty read, which the host file
\* takes for a failure, is never made.
AccessesInside ==
  /\ TypeOK
  /\ call # Idle => DOMAIN out \subseteq 0 .. call.size - 1
  /\ asked.offset + asked.size <= Length
  /\ asked.size <= buffer[asked.file]
  /\ call.kind = "done" => asked.size > 0

\* A read returns.
ReadEnds == (call # Idle) ~> (call = Idle)
=============================================================================
