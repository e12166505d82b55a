---------------------------- MODULE SupernxProofs ----------------------------
(***************************************************************************)
(* Of supernx.  Its sessions: for any packages and firmware that are what  *)
(* SessionsAssumption says, nothing is used or closed after it was closed, *)
(* every open directory can be read down to the mapped game, and a session *)
(* that ends has closed all but tickets it dropped.  Its encrypted files:  *)
(* for any sizes of blocks and sectors, any layout of sections and any     *)
(* place and size of a read, an encrypted file gives the plaintext of      *)
(* exactly the bytes asked for, and touches nothing outside its buffer and *)
(* its parent.                                                             *)
(***************************************************************************)
EXTENDS ArchivesFacts, AesFile

(* Encrypted files *)

InSection(p, i) == p \in Sections[i].offset .. Sections[i].offset + Sections[i].size - 1

\* The masks on the byte at place p when the sections before s are encrypted.
Masks(p, s) ==
  IF p < Headers * Sector THEN {<<"xts", p \div Sector, p % Sector>>}
  ELSE IF \E i \in DOMAIN Sections : i < s /\ InSection(p, i)
       THEN {<<"ctr", p \div Block, p % Block>>} ELSE {}

\* The parent holds every byte at its place, masked.
ParentInv == DOMAIN parent = Places /\ \A p \in Places : parent[p] = <<p, Masks(p, section)>>

TypeInv ==
  /\ section \in 1 .. Len(Sections) + 1 /\ base \in Bases
  /\ buffer \in [Files -> Nat] /\ encBuffer \in Nat

\* The last read of the parent was inside it and filled no more than the buffer.
AskedInv ==
  /\ asked \in [file : Files, offset : Nat, size : Nat]
  /\ asked.offset + asked.size <= Length
  /\ asked.size <= buffer[asked.file]

\* The plaintext of n bytes, and that it has been put out and nothing else.
Plain(at, n) == [i \in 0 .. n - 1 |-> <<at + i, {}>>]
Gives(at, n) == out = Plain(at, n)

\* A read in CTR is of encrypted bytes, of which some are left.
CtrInv(c) ==
  /\ c \in [kind : {"ctr"}, at : Nat, size : Nat, done : Nat]
  /\ c.done < c.size /\ Gives(c.at, c.done)
  /\ \A p \in c.at .. c.at + c.size - 1 : Encrypted(p)

\* A read in XTS is of one or two whole sectors of the header.
XtsInv(c) ==
  /\ c \in [kind : {"xts"}, at : Nat, size : Nat, offset : Nat, it : Nat, tweak : Nat]
  /\ c.size \in {Sector, 2 * Sector} /\ c.it \in {0, Sector, 2 * Sector} /\ c.it <= c.size
  /\ c.offset = c.at + c.it /\ c.at + c.size <= Headers * Sector
  /\ c.offset % Sector = 0 /\ c.tweak = c.offset \div Sector
  /\ Gives(c.at, c.it)
  /\ c.it > 0 => asked.size > 0

\* A read that is done has given all.
DoneInv(c) ==
  /\ c \in [kind : {"done"}, at : Nat, size : Nat]
  /\ c.size > 0 /\ c.at + c.size <= Length /\ Gives(c.at, c.size) /\ asked.size > 0

CallInv ==
  \/ call = Idle /\ out = <<>>
  \/ section = Len(Sections) + 1 /\ (CtrInv(call) \/ XtsInv(call) \/ DoneInv(call))

IInv == ParentInv /\ TypeInv /\ AskedInv /\ CallInv

----------------------------------------------------------------------------
(* Bytes *)

\* The sections are numbered from 1, and have places and sizes.
LEMMA SectionTypes ==
  /\ Len(Sections) \in Nat /\ DOMAIN Sections = 1 .. Len(Sections)
  /\ \A i \in DOMAIN Sections : Sections[i].offset \in Nat /\ Sections[i].size \in Nat
<1>1. Sections \in Seq([offset : Nat, size : Nat])
  BY SectionAssumption
<1>2. Len(Sections) \in Nat /\ DOMAIN Sections = 1 .. Len(Sections)
  BY <1>1
<1>3. \A i \in 1 .. Len(Sections) : Sections[i] \in [offset : Nat, size : Nat]
  BY <1>1, ElementOfSeq
<1> QED BY <1>2, <1>3

\* Encrypted bytes are in the file and behind its header.
LEMMA EncryptedPlace ==
  ASSUME NEW p \in Int, Encrypted(p)
  PROVE  p \in Places /\ ~(p < Headers * Sector)
<1>1. PICK i \in DOMAIN Sections :
        p \in Sections[i].offset .. Sections[i].offset + Sections[i].size - 1
  BY DEF Encrypted
<1>2. Sections[i].offset \in Nat /\ Sections[i].size \in Nat
  BY SectionTypes
<1>3. Headers * Sector <= Sections[i].offset /\ Sections[i].offset + Sections[i].size <= Length
  BY SectionAssumption
<1>4. Headers * Sector \in Nat /\ Length \in Nat
  BY BlockAssumption, LengthAssumption, Products
<1> QED BY <1>1, <1>2, <1>3, <1>4 DEF Places

\* A mask applied to a byte without masks is on it, and applied again is off.
LEMMA MaskedTwice ==
  ASSUME NEW p, NEW mask
  PROVE  Masked(<<p, {}>>, mask) = <<p, {mask}>> /\ Masked(<<p, {mask}>>, mask) = <<p, {}>>
BY DEF Masked

\* Decryption in CTR, from the start of a block, gives the plaintext of an encrypted byte.
LEMMA CtrGivesPlain ==
  ASSUME ParentInv, section = Len(Sections) + 1,
         NEW a \in Nat, a % Block = 0, NEW i \in Nat, Encrypted(a + i)
  PROVE  Masked(parent[a + i], <<"ctr", (a \div Block) + (i \div Block), i % Block>>)
           = <<a + i, {}>>
<1>1. (a + i) \div Block = (a \div Block) + (i \div Block) /\ (a + i) % Block = i % Block
  BY BlockAssumption, MultipleAdded
<1>2. a + i \in Places /\ ~(a + i < Headers * Sector)
  BY EncryptedPlace
<1>3. \E j \in DOMAIN Sections : j < section /\ InSection(a + i, j)
  BY SectionTypes DEF Encrypted, InSection
<1>4. parent[a + i] = <<a + i, Masks(a + i, section)>>
  BY <1>2 DEF ParentInv
<1>5. Masks(a + i, section) = {<<"ctr", (a + i) \div Block, (a + i) % Block>>}
  BY <1>2, <1>3 DEF Masks
<1> QED BY <1>1, <1>4, <1>5, MaskedTwice, Zenon

\* Decryption in XTS of a sector of the header gives its plaintext.
LEMMA XtsGivesPlain ==
  ASSUME ParentInv, NEW a \in Nat, a % Sector = 0, NEW i \in 0 .. Sector - 1,
         a + i < Headers * Sector
  PROVE  Masked(parent[a + i], <<"xts", a \div Sector, i>>) = <<a + i, {}>>
<1>1. (a + i) \div Sector = (a \div Sector) + (i \div Sector) /\ (a + i) % Sector = i % Sector
  <2>1. i \in Nat /\ Sector \in Nat \ {0}
    BY BlockAssumption
  <2> QED BY <2>1, MultipleAdded
<1>2. i % Sector = i /\ i \div Sector = 0
  <2>1. (0 * Sector + i) \div Sector = 0
    BY BlockAssumption, QuotientIsUnique
  <2>2. 0 * Sector + i = i
    BY BlockAssumption
  <2> QED BY <2>1, <2>2, BlockAssumption, SmallRemainder
<1>3. a \div Sector \in Nat
  BY BlockAssumption, Division
<1>4. (a + i) \div Sector = a \div Sector /\ (a + i) % Sector = i
  BY <1>1, <1>2, <1>3
<1>5. a + i \in Places
  <2>1. Headers * Sector \in Nat
    BY BlockAssumption, LengthAssumption, Products
  <2> QED BY <2>1, BlockAssumption, LengthAssumption DEF Places
<1>6. parent[a + i] = <<a + i, {<<"xts", (a + i) \div Sector, (a + i) % Sector>>}>>
  BY <1>5 DEF ParentInv, Masks
<1> QED BY <1>4, <1>6, MaskedTwice, Zenon

\* What is put behind n bytes that have been given makes them more.
LEMMA PutGivesMore ==
  ASSUME NEW at \in Nat, NEW n \in Nat, Gives(at, n), NEW m \in Nat
  PROVE  Put(Plain(at + n, m), n) = Plain(at, n + m)
<1> DEFINE bytes == Plain(at + n, m)
<1>0. DOMAIN bytes = 0 .. m - 1 /\ \A j \in 0 .. m - 1 : bytes[j] = <<at + n + j, {}>>
  BY DEF Plain
<1> HIDE DEF bytes
<1>1. DOMAIN out = 0 .. n - 1 /\ \A i \in 0 .. n - 1 : out[i] = <<at + i, {}>>
  BY DEF Gives, Plain
<1>2. DOMAIN out \cup {n + j : j \in DOMAIN bytes} = 0 .. n + m - 1
  <2>1. ASSUME NEW i \in 0 .. n + m - 1
        PROVE  i \in DOMAIN out \cup {n + j : j \in DOMAIN bytes}
    <3>1. CASE i < n
      BY <1>1, <3>1
    <3>2. CASE ~(i < n)
      <4>1. i - n \in DOMAIN bytes /\ i = n + (i - n)
        BY <1>0, <3>2
      <4> QED BY <4>1
    <3> QED BY <3>1, <3>2
  <2>2. ASSUME NEW i \in DOMAIN out \cup {n + j : j \in DOMAIN bytes}
        PROVE  i \in 0 .. n + m - 1
    BY <1>0, <1>1
  <2> QED BY <2>1, <2>2
<1>3. ASSUME NEW i \in 0 .. n + m - 1
      PROVE  (IF i - n \in DOMAIN bytes THEN bytes[i - n] ELSE out[i]) = <<at + i, {}>>
  <2>1. CASE i < n
    BY <1>0, <1>1, <2>1
  <2>2. CASE ~(i < n)
    <3>1. i - n \in 0 .. m - 1 /\ at + n + (i - n) = at + i
      BY <2>2
    <3> QED BY <1>0, <3>1
  <2> QED BY <2>1, <2>2
<1>4. Put(bytes, n) =
        [i \in 0 .. n + m - 1 |-> IF i - n \in DOMAIN bytes THEN bytes[i - n] ELSE out[i]]
  BY <1>2 DEF Put
<1>5. [i \in 0 .. n + m - 1 |-> IF i - n \in DOMAIN bytes THEN bytes[i - n] ELSE out[i]]
        = [i \in 0 .. n + m - 1 |-> <<at + i, {}>>]
  BY <1>3, Zenon
<1>6. Put(bytes, n) = [i \in 0 .. n + m - 1 |-> <<at + i, {}>>]
  BY <1>4, <1>5, Zenon
<1> QED BY <1>6 DEF Plain, bytes

\* aes_file_update makes its buffer large enough for what it reads.
LEMMA UpdateKeeps ==
  ASSUME TypeInv, NEW f \in Files, NEW size \in Nat, NEW offset \in Nat,
         offset + size <= Length, Update(f, size, offset)
  PROVE  AskedInv' /\ buffer' \in [Files -> Nat] /\ asked'.size = size
<1>1. \A had \in Nat : Grown(had, size) \in Nat /\ Grown(had, size) >= size
  BY BlockAssumption DEF Grown, RoundTo
<1>2. asked' = [file |-> f, offset |-> offset, size |-> size]
      /\ buffer' = [buffer EXCEPT ![f] = Grown(@, size)]
  BY DEF Update
<1>3. buffer[f] \in Nat
  BY DEF TypeInv
<1>4. buffer' \in [Files -> Nat] /\ buffer'[f] = Grown(buffer[f], size)
  BY <1>1, <1>2, <1>3 DEF TypeInv
<1> QED BY <1>1, <1>2, <1>3, <1>4 DEF AskedInv

----------------------------------------------------------------------------
(* Steps *)

\* The step keeps the parent.
LEMMA ParentStays ==
  ASSUME ParentInv, parent' = parent, section' = section
  PROVE  ParentInv'
BY DEF ParentInv, Masks

\* Nothing is encrypted and nothing read at first.
LEMMA InitHolds == AesFileInit => IInv
<1> SUFFICES ASSUME AesFileInit PROVE IInv
  OBVIOUS
<1>1. ParentInv
  <2>1. ASSUME NEW p \in Places
        PROVE  parent[p] = <<p, Masks(p, 1)>>
    <3>1. ~\E i \in DOMAIN Sections : i < 1 /\ InSection(p, i)
      BY SectionTypes
    <3>2. parent[p] =
            <<p, IF p < Headers * Sector THEN {<<"xts", p \div Sector, p % Sector>>} ELSE {}>>
      BY DEF AesFileInit, Decompressed
    <3> QED BY <3>1, <3>2 DEF Masks
  <2>2. DOMAIN parent = Places /\ section = 1
    BY DEF AesFileInit, Decompressed
  <2> QED BY <2>1, <2>2 DEF ParentInv
<1>2. TypeInv
  BY SectionTypes DEF AesFileInit, TypeInv
<1>3. AskedInv
  BY LengthAssumption DEF AesFileInit, AskedInv, NoRead, Files
<1>4. CallInv
  BY DEF AesFileInit, CallInv
<1> QED BY <1>1, <1>2, <1>3, <1>4 DEF IInv

\* ncz_create puts one mask on every byte of a section, which had none.
LEMMA EncryptKeeps ==
  ASSUME IInv, EncryptSection
  PROVE  IInv'
<1> DEFINE s == Sections[section]
           bytes == Ctr(Stored(s.offset, s.size), s.offset \div Block)
<1>1. section \in DOMAIN Sections /\ section <= Len(Sections) /\ section \in 1 .. Len(Sections)
  BY SectionTypes DEF EncryptSection, IInv, TypeInv
<1>2. /\ s.offset \in Nat /\ s.size \in Nat /\ s.offset % Block = 0
      /\ Headers * Sector <= s.offset /\ s.offset + s.size <= Length
      /\ Headers * Sector \in Nat
  BY <1>1, SectionTypes, SectionAssumption, BlockAssumption, LengthAssumption, Products
<1>3. /\ parent' = [p \in Places |-> IF p - s.offset \in DOMAIN bytes
                                     THEN bytes[p - s.offset] ELSE parent[p]]
      /\ section' = section + 1 /\ encBuffer' = Grown(encBuffer, s.size)
      /\ buffer' = [buffer EXCEPT !["ncz"] = Grown(@, s.size)]
      /\ UNCHANGED <<base, asked, call, out>>
  BY DEF EncryptSection
<1>4. call = Idle /\ out = <<>>
  BY <1>1, SectionTypes DEF IInv, CallInv
<1>5. DOMAIN bytes = 0 .. s.size - 1
  BY DEF Ctr, Stored
<1>6. ASSUME NEW p \in Places
      PROVE  parent'[p] = <<p, Masks(p, section + 1)>>
  <2> DEFINE i == p - s.offset
  <2>1. parent[p] = <<p, Masks(p, section)>> /\ p \in Nat
    BY LengthAssumption DEF IInv, ParentInv, Places
  <2>2. CASE InSection(p, section)
    <3>1. i \in 0 .. s.size - 1 /\ s.offset + i = p /\ ~(p < Headers * Sector)
      BY <1>2, <2>1, <2>2 DEF InSection
    <3>2. ~\E j \in DOMAIN Sections : j < section /\ InSection(p, j)
      <4> SUFFICES ASSUME NEW j \in DOMAIN Sections, j < section, InSection(p, j)
                   PROVE  FALSE
        OBVIOUS
      <4>1. \/ Sections[j].offset + Sections[j].size <= s.offset
            \/ s.offset + s.size <= Sections[j].offset
        BY <1>1, SectionAssumption
      <4>2. Sections[j].offset \in Nat /\ Sections[j].size \in Nat
        BY SectionTypes
      <4> QED BY <1>2, <2>1, <2>2, <4>1, <4>2 DEF InSection
    <3>3. parent[p] = <<p, {}>>
      BY <2>1, <3>1, <3>2 DEF Masks
    <3>4. bytes[i] = Masked(parent[p], <<"ctr", (s.offset \div Block) + (i \div Block), i % Block>>)
      <4>1. Stored(s.offset, s.size)[i] = parent[p]
        BY <3>1 DEF Stored
      <4>2. i \in DOMAIN Stored(s.offset, s.size)
        BY <3>1 DEF Stored
      <4> QED BY <4>1, <4>2 DEF Ctr
    <3>5. p \div Block = (s.offset \div Block) + (i \div Block) /\ p % Block = i % Block
      <4>1. i \in Nat
        BY <3>1
      <4>2. /\ (s.offset + i) \div Block = (s.offset \div Block) + (i \div Block)
            /\ (s.offset + i) % Block = i % Block
        BY <1>2, <4>1, BlockAssumption, MultipleAdded
      <4> QED BY <3>1, <4>2
    <3>6. bytes[i] = <<p, {<<"ctr", p \div Block, p % Block>>}>>
      BY <3>3, <3>4, <3>5, MaskedTwice
    <3>7. parent'[p] = bytes[i]
      BY <1>3, <1>5, <3>1
    <3>8. \E j \in DOMAIN Sections : j < section + 1 /\ InSection(p, j)
      BY <1>1, <2>2
    <3> QED BY <3>1, <3>6, <3>7, <3>8 DEF Masks
  <2>3. CASE ~InSection(p, section)
    <3>1. i \notin DOMAIN bytes
      BY <1>2, <1>5, <2>1, <2>3 DEF InSection
    <3>2. parent'[p] = parent[p]
      BY <1>3, <3>1
    <3>3. ASSUME NEW j \in DOMAIN Sections, InSection(p, j)
          PROVE  j < section + 1 <=> j < section
      BY <1>1, <2>3, <3>3, SectionTypes
    <3>4. Masks(p, section + 1) = Masks(p, section)
      BY <3>3 DEF Masks
    <3> QED BY <2>1, <3>2, <3>4
  <2> QED BY <2>2, <2>3
<1>7. ParentInv'
  <2>1. DOMAIN parent' = Places
    BY <1>3
  <2>2. \A p \in Places : Masks(p, section)' = Masks(p, section + 1)
    BY <1>3 DEF Masks
  <2> QED BY <1>6, <2>1, <2>2 DEF ParentInv
<1>8. \A had \in Nat : Grown(had, s.size) \in Nat /\ Grown(had, s.size) >= had
  BY <1>2, BlockAssumption DEF Grown, RoundTo
<1> HIDE DEF s, bytes
<1>9. TypeInv'
  <2>1. section + 1 \in 1 .. Len(Sections) + 1
    BY <1>1, SectionTypes
  <2> QED BY <1>3, <1>8, <2>1 DEF IInv, TypeInv
<1>10. AskedInv'
  <2>1. \A f \in Files : buffer[f] \in Nat /\ buffer'[f] >= buffer[f]
    <3>1. /\ \A f \in Files : buffer[f] \in Nat
          /\ \A f \in Files : buffer'[f] = IF f = "ncz" THEN Grown(buffer[f], s.size) ELSE buffer[f]
      BY <1>3 DEF IInv, TypeInv
    <3> QED BY <1>8, <3>1
  <2>2. buffer' \in [Files -> Nat]
    BY <1>9 DEF TypeInv
  <2> QED BY <1>3, <2>1, <2>2 DEF IInv, AskedInv
<1>11. CallInv'
  BY <1>3, <1>4 DEF CallInv
<1> QED BY <1>7, <1>9, <1>10, <1>11 DEF IInv

\* A read that begins has given nothing yet.
LEMMA NothingGiven ==
  ASSUME NEW at, out' = <<>>
  PROVE  out' = Plain(at, 0)
<1>1. 0 .. 0 - 1 = 1 .. 0
  OBVIOUS
<1> QED BY <1>1 DEF Plain

\* A read through an offset file begins in an encrypted place.
LEMMA ReadViewKeeps ==
  ASSUME IInv, NEW v \in Views, NEW offset \in 0 .. v.size - 1, NEW size \in 1 .. v.size,
         ReadView(v, offset, size)
  PROVE  IInv'
<1> DEFINE first == base.sector_offset * Sector + base.sector_pad + v.start
           at == first + offset
<1>1. v.start \in Nat /\ v.size \in Nat /\ base \in Bases
      /\ base.sector_offset \in Nat /\ base.sector_pad \in Nat
  BY ViewAssumption DEF IInv, TypeInv
<1>2. base.sector_offset * Sector \in Nat
  BY <1>1, BlockAssumption, Products
<1>3. first \in Nat /\ at \in Nat /\ size \in Nat /\ size > 0 /\ offset + size <= v.size
  BY <1>1, <1>2 DEF ReadView
<1>4. \A p \in first .. first + v.size - 1 : Encrypted(p)
  BY <1>1, ViewAssumption
<1>5. /\ section > Len(Sections) /\ call' = [kind |-> "ctr", at |-> at, size |-> size, done |-> 0]
      /\ out' = <<>> /\ UNCHANGED <<parent, section, base, buffer, encBuffer, asked>>
  BY DEF ReadView, Start
<1> HIDE DEF first
<1>6. \A p \in at .. at + size - 1 : Encrypted(p)
  BY <1>1, <1>3, <1>4
<1>7. out' = Plain(at, 0)
  BY <1>5, NothingGiven
<1> HIDE DEF at
<1>8. section' = Len(Sections) + 1
  BY <1>5, SectionTypes DEF IInv, TypeInv
<1>9. CtrInv(call)'
  BY <1>3, <1>5, <1>6, <1>7 DEF CtrInv, Gives, Plain
<1>10. ParentInv' /\ TypeInv' /\ AskedInv'
  BY <1>5, ParentStays DEF IInv, TypeInv, AskedInv
<1> QED BY <1>8, <1>9, <1>10 DEF IInv, CallInv

\* A read of the header begins at a sector and is one or two long.
LEMMA ReadHeaderKeeps ==
  ASSUME IInv, NEW r \in HeaderReads, ReadHeader(r)
  PROVE  IInv'
<1>1. /\ section > Len(Sections) /\ out' = <<>>
      /\ call' = [kind |-> "xts", at |-> r[1], size |-> r[2],
                  offset |-> r[1], it |-> 0, tweak |-> r[1] \div Sector]
      /\ UNCHANGED <<parent, section, base, buffer, encBuffer, asked>>
  BY DEF ReadHeader, Start
<1>2. /\ r[1] \in Nat /\ r[2] \in {Sector, 2 * Sector}
      /\ r[1] + r[2] <= Headers * Sector /\ r[1] % Sector = 0
  <2>1. CASE r = <<0, 2 * Sector>>
    <3>1. 2 * Sector <= Headers * Sector
      BY BlockAssumption, LengthAssumption, Products
    <3>2. 0 % Sector = 0
      BY BlockAssumption, SmallRemainder
    <3> QED BY <2>1, <3>1, <3>2, BlockAssumption
  <2>2. CASE \E i \in 2 .. Headers - 1 : r = <<i * Sector, Sector>>
    <3>1. PICK i \in 2 .. Headers - 1 : r = <<i * Sector, Sector>>
      BY <2>2
    <3>2. (i + 1) * Sector <= Headers * Sector /\ i * Sector \in Nat
      BY BlockAssumption, LengthAssumption, Products
    <3>3. (i + 1) * Sector = i * Sector + Sector
      BY BlockAssumption, LengthAssumption
    <3>4. (i * Sector + 0) % Sector = 0 /\ i * Sector + 0 = i * Sector
      BY BlockAssumption, LengthAssumption, RemainderIsUnique, <3>2
    <3> QED BY <3>1, <3>2, <3>3, <3>4
  <2> QED BY <2>1, <2>2 DEF HeaderReads
<1>3. out' = Plain(r[1], 0)
  BY <1>1, NothingGiven
<1>4. r[1] \div Sector \in Nat /\ Sector \in Nat /\ 2 * Sector \in Nat
  <2>1. Sector \in Nat \ {0}
    BY BlockAssumption
  <2>2. r[1] \div Sector \in Nat
    BY <1>2, <2>1, Division
  <2> QED BY <2>1, <2>2
<1>5. XtsInv(call)'
  BY <1>1, <1>2, <1>3, <1>4 DEF XtsInv, Gives, Plain
<1>6. section' = Len(Sections) + 1
  BY <1>1, SectionTypes DEF IInv, TypeInv
<1>7. ParentInv' /\ TypeInv' /\ AskedInv'
  BY <1>1, ParentStays DEF IInv, TypeInv, AskedInv
<1> QED BY <1>5, <1>6, <1>7 DEF IInv, CallInv

\* In each kind of read, what the invariant says of it.
LEMMA CallKinds ==
  ASSUME IInv
  PROVE  /\ call.kind = "ctr" => CtrInv(call) /\ section = Len(Sections) + 1
         /\ call.kind = "xts" => XtsInv(call) /\ section = Len(Sections) + 1
         /\ call.kind = "done" => DoneInv(call) /\ section = Len(Sections) + 1
BY DEF IInv, CallInv, Idle, CtrInv, XtsInv, DoneInv

\* The bytes still to be read are encrypted and inside the file.
LEMMA CtrLeftInside ==
  ASSUME IInv, call.kind = "ctr"
  PROVE  /\ CtrOffset \in Nat /\ CtrLeft \in Nat /\ CtrLeft > 0
         /\ CtrOffset + CtrLeft = call.at + call.size /\ CtrOffset + CtrLeft <= Length
         /\ \A i \in 0 .. CtrLeft - 1 : Encrypted(CtrOffset + i)
<1>1. CtrInv(call)
  BY CallKinds
<1>2. /\ call.at \in Nat /\ call.size \in Nat /\ call.done \in Nat /\ call.done < call.size
      /\ \A p \in call.at .. call.at + call.size - 1 : Encrypted(p)
  BY <1>1 DEF CtrInv
<1>3. /\ CtrOffset \in Nat /\ CtrLeft \in Nat /\ CtrLeft > 0
      /\ CtrOffset + CtrLeft = call.at + call.size
      /\ \A i \in 0 .. CtrLeft - 1 : CtrOffset + i \in call.at .. call.at + call.size - 1
  BY <1>2 DEF CtrOffset, CtrLeft
<1>4. Encrypted(call.at + call.size - 1)
  BY <1>2
<1>5. call.at + call.size - 1 \in Places
  BY <1>2, <1>4, EncryptedPlace
<1> QED BY <1>2, <1>3, <1>5, LengthAssumption DEF Places

\* Reads that do not touch the parent keep it and the types.
LEMMA ReadStays ==
  ASSUME IInv, UNCHANGED <<parent, section, base, encBuffer>>, buffer' \in [Files -> Nat]
  PROVE  ParentInv' /\ TypeInv'
BY ParentStays DEF IInv, TypeInv

\* The rest of a read, from the start of a block.
LEMMA CtrAlignedKeeps ==
  ASSUME IInv, CtrAligned
  PROVE  IInv'
<1> DEFINE a == CtrOffset
           m == CtrLeft
           bytes == Ctr(Stored(a, m), a \div Block)
<1>1. /\ call.kind = "ctr" /\ a % Block = 0 /\ Update("ctr", m, a)
      /\ out' = Put(bytes, call.done) /\ call' = Done
      /\ UNCHANGED <<parent, section, base, encBuffer>>
  BY DEF CtrAligned
<1>2. /\ a \in Nat /\ m \in Nat /\ m > 0 /\ a + m = call.at + call.size /\ a + m <= Length
      /\ \A i \in 0 .. m - 1 : Encrypted(a + i)
  BY <1>1, CtrLeftInside
<1>3. CtrInv(call) /\ section = Len(Sections) + 1
  BY <1>1, CallKinds
<1>4. call.at \in Nat /\ call.size \in Nat /\ call.done \in Nat /\ call.done < call.size
      /\ Gives(call.at, call.done)
  BY <1>3 DEF CtrInv
<1>5. a = call.at + call.done /\ m = call.size - call.done
  BY DEF CtrOffset, CtrLeft
<1> HIDE DEF a, m
<1>6. DOMAIN bytes = 0 .. m - 1 /\ bytes = [i \in 0 .. m - 1 |-> bytes[i]]
  BY DEF Ctr, Stored
<1>7. ASSUME NEW i \in 0 .. m - 1
      PROVE  bytes[i] = <<a + i, {}>>
  <2>1. bytes[i] = Masked(parent[a + i], <<"ctr", (a \div Block) + (i \div Block), i % Block>>)
    BY DEF Ctr, Stored
  <2>2. i \in Nat /\ ParentInv
    BY <1>2 DEF IInv
  <2> QED BY <1>1, <1>2, <1>3, <2>1, <2>2, CtrGivesPlain
<1> HIDE DEF bytes
<1>8. Put(bytes, call.done) = Plain(call.at, call.done + m)
  <2>1. bytes = Plain(call.at + call.done, m)
    BY <1>5, <1>6, <1>7 DEF Plain
  <2> QED BY <1>2, <1>4, <2>1, PutGivesMore
<1>9. call.done + m = call.size
  BY <1>4, <1>5
<1>10. AskedInv' /\ buffer' \in [Files -> Nat] /\ asked'.size = m
  BY <1>1, <1>2, UpdateKeeps DEF IInv, Files
<1>11. DoneInv(call)'
  BY <1>1, <1>2, <1>4, <1>8, <1>9, <1>10 DEF DoneInv, Done, Gives, Plain
<1>12. ParentInv' /\ TypeInv'
  BY <1>1, <1>10, ReadStays
<1> QED BY <1>1, <1>3, <1>10, <1>11, <1>12 DEF IInv, CallInv

\* The rest of the block a read begins in.
LEMMA CtrUnalignedKeeps ==
  ASSUME IInv, CtrUnaligned
  PROVE  IInv'
<1> DEFINE a == CtrOffset
           align == a % Block
           from == a - align
           start_block == Ctr(Stored(from, Block), from \div Block)
           keep == IF CtrWithin THEN CtrLeft ELSE Block - align
           bytes == [i \in 0 .. keep - 1 |-> start_block[align + i]]
<1>1. /\ call.kind = "ctr" /\ align # 0 /\ Update("ctr", Block, from)
      /\ out' = Put(bytes, call.done)
      /\ call' = IF CtrWithin THEN Done ELSE [call EXCEPT !.done = @ + keep]
      /\ UNCHANGED <<parent, section, base, encBuffer>>
  BY DEF CtrUnaligned
<1>2. /\ a \in Nat /\ CtrLeft \in Nat /\ CtrLeft > 0
      /\ a + CtrLeft = call.at + call.size /\ a + CtrLeft <= Length
      /\ \A i \in 0 .. CtrLeft - 1 : Encrypted(a + i)
  BY <1>1, CtrLeftInside
<1>3. CtrInv(call) /\ section = Len(Sections) + 1
  BY <1>1, CallKinds
<1>4. /\ call \in [kind : {"ctr"}, at : Nat, size : Nat, done : Nat] /\ call.done < call.size
      /\ Gives(call.at, call.done) /\ \A p \in call.at .. call.at + call.size - 1 : Encrypted(p)
  BY <1>3 DEF CtrInv
<1>5. a = call.at + call.done /\ CtrLeft = call.size - call.done
  BY DEF CtrOffset, CtrLeft
<1>6. align \in 1 .. Block - 1 /\ from \in Nat /\ from % Block = 0 /\ from <= a
      /\ from + align = a
  <2>1. align \in 0 .. Block - 1
    BY <1>2, BlockAssumption, Division
  <2>2. from \in Nat /\ from % Block = 0
    BY <1>2, BlockAssumption, WithoutRemainder
  <2>3. from = a - align /\ align # 0
    BY <1>1
  <2>4. a \in Nat /\ Block \in Nat
    BY <1>2, BlockAssumption
  <2> HIDE DEF from, align, a
  <2> QED BY <2>1, <2>2, <2>3, <2>4
<1>7. CtrWithin <=> CtrLeft + align <= Block
  BY <1>1 DEF CtrWithin
<1>8. keep \in Nat /\ keep > 0 /\ align + keep <= Block /\ keep <= CtrLeft
      /\ (CtrWithin => keep = CtrLeft) /\ (~CtrWithin => keep < CtrLeft)
  BY <1>2, <1>6, <1>7, BlockAssumption
<1>9. from + Block <= Length
  <2>1. Length \in Nat /\ Length % Block = 0 /\ Block \in Nat \ {0}
    BY BlockAssumption, LengthAssumption
  <2>2. from \in Nat /\ from % Block = 0 /\ from <= a
    BY <1>6
  <2>3. a \in Nat /\ a < Length
    BY <1>2, <2>1
  <2> HIDE DEF from, align, a
  <2>4. from < Length
    BY <2>1, <2>2, <2>3
  <2> QED BY <2>1, <2>2, <2>4, NextMultiple
<1> HIDE DEF a, align, from, keep
<1>10. ASSUME NEW i \in 0 .. keep - 1
       PROVE  bytes[i] = <<a + i, {}>>
  <2>1. align + i \in Nat /\ align + i \in 0 .. Block - 1 /\ from + (align + i) = a + i
    BY <1>2, <1>6, <1>8, BlockAssumption
  <2>2. Encrypted(from + (align + i))
    BY <1>2, <1>8, <2>1
  <2>3. start_block[align + i] =
          Masked(parent[from + (align + i)],
                 <<"ctr", (from \div Block) + ((align + i) \div Block), (align + i) % Block>>)
    BY <2>1 DEF Ctr, Stored
  <2>4. start_block[align + i] = <<from + (align + i), {}>>
    BY <1>3, <1>6, <2>1, <2>2, <2>3, CtrGivesPlain DEF IInv
  <2> QED BY <2>1, <2>4
<1>11. bytes = [i \in 0 .. keep - 1 |-> bytes[i]]
  OBVIOUS
<1> HIDE DEF bytes
<1>12. bytes = Plain(call.at + call.done, keep)
  BY <1>5, <1>10, <1>11 DEF Plain
<1>13. out' = Plain(call.at, call.done + keep)
  BY <1>1, <1>4, <1>8, <1>12, PutGivesMore
<1>14. AskedInv' /\ buffer' \in [Files -> Nat] /\ asked'.size = Block
  BY <1>1, <1>6, <1>9, BlockAssumption, UpdateKeeps DEF IInv, Files
<1>15. ParentInv' /\ TypeInv'
  BY <1>1, <1>14, ReadStays
<1>16. CASE CtrWithin
  <2>1. call' = [kind |-> "done", at |-> call.at, size |-> call.size]
    BY <1>1, <1>16 DEF Done
  <2>2. call.done + keep = call.size
    BY <1>4, <1>5, <1>8, <1>16
  <2>3. DoneInv(call)'
    BY <1>2, <1>4, <1>13, <1>14, <2>1, <2>2, BlockAssumption DEF DoneInv, Gives, Plain
  <2> QED BY <1>1, <1>3, <1>14, <1>15, <2>3 DEF IInv, CallInv
<1>17. CASE ~CtrWithin
  <2>1. call' = [call EXCEPT !.done = call.done + keep]
    BY <1>1, <1>17
  <2>2. call.done + keep \in Nat /\ call.done + keep < call.size
    BY <1>4, <1>5, <1>8, <1>17
  <2>3. call' \in [kind : {"ctr"}, at : Nat, size : Nat, done : Nat]
        /\ call'.at = call.at /\ call'.size = call.size /\ call'.done = call.done + keep
    BY <1>4, <2>1, <2>2
  <2>4. CtrInv(call)'
    BY <1>4, <1>13, <2>2, <2>3 DEF CtrInv, Gives, Plain
  <2> QED BY <1>1, <1>3, <1>14, <1>15, <2>4 DEF IInv, CallInv
<1> QED BY <1>16, <1>17

\* The loop over sectors goes on until the read is complete.
LEMMA XtsEndsInTime ==
  ASSUME XtsInv(call)
  PROVE  /\ XtsGoesOn => call.it + Sector <= call.size
         /\ ~XtsGoesOn => call.it = call.size
<1>1. Sector \in Nat \ {0} /\ Word \in Nat /\ 2 * Sector < Word
  BY BlockAssumption, LengthAssumption
<1>2. /\ call.size \in {Sector, 2 * Sector} /\ call.it \in {0, Sector, 2 * Sector}
      /\ call.it <= call.size /\ call.at \in Nat /\ call.offset = call.at + call.it
  BY DEF XtsInv
<1>3. call.at + call.size - call.offset = call.size - call.it
  BY <1>1, <1>2
<1>4. call.size - call.it \in 0 .. Word - 1 /\ Word \in Nat \ {0}
  BY <1>1, <1>2
<1>5. (call.size - call.it) % Word = call.size - call.it
  BY <1>4, SmallRemainder
<1>6. XtsGoesOn <=> call.it <= call.size - call.it
  BY <1>3, <1>5 DEF XtsGoesOn
<1> QED BY <1>1, <1>2, <1>6

\* A sector of the header is read and decrypted with its own tweak.
LEMMA XtsSectorKeeps ==
  ASSUME IInv, XtsSector
  PROVE  IInv'
<1> DEFINE a == call.offset
           bytes == Xts(Stored(a, Sector), call.tweak)
<1>1. /\ call.kind = "xts" /\ XtsGoesOn /\ Update("xts", Sector, a)
      /\ out' = Put(bytes, call.it)
      /\ call' = [call EXCEPT !.offset = @ + Sector, !.it = @ + Sector, !.tweak = @ + 1]
      /\ UNCHANGED <<parent, section, base, encBuffer>>
  BY DEF XtsSector
<1>2. XtsInv(call) /\ section = Len(Sections) + 1
  BY <1>1, CallKinds
<1>3. call.it + Sector <= call.size
  BY <1>1, <1>2, XtsEndsInTime
<1>4. /\ call \in [kind : {"xts"}, at : Nat, size : Nat, offset : Nat, it : Nat, tweak : Nat]
      /\ call.size \in {Sector, 2 * Sector} /\ call.it \in {0, Sector, 2 * Sector}
      /\ a = call.at + call.it /\ call.at + call.size <= Headers * Sector
      /\ a % Sector = 0 /\ call.tweak = a \div Sector /\ Gives(call.at, call.it)
  BY <1>2 DEF XtsInv
<1>5. Sector \in Nat \ {0} /\ Headers * Sector \in Nat /\ Headers * Sector <= Length
      /\ Length \in Nat
  BY BlockAssumption, LengthAssumption, Products
<1>6. a \in Nat /\ a + Sector <= Headers * Sector /\ a + Sector <= Length
  <2>1. call.at \in Nat /\ call.it \in Nat /\ call.size \in Nat
    BY <1>4
  <2>2. a = call.at + call.it /\ call.at + call.size <= Headers * Sector
    BY <1>4
  <2> DEFINE h == Headers * Sector
  <2>3. h \in Nat /\ h <= Length /\ call.at + call.size <= h
    BY <1>5, <2>2
  <2> HIDE DEF a, h
  <2>4. a \in Nat /\ a + Sector <= h /\ a + Sector <= Length
    BY <1>3, <1>5, <2>1, <2>2, <2>3
  <2> QED BY <2>4 DEF h
<1>7. DOMAIN bytes = 0 .. Sector - 1 /\ bytes = [i \in 0 .. Sector - 1 |-> bytes[i]]
  BY DEF Xts, Stored
<1>8. ASSUME NEW i \in 0 .. Sector - 1
      PROVE  bytes[i] = <<a + i, {}>>
  <2>1. bytes[i] = Masked(parent[a + i], <<"xts", call.tweak, i>>)
    BY DEF Xts, Stored
  <2>2. a + i < Headers * Sector
    BY <1>5, <1>6
  <2> QED BY <1>4, <1>6, <2>1, <2>2, XtsGivesPlain DEF IInv
<1>9. (a + Sector) % Sector = 0 /\ (a + Sector) \div Sector = (a \div Sector) + 1
  <2>1. (1 * Sector + 0) \div Sector = 1 /\ (1 * Sector + 0) % Sector = 0
    BY <1>5, QuotientIsUnique, RemainderIsUnique
  <2>2. 1 * Sector + 0 = Sector
    BY <1>5
  <2>3. Sector \div Sector = 1 /\ Sector % Sector = 0
    BY <2>1, <2>2
  <2>4. a \in Nat /\ a % Sector = 0 /\ Sector \in Nat /\ Sector \in Nat \ {0}
    BY <1>4, <1>5, <1>6
  <2> HIDE DEF a
  <2>5. (a + Sector) \div Sector = (a \div Sector) + (Sector \div Sector)
        /\ (a + Sector) % Sector = Sector % Sector
    BY <2>4, MultipleAdded
  <2> QED BY <2>3, <2>5
<1> HIDE DEF bytes, a
<1>10. bytes = Plain(call.at + call.it, Sector)
  BY <1>4, <1>7, <1>8 DEF Plain
<1>11. out' = Plain(call.at, call.it + Sector)
  BY <1>1, <1>4, <1>5, <1>10, PutGivesMore
<1>12. AskedInv' /\ buffer' \in [Files -> Nat] /\ asked'.size = Sector
  BY <1>1, <1>5, <1>6, UpdateKeeps DEF IInv, Files
<1>13. ParentInv' /\ TypeInv'
  BY <1>1, <1>12, ReadStays
<1>14. /\ call' \in [kind : {"xts"}, at : Nat, size : Nat, offset : Nat, it : Nat, tweak : Nat]
       /\ call'.at = call.at /\ call'.size = call.size /\ call'.it = call.it + Sector
       /\ call'.offset = a + Sector /\ call'.tweak = call.tweak + 1
  <2>1. call' = [call EXCEPT !.offset = call.offset + Sector, !.it = call.it + Sector,
                             !.tweak = call.tweak + 1]
    BY <1>1
  <2>2. call \in [kind : {"xts"}, at : Nat, size : Nat, offset : Nat, it : Nat, tweak : Nat]
    BY <1>4
  <2>3. call.offset + Sector \in Nat /\ call.it + Sector \in Nat /\ call.tweak + 1 \in Nat
    BY <1>5, <2>2
  <2>4. /\ call' \in [kind : {"xts"}, at : Nat, size : Nat, offset : Nat, it : Nat, tweak : Nat]
        /\ call'.at = call.at /\ call'.size = call.size /\ call'.it = call.it + Sector
        /\ call'.offset = call.offset + Sector /\ call'.tweak = call.tweak + 1
    BY <2>1, <2>2, <2>3
  <2> QED BY <2>4, Zenon DEF a
<1>15. call.it + Sector \in {0, Sector, 2 * Sector}
  <2>1. call.it \in {0, Sector, 2 * Sector} /\ call.size \in {Sector, 2 * Sector}
    BY <1>4
  <2>2. Sector \in Nat \ {0}
    BY <1>5
  <2>3. call.it \in {0, Sector}
    BY <1>3, <2>1, <2>2
  <2> QED BY <2>2, <2>3
<1>16. /\ call'.size \in {Sector, 2 * Sector} /\ call'.it \in {0, Sector, 2 * Sector}
       /\ call'.it <= call'.size /\ call'.offset = call'.at + call'.it
       /\ call'.at + call'.size <= Headers * Sector
  BY <1>3, <1>4, <1>5, <1>14, <1>15
<1>17. call'.offset % Sector = 0 /\ call'.tweak = call'.offset \div Sector
  BY <1>4, <1>9, <1>14
<1>18. XtsInv(call)'
  BY <1>5, <1>11, <1>12, <1>14, <1>16, <1>17 DEF XtsInv, Gives, Plain
<1> QED BY <1>1, <1>2, <1>12, <1>13, <1>18 DEF IInv, CallInv

\* The loop over sectors ends, with all that was asked for.
LEMMA XtsEndKeeps ==
  ASSUME IInv, XtsEnd
  PROVE  IInv'
<1>1. /\ call.kind = "xts" /\ ~XtsGoesOn /\ call' = Done
      /\ UNCHANGED <<parent, section, base, buffer, encBuffer, asked, out>>
  BY DEF XtsEnd
<1>2. XtsInv(call) /\ section = Len(Sections) + 1
  BY <1>1, CallKinds
<1>3. call.it = call.size
  BY <1>1, <1>2, XtsEndsInTime
<1>4. Sector \in Nat \ {0} /\ Headers * Sector \in Nat /\ Headers * Sector <= Length /\ Length \in Nat
  BY BlockAssumption, LengthAssumption, Products
<1>5. /\ call.at \in Nat /\ call.size \in Nat /\ call.size > 0 /\ call.at + call.size <= Length
      /\ Gives(call.at, call.size) /\ asked.size > 0
  BY <1>2, <1>3, <1>4 DEF XtsInv
<1>6. DoneInv(call)'
  BY <1>1, <1>5 DEF Done, DoneInv, Gives, Plain
<1>7. ParentInv' /\ TypeInv' /\ AskedInv'
  BY <1>1, ParentStays DEF IInv, TypeInv, AskedInv
<1> QED BY <1>1, <1>2, <1>6, <1>7 DEF IInv, CallInv

\* Every step keeps the invariant.
LEMMA StepKeeps == IInv /\ [AesFileNext]_aesFileVars => IInv'
<1> SUFFICES ASSUME IInv, [AesFileNext]_aesFileVars PROVE IInv'
  OBVIOUS
<1>1. CASE EncryptSection
  BY <1>1, EncryptKeeps
<1>2. CASE \E v \in Views : \E offset \in 0 .. v.size - 1, size \in 1 .. v.size :
             ReadView(v, offset, size)
  BY <1>2, ReadViewKeeps
<1>3. CASE \E r \in HeaderReads : ReadHeader(r)
  BY <1>3, ReadHeaderKeeps
<1>4. CASE Return
  <2>1. /\ call' = Idle /\ out' = <<>> /\ asked' = NoRead
        /\ UNCHANGED <<parent, section, base, buffer, encBuffer>>
    BY <1>4 DEF Return
  <2>2. AskedInv'
    BY <2>1, LengthAssumption DEF AskedInv, NoRead, Files, IInv, TypeInv
  <2> QED BY <2>1, <2>2, ParentStays DEF IInv, TypeInv, CallInv
<1>5. CASE UNCHANGED aesFileVars
  <2>1. UNCHANGED <<parent, section, base, buffer, encBuffer, asked, call, out>>
    BY <1>5 DEF aesFileVars
  <2>2. ParentInv' /\ TypeInv' /\ AskedInv'
    BY <2>1, ParentStays DEF IInv, TypeInv, AskedInv
  <2>3. CallInv'
    BY <2>1 DEF IInv, CallInv, CtrInv, XtsInv, DoneInv, Gives, Plain
  <2> QED BY <2>2, <2>3 DEF IInv
<1> QED BY <1>1, <1>2, <1>3, <1>4, <1>5, CtrAlignedKeeps, CtrUnalignedKeeps, XtsSectorKeeps,
           XtsEndKeeps DEF AesFileNext, Step

\* The invariant holds in every reachable state.
THEOREM InvariantHolds == AesFileSpec => []IInv
BY InitHolds, StepKeeps, PTL DEF AesFileSpec

\* A read gives the plaintext of exactly the bytes asked for, whatever its place in a block,
\* its length, and the sections that were encrypted.
THEOREM ReadsGivePlaintext == AesFileSpec => []ReadGivesPlain
<1>1. IInv => ReadGivesPlain
  <2> SUFFICES ASSUME IInv, call.kind = "done"
               PROVE  out = [i \in 0 .. call.size - 1 |-> <<call.at + i, {}>>]
    BY DEF ReadGivesPlain
  <2> QED BY CallKinds DEF DoneInv, Gives, Plain
<1> QED BY <1>1, InvariantHolds, PTL

\* A read puts out nothing beyond what was asked for, reads nothing beyond the end of the
\* parent, fits its buffer, and is never empty.
THEOREM AccessesStayInside == AesFileSpec => []AccessesInside
<1>1. IInv => AccessesInside
  <2> SUFFICES ASSUME IInv PROVE AccessesInside
    OBVIOUS
  <2>1. Headers * Sector <= Length /\ Headers * Sector \in Nat /\ Length \in Nat
    BY BlockAssumption, LengthAssumption, Products
  <2>2. CASE call = Idle /\ out = <<>>
    <3>1. DOMAIN out = {}
      BY <2>2
    <3> QED BY <2>2, <3>1 DEF IInv, ParentInv, TypeInv, AskedInv, AccessesInside, TypeOK, Idle
  <2>3. CASE CtrInv(call)
    <3>1. call.kind = "ctr" /\ DOMAIN out = 0 .. call.done - 1 /\ call.done < call.size
          /\ call.at \in Nat /\ call.size \in Nat /\ call.done \in Nat
          /\ \A i \in 0 .. call.done - 1 : out[i] = <<call.at + i, {}>>
      BY <2>3 DEF CtrInv, Gives, Plain
    <3>2. \A i \in DOMAIN out : out[i][1] \in Places
      <4> SUFFICES ASSUME NEW i \in DOMAIN out PROVE out[i][1] \in Places
        OBVIOUS
      <4>1. call.at + i \in call.at .. call.at + call.size - 1
        BY <3>1
      <4>2. Encrypted(call.at + i)
        BY <2>3, <4>1 DEF CtrInv
      <4>3. call.at + i \in Places
        BY <3>1, <4>2, EncryptedPlace
      <4> QED BY <3>1, <4>3
    <3> QED BY <3>1, <3>2 DEF IInv, ParentInv, TypeInv, AskedInv, AccessesInside, TypeOK
  <2>4. CASE XtsInv(call)
    <3>1. call.kind = "xts" /\ DOMAIN out = 0 .. call.it - 1 /\ call.it <= call.size
          /\ call.at \in Nat /\ call.size \in Nat /\ call.it \in Nat
          /\ call.at + call.size <= Headers * Sector
          /\ \A i \in 0 .. call.it - 1 : out[i] = <<call.at + i, {}>>
      BY <2>4 DEF XtsInv, Gives, Plain
    <3>2. \A i \in DOMAIN out : out[i][1] \in Places
      BY <2>1, <3>1 DEF Places
    <3> QED BY <3>1, <3>2 DEF IInv, ParentInv, TypeInv, AskedInv, AccessesInside, TypeOK
  <2>5. CASE DoneInv(call)
    <3>1. call.kind = "done" /\ DOMAIN out = 0 .. call.size - 1
          /\ call.at \in Nat /\ call.size \in Nat /\ call.at + call.size <= Length
          /\ asked.size > 0
          /\ \A i \in 0 .. call.size - 1 : out[i] = <<call.at + i, {}>>
      BY <2>5 DEF DoneInv, Gives, Plain
    <3>2. \A i \in DOMAIN out : out[i][1] \in Places
      BY <2>1, <3>1 DEF Places
    <3> QED BY <3>1, <3>2 DEF IInv, ParentInv, TypeInv, AskedInv, AccessesInside, TypeOK
  <2> QED BY <2>2, <2>3, <2>4, <2>5 DEF IInv, CallInv
<1> QED BY <1>1, InvariantHolds, PTL

----------------------------------------------------------------------------
(* Services *)

\* The object svt_load makes.
ServiceMade(h, h2, o) == HeapOk(h) /\ o = Object("service", None) /\ h2 = Append(h, o)

\* What follows from it.
ServiceNew(h, h2, o) == Comes(h, h2, o) /\ o.kind = "service" /\ o.base = None /\ o.dir = None

\* svt_load makes a service.
LEMMA NewService ==
  ASSUME NEW h, NEW h2, NEW o, ServiceMade(h, h2, o)
  PROVE  ServiceNew(h, h2, o)
<1>1. HeapOk(h) /\ o = Object("service", None) /\ h2 = Append(h, o)
  BY DEF ServiceMade
<1>3. /\ o = [kind |-> o.kind, base |-> o.base, dir |-> o.dir, parts |-> <<>>,
              pfs_list |-> <<>>, romfs_list |-> <<>>, path |-> o.path, live |-> TRUE]
      /\ o.kind = "service" /\ o.base = None /\ o.dir = None
  BY <1>1 DEF Object
<1>4. IsNew(h, o)
  BY <1>3 DEF IsNew
<1> QED BY <1>1, <1>3, <1>4 DEF Comes, ServiceNew

\* Service keeps the invariant, and uses and closes only what is live.
LEMMA ServiceStep ==
  ASSUME Ok, Service
  PROVE  Ok' /\ fault' = fault
<1>n. PICK n : n = Len(todo)
  OBVIOUS
<1>a. PICK x, C, h2, s2 : x = Head(todo).nca /\ C = After(todo, n) /\ h2 = heap' /\ s2 = services'
  OBVIOUS
<1>b. PICK fs : fs = heap[x].romfs_list[1].fs
  OBVIOUS
<1>c. PICK bs, u, y, o, p : bs = heap[fs].base /\ u = Len(heap) + 1 /\ y = Len(heap) + 2
        /\ o = Object("service", None) /\ p = Offset(bs)
  OBVIOUS
<1>d. PICK a : a = CallOn("close_file", fs, y)
  OBVIOUS
<1>e. CASE ~Head(todo).e.svt
  BY <1>e, ServiceIdleStep
<1>f. CASE Head(todo).e.svt
<2>1. Calling("service") /\ Same /\ games' = games /\ tickets' = tickets
  BY DEF Service
<2>2. /\ HeapOk(heap) /\ GamesOk(heap, games) /\ Head(todo).op = "service" /\ todo # <<>>
      /\ IsCall(session, heap, games, Head(todo))
      /\ IsPlaced(heap, games, tickets, services, Head(todo), After(todo, n))
      /\ Trust(heap, games, tickets, services, Head(todo)) \subseteq Live(heap)
      /\ ListsOk(heap, games, tickets, services)
      /\ n \in Turns(todo) /\ At(todo, n) = Head(todo) /\ n \in Nat \ {0}
  BY <2>1, <1>n, OkFacts
<2>3. Trust(heap, games, tickets, services, Head(todo)) = {}
  BY <2>2 DEF Trust
<2>4. Len(heap) \in Nat
  BY <2>2, SequenceIs DEF HeapOk
<2>5. heap' = heap \o <<o, p>> /\ s2 = Append(services, u) /\ Then(<<a>>) /\ Use({x} \cup Chain(fs))
  <3>1. New + 1 = y
    BY <1>c, <2>4 DEF New
  <3> QED BY <1>f, <1>a, <1>b, <1>c, <1>d, <3>1 DEF Service, Arg, New
<2>6. x \in DOMAIN heap /\ heap[x].kind = "nca" /\ Later(C, "hos_disable")
  BY <2>2, <1>a DEF IsCall, IsPlaced, OpsOfPackages
<2>7. PICK b \in C : b.op \in {"list_push", "content_archive_destroy"} /\ b.x = x
  BY <2>2, <1>a DEF IsPlaced
<2>8. heap[x].romfs_list # <<>>
  <3>1. Serving(todo, heap)
    BY DEF Ok, StateOk, CallsOk
  <3>2. Len(todo) + 1 > Len(todo) /\ n + 1 .. Len(todo) = {}
    BY <1>n, <2>2
  <3> QED BY <1>a, <1>f, <2>2, <3>1, <3>2 DEF Serving
<2>9. \E r \in Items(heap, x) : fs = r.fs
  <3>1. IsSequence(heap[x].romfs_list)
    BY <2>2, <2>6, ObjectFacts
  <3>2. 1 \in DOMAIN heap[x].romfs_list
    BY <2>8, <3>1, SequenceIs
  <3> QED BY <1>b, <3>1, <3>2, SequenceIs DEF Items
<2>10. fs \in SectionObjects(heap, x)
  BY <2>9 DEF SectionObjects
<2>11. fs \in DOMAIN heap /\ heap[fs].kind \in {"pfs", "romfs"} /\ bs # None
  <3>1. PICK r \in Items(heap, x) : fs = r.fs
    BY <2>9
  <3>2. r.fs \in DOMAIN heap /\ heap[r.fs].kind \in {"pfs", "romfs"} /\ heap[r.fs].base = r.file
          /\ r.file \in DOMAIN heap
    BY <2>2, <2>6, <3>1, SectionFacts
  <3> QED BY <2>2, <1>c, <3>1, <3>2, ObjectFacts DEF None
<2>12. \A i \in {x, fs} : i \in Archive(heap, b.x)
  BY <2>6, <2>7, <2>10 DEF Archive, Owned
<2>13. \A i \in {x, fs} : Assured(heap, games, tickets, services, C, i)
  BY <2>7, <2>12, ArchiveAssured
<2>14. x \in Live(heap)
  BY <2>2, <1>n, <1>a, <2>13, AssuredFacts DEF Ok
<2>15. /\ bs \in DOMAIN heap /\ heap[bs].kind # "loader"
       /\ Assured(heap, games, tickets, services, C, bs)
       /\ Chain(fs) \subseteq Live(heap)
  BY <2>2, <1>n, <1>a, <1>c, <2>11, <2>13, DirectoryOpen
<2>16. PICK h1 : h1 = Append(heap, o)
  OBVIOUS
<2>17. h2 = Append(h1, p)
  BY <2>2, <1>a, <2>5, <2>16, BehindTwo DEF HeapOk
<2>18. Comes(heap, h1, o) /\ o.kind = "service" /\ o.base = None /\ o.dir = None
  <3>1. ServiceMade(heap, h1, o)
    BY <2>2, <1>c, <2>16 DEF ServiceMade
  <3>2. ServiceNew(heap, h1, o)
    BY <3>1, NewService
  <3> QED BY <3>2 DEF ServiceNew
<2>19. HeapOk(h1) /\ bs \in DOMAIN h1 /\ h1[bs].kind # "loader"
  <3>1. Came(heap, h1, o)
    BY <2>18, Coming
  <3> QED BY <2>15, <3>1 DEF Came
<2>20. Comes(h1, h2, p) /\ p.kind = "offset" /\ p.base = bs /\ p.dir = None
  BY ONLY <2>17, <2>19, <1>c, NewOffset
<2>21. CameTwo(heap, h2, o, p, u, y)
  BY <1>c, <2>18, <2>20, ComingTwo DEF ComeTwo
<2>22. /\ HeapOk(h2) /\ Frame(heap, h2) /\ Live(h2) = Live(heap) \cup {u, y} /\ h2[u] = o
       /\ h2[y] = p
       /\ u \notin DOMAIN heap /\ y \notin DOMAIN heap /\ u # y /\ u \in DOMAIN h2
       /\ y \in DOMAIN h2
       /\ \A i \in DOMAIN heap : i \in DOMAIN h2 /\ h2[i] = heap[i] /\ i < u /\ i < y
  BY <2>21 DEF CameTwo
<2>23. Steady(heap, h2) /\ Stable(heap, h2)
  BY <2>22 DEF Frame, Steady
<2>24. ListOk(heap, tickets, "tik") /\ ListOk(heap, services, "service")
  BY <2>2 DEF ListsOk
<2>25. ListOk(h2, tickets, "tik") /\ ListOk(h2, services, "service")
  BY <2>2, <2>23, <2>24, ListsStay
<2>26. u \notin Range(services)
  BY <2>22, <2>24 DEF ListOk, IsAlone
<2>27. IsSequence(s2) /\ IsInjective(s2) /\ Range(s2) = Range(services) \cup {u}
  BY <2>5, <2>24, <2>26, OneMore DEF ListOk
<2>28. IsAlone(h2, u, "service")
  BY <2>18, <2>22 DEF IsAlone
<2>29. ListOk(h2, s2, "service")
  BY <2>25, <2>27, <2>28 DEF ListOk
<2>30. PICK z : IsTurn(todo, n, z, "hos_disable")
  <3>1. Level("hos_disable") \in Once
    BY Levels DEF Once
  <3> QED BY <2>2, <2>6, <1>n, <1>a, <3>1, TheTurn DEF Ok
<2>31. /\ \A b1 \in C : IsCall(session, heap, games, b1) /\ IsReady(heap, tickets, b1)
       /\ \A d \in 1 .. n - 1 : At(todo, d) \in C /\ d \in Turns(todo)
  BY <2>2, <1>n, <1>a, HeadFacts DEF Ok
<2>32. ASSUME NEW d \in 1 .. n - 1
       PROVE  Trust(h2, games, tickets, s2, At(todo, d))
                = Trust(heap, games, tickets, services, At(todo, d)) \cup IF d = z THEN {u} ELSE {}
  <3>1. CASE d = z
    <4>1. At(todo, d).op = "hos_disable"
      BY <2>30, <3>1 DEF IsTurn
    <4> QED BY <2>27, <3>1, <4>1 DEF Trust
  <3>2. CASE d # z
    <4>1. At(todo, d).op # "hos_disable" /\ IsCall(session, heap, games, At(todo, d))
      BY <2>30, <2>31, <3>2 DEF IsTurn
    <4>2. Trust(h2, games, tickets, s2, At(todo, d)) = Trust(heap, games, tickets, services,
            At(todo, d))
      BY ONLY <2>2, <2>22, <4>1, TrustStays
    <4> QED BY <3>2, <4>2
  <3> QED BY <3>1, <3>2
<2>33. Trusting(todo, heap, games, tickets, services, h2, games, tickets, s2, n)
  BY <2>23, <2>32 DEF Trusting
<2>34. /\ Assured(h2, games, tickets, s2, C, fs) /\ Assured(h2, games, tickets, s2, C, bs)
  <3>1. n \in 1 .. n
    BY <2>2
  <3>2. TrustOk(todo, heap, games, tickets, services)
    BY DEF Ok, StateOk
  <3> QED BY <1>a, <2>2, <2>13, <2>15, <2>33, <3>1, <3>2, Onward
<2>35. /\ Fits(session, h2, games, tickets, s2, C, a) /\ Trust(h2, games, tickets, s2, a) = {y}
       /\ a.op = "close_file" /\ Level(a.op) = 0
  <3>1. IsFileOf(h2, y, fs)
    BY <2>11, <1>c, <2>20, <2>22 DEF IsFileOf, FileKinds, DirKinds
  <3>2. Over(h2, y) = {bs}
    BY <2>11, <2>20, <2>22 DEF Over
  <3>3. ClosesFile(h2, games, tickets, s2, C, fs, y)
    BY <2>11, <2>22, <2>34, <3>1, <3>2 DEF ClosesFile
  <3> QED BY <1>d, <3>3, FitsCloseFile
<2>36. PICK q : q = <<a>>
  OBVIOUS
<2>37. Takes(session, h2, games, tickets, s2, C, q) /\ Entrusted(h2, games, tickets, s2, q) = {y}
  BY <2>35, <2>36, TakesOne
<2>38. IsQuiet(Head(todo), q) /\ Rises(Head(todo), q)
  BY <2>2, <2>35, <2>36, QuietOne
<2>39. Growing(heap, h2, games, games)
  BY <2>2, <2>22, FrameGrowing
<2>40. \A i \in DOMAIN heap : heap[i].kind = "nca" /\ heap[i].romfs_list # <<>>
         => h2[i].romfs_list # <<>>
  BY <2>22
<2>41. ASSUME NEW b1 \in C PROVE IsReady(h2, tickets, b1)
  <3>2. IsCall(session, heap, games, b1) /\ IsReady(heap, tickets, b1)
    BY <2>31
  <3> QED BY ONLY <2>2, <2>22, <3>2, ReadyStays
<2>42. \A i \in Live(heap) : Dropped(heap, tickets, i) => Dropped(h2, tickets, i)
  BY <2>23, <2>24, DroppedStays DEF Live
<2>43. Over(h2, u) = {}
  BY <2>28 DEF Over, IsAlone
<2>44. z \in 0 .. n - 1 /\ z # 0 /\ At(todo, z).op # "free"
  BY <2>2, <2>30 DEF IsTurn
<2>45. Handed(todo, heap, games, tickets, services, q, n, h2, games, tickets, s2, {u, y}, z, {u})
  BY <2>3, <2>22, <2>32, <2>37, <2>42, <2>43, <2>44 DEF Handed
<2>46. Ok'
  <3>1. heap' = h2 /\ services' = s2 /\ tickets' = tickets
    BY <1>a, <2>1
  <3>3. QuietIs(session, todo, heap, games, tickets, services, q, todo', n, h2, tickets, s2)
    BY <1>n, <1>a, <2>2, <2>5, <2>22, <2>25, <2>29, <2>36, <2>37, <2>38, <2>39, <2>40, <2>41
      DEF QuietIs, Ok, Then
  <3>4. StateOk(session, todo', h2, games, tickets, s2)
    BY <2>45, <3>3, QuietStep
  <3> QED BY <2>1, <3>1, <3>4 DEF Ok, Same
<2> QED BY <2>3, <2>5, <2>14, <2>15, <2>46, Unused
<1> QED BY <1>e, <1>f

----------------------------------------------------------------------------
(* Calls that lengthen lists *)

\* An archive is put on the list of its loader.
KeptOne(h, h2, l, x) ==
  /\ HeapOk(h2) /\ Stable(h, h2) /\ DOMAIN h2 = DOMAIN h
  /\ \A i \in DOMAIN h : i # l => h2[i] = h[i]
  /\ Range(h2[l].parts) = Range(h[l].parts) \cup {x}
  /\ Owned(h2, l) = Owned(h, l) \cup {x}
  /\ \A i \in DOMAIN h : i # l => Owned(h2, i) = Owned(h, i) /\ Archive(h2, i) = Archive(h, i)
  /\ Live(h2) = Live(h)
  /\ Package(h2, l) = Package(h, l) \cup Archive(h, x)
  /\ \A m \in DOMAIN h : h[m].kind = "loader" /\ m # l => Package(h2, m) = Package(h, m)

\* What follows from a package keeping an archive.
LEMMA KeepingOne ==
  ASSUME NEW h, NEW h2, NEW l, NEW x, KeepsOne(h, h2, l, x)
  PROVE  KeptOne(h, h2, l, x)
<1>1. /\ HeapOk(h) /\ l \in DOMAIN h /\ h[l].kind = "loader" /\ x \in DOMAIN h
      /\ h[x].kind = "nca" /\ Unowned(h, x) /\ Grounded(h, l, x)
      /\ h2 = [h EXCEPT ![l].parts = Append(@, x)]
  BY DEF KeepsOne
<1>2. /\ HeapOk(h2) /\ Stable(h, h2) /\ DOMAIN h2 = DOMAIN h
      /\ \A i \in DOMAIN h : i # l => h2[i] = h[i]
      /\ Range(h2[l].parts) = Range(h[l].parts) \cup {x}
      /\ Owned(h2, l) = Owned(h, l) \cup {x}
      /\ \A i \in DOMAIN h : i # l => Owned(h2, i) = Owned(h, i) /\ Archive(h2, i) = Archive(h, i)
      /\ Live(h2) = Live(h)
  BY Keeping DEF Kept
<1>3. \A m \in DOMAIN h : h[m].kind = "loader" => \A n \in Range(h[m].parts) : n \in DOMAIN h
        /\ h[n].kind = "nca"
  BY <1>1, LoaderParts
<1>4. ASSUME NEW m \in DOMAIN h, h[m].kind = "loader", NEW n \in Range(h[m].parts)
      PROVE Owned(h2, n) = Owned(h, n)
  <2>1. n \in DOMAIN h /\ n # l
    BY <1>1, <1>3, <1>4
  <2> QED BY <1>2, <2>1
<1>5. Package(h2, l) = Package(h, l) \cup Archive(h, x)
  <2>2. PICK U, V : U = UNION { Owned(h2, n) : n \in Range(h2[l].parts) }
          /\ V = UNION { Owned(h, n) : n \in Range(h[l].parts) }
    OBVIOUS
  <2>1. U = V \cup Owned(h, x)
    <3>1. x # l
      BY <1>1
    <3>2. Owned(h2, x) = Owned(h, x)
      BY <1>1, <1>2, <3>1
    <3>3. \A n \in Range(h[l].parts) : Owned(h2, n) = Owned(h, n)
      BY <1>1, <1>4
    <3>4. PICK S, S2 : S = Range(h[l].parts) /\ S2 = Range(h2[l].parts)
      OBVIOUS
    <3>5. S2 = S \cup {x} /\ \A n \in S : Owned(h2, n) = Owned(h, n)
      BY <1>2, <3>3, <3>4
    <3>6. ASSUME NEW i PROVE (\E n \in S2 : i \in Owned(h2, n)) <=> (\E n \in S : i \in Owned(h,
                 n)) \/ i \in Owned(h, x)
      BY <3>2, <3>5
    <3>7. \A i : i \in U <=> \E n \in S2 : i \in Owned(h2, n)
      BY <2>2, <3>4
    <3>8. \A i : i \in V <=> \E n \in S : i \in Owned(h, n)
      BY <2>2, <3>4
    <3> QED BY ONLY <3>6, <3>7, <3>8
  <2>3. Package(h2, l) = {l} \cup Owned(h2, l) \cup U /\ Package(h, l) = {l} \cup Owned(h, l) \cup V
    BY <2>2 DEF Package
  <2> QED BY ONLY <1>2, <2>1, <2>3 DEF Archive
<1>6. ASSUME NEW m \in DOMAIN h, h[m].kind = "loader", m # l PROVE Package(h2, m) = Package(h, m)
  <2>1. h2[m] = h[m] /\ Owned(h2, m) = Owned(h, m)
    BY <1>2, <1>6
  <2>2. \A n \in Range(h[m].parts) : Owned(h2, n) = Owned(h, n)
    BY <1>4, <1>6
  <2> QED BY <2>1, <2>2 DEF Package
<1> QED BY <1>2, <1>5, <1>6 DEF KeptOne

\* The games and tickets, when a package has more archives
OfGames(h, g) == UNION { Game(h, g[a]) : a \in DOMAIN g }

\* Then the games have one archive more ...
LEMMA KeptGames ==
  ASSUME NEW h, NEW h2, NEW l, NEW x, KeepsOne(h, h2, l, x), KeptOne(h, h2, l, x), NEW g,
         GamesOk(h, g), l \in Loaders(g)
  PROVE  OfGames(h2, g) = OfGames(h, g) \cup Archive(h, x)
<1>1. ASSUME NEW a \in DOMAIN g
      PROVE  Game(h2, g[a]) = Game(h, g[a]) \cup IF g[a].loader = l THEN Archive(h, x) ELSE {}
  <2>0. l # None
    BY DEF Loaders
  <2>1. CASE g[a].loader = None
    BY <2>0, <2>1 DEF Game
  <2>2. CASE g[a].loader # None
    <3>1. g[a].loader \in DOMAIN h /\ h[g[a].loader].kind = "loader"
      BY <2>2 DEF GamesOk, IsPackageOver
    <3>2. CASE g[a].loader = l
      BY <2>0, <2>2, <3>2 DEF Game, KeptOne
    <3>3. CASE g[a].loader # l
      <4>1. Package(h2, g[a].loader) = Package(h, g[a].loader)
        BY <3>1, <3>3 DEF KeptOne
      <4> QED BY <2>2, <3>3, <4>1 DEF Game
    <3> QED BY <3>2, <3>3
  <2> QED BY <2>1, <2>2
<1>2. PICK b \in DOMAIN g : g[b].loader = l
  BY DEF Loaders
<1>3. ASSUME NEW i
      PROVE  (\E a \in DOMAIN g : i \in Game(h2, g[a])) <=> (\E a \in DOMAIN g : i \in Game(h,
             g[a])) \/ i \in Archive(h, x)
  BY <1>1, <1>2
<1>4. \A i : i \in OfGames(h2, g) <=> \E a \in DOMAIN g : i \in Game(h2, g[a])
  BY DEF OfGames
<1>5. \A i : i \in OfGames(h, g) <=> \E a \in DOMAIN g : i \in Game(h, g[a])
  BY DEF OfGames
<1> QED BY ONLY <1>3, <1>4, <1>5

\* What the other calls are trusted with
LEMMA KeptTrust ==
  ASSUME NEW h, NEW h2, NEW l, NEW x, KeepsOne(h, h2, l, x), KeptOne(h, h2, l, x), NEW g, NEW k,
         NEW s, NEW ses,
         NEW c, IsCall(ses, h, g, c), c.op # "nx_sys_destroy", c.op = "loader_destroy" => c.x # l
  PROVE  Trust(h2, g, k, s, c) = Trust(h, g, k, s, c)
<1>0. HeapOk(h) /\ Stable(h, h2) /\ h[l].kind = "loader" /\ DOMAIN h2 = DOMAIN h
        /\ \A i \in DOMAIN h : i # l => h2[i] = h[i]
  BY DEF KeepsOne, KeptOne
<1>1. CASE c.op = "content_archive_create"
  <2>1. c.dir \in DOMAIN h
    BY <1>1 DEF IsCall
  <2>2. CASE h[c.dir].kind = "romfs"
    <3>1. c.dir # l
      BY <1>0, <2>2
    <3>2. h2[c.dir].parts = h[c.dir].parts /\ h2[c.dir].kind = h[c.dir].kind
      BY <1>0, <2>1, <3>1
    <3>3. HeldIn(h2, c.dir, c.e.name) = HeldIn(h, c.dir, c.e.name)
      BY <1>0, <2>1, <3>2, HeldStays
    <3> QED BY <1>1, <3>2, <3>3 DEF Trust
  <2>3. CASE h[c.dir].kind # "romfs"
    <3>1. h2[c.dir].kind = h[c.dir].kind
      BY <1>0, <2>1 DEF Stable
    <3> QED BY <1>1, <2>3, <3>1 DEF Trust
  <2> QED BY <2>2, <2>3
<1>2. CASE c.op \in {"list_push", "content_archive_destroy"}
  <2>1. c.x \in DOMAIN h /\ h[c.x].kind = "nca"
    BY <1>2 DEF IsCall
  <2>2. c.x # l
    BY <1>0, <2>1
  <2>3. Archive(h2, c.x) = Archive(h, c.x)
    BY <2>1, <2>2 DEF KeptOne
  <2> QED BY <1>2, <2>3 DEF Trust
<1>3. CASE c.op = "close_archive"
  <2>1. c.x \in DOMAIN h /\ h[c.x].kind = "nca"
    BY <1>3 DEF IsCall
  <2>2. Below(h2, c.x) = Below(h, c.x) /\ h2[c.x].base = h[c.x].base
    BY <1>0, <2>1, StableFacts DEF Stable
  <2> QED BY <1>3, <2>2 DEF Trust
<1>4. CASE c.op \in {"close_wrapped", "destroy_package"}
  <2>1. c.x \in DOMAIN h
    BY <1>4 DEF IsCall
  <2>2. h2[c.x].base = h[c.x].base /\ h2[c.x].dir = h[c.x].dir
    BY <1>0, <2>1 DEF Stable
  <2> QED BY <1>4, <2>2 DEF Trust
<1>5. CASE c.op = "loader_destroy"
  <2>1. c.x \in DOMAIN h /\ h[c.x].kind = "loader" /\ c.x # l
    BY <1>5 DEF IsCall, IsPackageOver
  <2>2. Package(h2, c.x) = Package(h, c.x)
    BY <2>1 DEF KeptOne
  <2> QED BY <1>5, <2>2 DEF Trust
<1>6. CASE c.op \notin {"content_archive_create", "list_push", "content_archive_destroy",
           "close_archive", "close_wrapped",
                        "destroy_package", "loader_destroy"}
  BY <1>6 DEF Trust
<1> QED BY <1>1, <1>2, <1>3, <1>4, <1>5, <1>6

\* What they find
LEMMA KeptReady ==
  ASSUME NEW h, NEW h2, NEW l, NEW x, KeepsOne(h, h2, l, x), KeptOne(h, h2, l, x), NEW g,
         GamesOk(h, g), NEW k, NEW s, NEW ses,
         NEW c, IsCall(ses, h, g, c), IsReady(h, k, c), Trust(h, g, k, s, c) \cap Archive(h, x) = {}
  PROVE  IsReady(h2, k, c)
<1>0. /\ HeapOk(h) /\ Stable(h, h2) /\ h[l].kind = "loader" /\ DOMAIN h2 = DOMAIN h
           /\ \A i \in DOMAIN h : i # l => h2[i] = h[i]
      /\ x \in Archive(h, x)
  BY DEF KeepsOne, KeptOne, Archive
<1>1. \A i \in DOMAIN h : i # x /\ Unowned(h, i) => Unowned(h2, i)
  <2>1. \A i \in DOMAIN h : Owned(h2, i) \subseteq Owned(h, i) \cup {x}
    BY DEF KeptOne
  <2> QED BY <1>0, <2>1 DEF Unowned
<1>2. ASSUME c.op = "nsz_addfile", c.e.kind \in {"nca", "ncz"}
      PROVE HeldIn(h2, h2[c.owner].base, c.e.name) = {}
  <2>1. c.owner \in Loaders(g) /\ h[c.owner].base # None
    BY <1>2 DEF IsCall, OpsOfPackages
  <2>2. c.owner \in DOMAIN h /\ h[c.owner].base \in DOMAIN h /\ h[h[c.owner].base].kind = "romfs"
    BY <1>0, <2>1, LoaderFacts
  <2>3. PICK b : b = h[c.owner].base
    OBVIOUS
  <2>4. b \in DOMAIN h /\ h2[b] = h[b] /\ h2[c.owner].base = b
    BY <1>0, <2>2, <2>3 DEF Stable
  <2>5. HeldIn(h2, b, c.e.name) = HeldIn(h, b, c.e.name)
    BY <1>0, <2>4, HeldStays
  <2>6. HeldIn(h, b, c.e.name) = {}
    BY <1>2, <2>3 DEF IsReady
  <2> QED BY <2>4, <2>5, <2>6
<1>3. ASSUME c.op = "content_archive_create", c.owner # None, h2[c.owner].base # None
      PROVE  \E i \in DOMAIN h2 : HeldIn(h2, c.dir, c.e.name) = {i} /\ Unowned(h2, i)
                           /\ h2[i].base \in {None, h2[h2[c.owner].dir].base}
  <2>1. c.owner \in Loaders(g)
          /\ c.dir = (IF h[c.owner].base = None THEN h[c.owner].dir ELSE h[c.owner].base)
    BY <1>3 DEF IsCall
  <2>2. c.owner \in DOMAIN h /\ h[c.owner].dir \in DOMAIN h
    BY <1>0, <2>1, LoaderFacts
  <2>3. h2[c.owner].base = h[c.owner].base /\ h2[c.owner].dir = h[c.owner].dir
          /\ h2[h[c.owner].dir].base = h[h[c.owner].dir].base
    BY <1>0, <2>2 DEF Stable
  <2>4. c.dir = h[c.owner].base /\ c.dir \in DOMAIN h /\ h[c.dir].kind = "romfs"
    BY <1>0, <1>3, <2>1, <2>3, LoaderFacts
  <2>5. PICK i \in DOMAIN h : HeldIn(h, c.dir, c.e.name) = {i} /\ Unowned(h, i)
          /\ h[i].base \in {None, h[h[c.owner].dir].base}
    BY <1>3, <2>3 DEF IsReady
  <2>6. i # x
    <3>1. Trust(h, g, k, s, c) = HeldIn(h, c.dir, c.e.name)
      BY <1>3, <2>4 DEF Trust
    <3> QED BY <1>0, <2>5, <3>1
  <2>7. HeldIn(h2, c.dir, c.e.name) = {i}
    <3>1. h2[c.dir].parts = h[c.dir].parts
      BY <1>0, <2>4
    <3> QED BY <1>0, <2>4, <2>5, <3>1, HeldStays
  <2>8. h2[i].base = h[i].base
    BY <1>0, <2>5 DEF Stable
  <2> QED BY <1>0, <1>1, <2>3, <2>5, <2>6, <2>7, <2>8
<1>4. ASSUME c.op = "list_push" PROVE Unowned(h2, c.x) /\ Grounded(h2, c.dir, c.x)
  <2>1. c.dir \in Loaders(g) /\ c.x \in DOMAIN h /\ h[c.x].kind = "nca" /\ c.dir \in DOMAIN h
    BY <1>4 DEF IsCall
  <2>2. h[c.dir].kind = "loader"
    BY <1>0, <2>1, LoaderFacts
  <2>3. Unowned(h, c.x) /\ Grounded(h, c.dir, c.x)
    BY <1>4 DEF IsReady
  <2>4. Trust(h, g, k, s, c) = Archive(h, c.x) /\ c.x \in Archive(h, c.x)
    BY <1>4 DEF Trust, Archive
  <2>5. c.x # x /\ c.x # l
    BY <1>0, <2>1, <2>4
  <2>6. Archive(h2, c.x) = Archive(h, c.x)
    BY <2>1, <2>5 DEF KeptOne
  <2>7. PICK b, m : b = c.x /\ m = c.dir
    OBVIOUS
  <2>8. Grounded(h2, m, b)
    BY <1>0, <2>1, <2>2, <2>3, <2>6, <2>7, GroundedStays
  <2> QED BY <1>1, <2>1, <2>3, <2>5, <2>7, <2>8
<1>5. c.op = "keys_db_add_ticket" => \A i \in Range(k) : i < c.x
  BY DEF IsReady
<1> QED BY <1>2, <1>3, <1>4, <1>5 DEF IsReady

\* ... which is what nx_sys_destroy is trusted with.
LEMMA TrustOfGames ==
  ASSUME NEW h, NEW g, NEW k, NEW s, NEW c, c.op = "nx_sys_destroy"
  PROVE  /\ Trust(h, g, k, s, c) = OfGames(h, g) \cup Range(k)
         /\ \A i : i \in OfGames(h, g) <=> \E a \in DOMAIN g : i \in Game(h, g[a])
<1>1. Trust(h, g, k, s, c) = OfGames(h, g) \cup Range(k)
  BY DEF Trust, OfGames
<1>2. \A i : i \in OfGames(h, g) <=> \E a \in DOMAIN g : i \in Game(h, g[a])
  BY DEF OfGames
<1> QED BY <1>1, <1>2

\* A package and its file are the end's.
LEMMA PackageOfGames ==
  ASSUME NEW h, NEW g, GamesOk(h, g), NEW l \in Loaders(g)
  PROVE  Package(h, l) \subseteq OfGames(h, g) /\ h[h[l].dir].base \in OfGames(h, g)
<1>1. PICK a \in DOMAIN g : g[a].loader = l /\ l # None
  BY DEF Loaders
<1>2. Package(h, l) \subseteq Game(h, g[a]) /\ g[a].file \in Game(h, g[a])
  BY <1>1 DEF Game
<1>3. h[h[l].dir].base = g[a].file
  BY <1>1 DEF GamesOk, IsPackageOver
<1> QED BY <1>2, <1>3 DEF OfGames

\* PushArchive keeps the invariant, and uses and closes only what is live.
LEMMA PushArchiveStep ==
  ASSUME Ok, PushArchive
  PROVE  Ok' /\ fault' = fault
<1>n. PICK n : n = Len(todo)
  OBVIOUS
<1>a. PICK l, x, C, h2 : l = Head(todo).dir /\ x = Head(todo).x /\ C = After(todo, n) /\ h2 = heap'
  OBVIOUS
<1>0. /\ Calling("list_push") /\ h2 = [heap EXCEPT ![l].parts = Append(@, x)] /\ SameLists
      /\ Use({l}) /\ Then(<<>>)
  BY <1>a DEF PushArchive, Arg
<1>1. /\ HeapOk(heap) /\ GamesOk(heap, games) /\ Head(todo).op = "list_push" /\ todo # <<>>
      /\ IsCall(session, heap, games, Head(todo))
      /\ IsPlaced(heap, games, tickets, services, Head(todo), After(todo, n))
      /\ IsReady(heap, tickets, Head(todo))
      /\ Trust(heap, games, tickets, services, Head(todo)) \subseteq Live(heap)
      /\ ListsOk(heap, games, tickets, services)
      /\ n \in Turns(todo) /\ At(todo, n) = Head(todo) /\ n \in Nat \ {0}
      /\ TrustOk(todo, heap, games, tickets, services)
  BY <1>0, <1>n, OkFacts
<1>2. Trust(heap, games, tickets, services, Head(todo)) = Archive(heap, x)
  BY <1>1, <1>a DEF Trust
<1>3. l \in Loaders(games) /\ x \in DOMAIN heap /\ heap[x].kind = "nca"
        /\ Later(C, "nx_sys_destroy") /\ Unowned(heap, x) /\ Grounded(heap, l, x)
  BY <1>1, <1>a DEF IsCall, IsPlaced, IsReady
<1>4. l \in DOMAIN heap /\ heap[l].kind = "loader" /\ l # None
  BY <1>1, <1>3, LoaderFacts
<1>5. KeepsOne(heap, h2, l, x)
  BY <1>0, <1>1, <1>3, <1>4 DEF KeepsOne
<1>6. KeptOne(heap, h2, l, x)
  BY <1>5, KeepingOne
<1>7. /\ HeapOk(h2) /\ Stable(heap, h2) /\ DOMAIN h2 = DOMAIN heap /\ Live(h2) = Live(heap)
      /\ \A i \in DOMAIN heap : i # l => h2[i] = heap[i]
  BY <1>6 DEF KeptOne
<1>8. /\ \A b \in C : IsCall(session, heap, games, b) /\ IsReady(heap, tickets, b)
                      /\ Trust(heap, games, tickets, services, b) \cap Archive(heap, x) = {}
      /\ \A d \in 1 .. n - 1 : At(todo, d) \in C /\ d \in Turns(todo)
  BY <1>1, <1>2, <1>n, <1>a, HeadFacts DEF Ok
<1>9. PICK z : IsTurn(todo, n, z, "nx_sys_destroy")
  <2>1. Level("nx_sys_destroy") \in Once
    BY Levels DEF Once
  <2> QED BY <1>1, <1>3, <1>n, <1>a, <2>1, TheTurn DEF Ok
<1>10. z \in 1 .. n - 1 /\ At(todo, z).op = "nx_sys_destroy" /\ z \in Turns(todo)
  BY <1>8, <1>9 DEF IsTurn
<1>11. l \in Package(heap, l)
  BY DEF Package
<1>12. l \in Trust(heap, games, tickets, services, At(todo, z))
  <2>1. Package(heap, l) \subseteq OfGames(heap, games)
    BY <1>1, <1>3, PackageOfGames
  <2>2. OfGames(heap, games) \subseteq Trust(heap, games, tickets, services, At(todo, z))
    BY <1>10, TrustOfGames
  <2> QED BY <1>11, <2>1, <2>2
<1>13. ASSUME NEW d \in 1 .. n - 1
       PROVE  Trust(h2, games, tickets, services, At(todo, d))
                = Trust(heap, games, tickets, services,
                  At(todo, d)) \cup IF d = z THEN Archive(heap, x) ELSE {}
  <2>1. CASE d = z
    <3>1. OfGames(h2, games) = OfGames(heap, games) \cup Archive(heap, x)
      BY <1>1, <1>3, <1>5, <1>6, KeptGames
    <3>2. PICK c : c = At(todo, d)
      OBVIOUS
    <3>3. c.op = "nx_sys_destroy"
      BY <1>10, <2>1, <3>2
    <3>4. Trust(h2, games, tickets, services, c) = OfGames(h2, games) \cup Range(tickets)
      BY <3>3, TrustOfGames
    <3>5. Trust(heap, games, tickets, services, c) = OfGames(heap, games) \cup Range(tickets)
      BY <3>3, TrustOfGames
    <3> QED BY <2>1, <3>1, <3>2, <3>4, <3>5
  <2>2. CASE d # z
    <3>1. PICK c : c = At(todo, d)
      OBVIOUS
    <3>2. c.op # "nx_sys_destroy" /\ IsCall(session, heap, games, c) /\ d \in Turns(todo)
      BY <1>8, <1>9, <2>2, <3>1 DEF IsTurn
    <3>3. c.op = "loader_destroy" => c.x # l
      <4>1. SUFFICES ASSUME c.op = "loader_destroy", c.x = l PROVE FALSE
        OBVIOUS
      <4>2. l \in Trust(heap, games, tickets, services, c)
        BY <1>11, <4>1 DEF Trust
      <4>3. ASSUME NEW e \in Turns(todo), NEW f \in Turns(todo), f < e
            PROVE  Trust(heap, games, tickets, services, At(todo, f)) \cap Trust(heap, games,
                   tickets, services, At(todo, e)) = {}
        <5>1. f \in 1 .. e - 1
          BY <1>1, <4>3, SequenceIs DEF Turns, Ok, StateOk, CallsOk
        <5> QED BY <1>1, <5>1 DEF TrustOk
      <4>4. d < z \/ z < d
        BY <1>10, <2>2
      <4> QED BY <1>10, <1>12, <3>1, <3>2, <4>2, <4>3, <4>4
    <3>4. Trust(h2, games, tickets, services, c) = Trust(heap, games, tickets, services, c)
      BY <1>5, <1>6, <3>2, <3>3, KeptTrust
    <3> QED BY <2>2, <3>1, <3>4
  <2> QED BY <2>1, <2>2
<1>14. ASSUME NEW b \in C PROVE IsReady(h2, tickets, b)
  BY <1>1, <1>5, <1>6, <1>8, KeptReady
<1>15. Takes(session, h2, games, tickets, services, C, <<>>)
         /\ Entrusted(h2, games, tickets, services, <<>>) = {}
  BY TakesNone, Zenon
<1>16. IsQuiet(Head(todo), <<>>) /\ Rises(Head(todo), <<>>)
  BY <1>1, QuietNone
<1>17. ListOk(heap, tickets, "tik") /\ ListOk(heap, services, "service")
  BY <1>1 DEF ListsOk
<1>18. ListOk(h2, tickets, "tik") /\ ListOk(h2, services, "service")
  BY <1>1, <1>7, <1>17, ListsStay
<1>19. \A i \in DOMAIN heap : heap[i].kind = "nca" => h2[i] = heap[i]
  BY <1>4, <1>7
<1>20. Growing(heap, h2, games, games)
  BY <1>7, <1>19 DEF Growing, Items
<1>21. \A i \in Live(heap) : Dropped(heap, tickets, i) => Dropped(h2, tickets, i)
  BY <1>7, <1>17, DroppedStays DEF Live
<1>22. ASSUME NEW i \in Archive(heap, x), NEW j \in Over(h2, i)
       PROVE Assured(h2, games, tickets, services, After(todo, z + 1), j)
  <2>1. i \in DOMAIN heap
    BY <1>1, <1>3, ArchiveFacts
  <2>2. j \in Over(heap, i)
    BY <1>1, <1>7, <1>22, <2>1, StableFacts
  <2>3. j \in Archive(heap, x) \cup Ground(heap, l) /\ j # None
    BY <1>3, <1>22, <2>2 DEF Grounded, Over
  <2>4. j \in Archive(heap, x) \cup OfGames(heap, games)
    <3>1. Package(heap, l) \subseteq OfGames(heap, games)
            /\ heap[heap[l].dir].base \in OfGames(heap, games)
      BY <1>1, <1>3, PackageOfGames
    <3>2. {heap[l].dir, heap[l].base} \ {None} \subseteq Package(heap, l)
      BY <1>4 DEF Package, Owned
    <3> QED BY <2>3, <3>1, <3>2 DEF Ground
  <2>5. j \in Trust(h2, games, tickets, services, At(todo, z))
    <3>1. OfGames(heap, games) \subseteq Trust(heap, games, tickets, services, At(todo, z))
      BY <1>10, TrustOfGames
    <3> QED BY <1>10, <1>13, <2>4, <3>1
  <2>6. At(todo, z) \in After(todo, z + 1)
    BY <1>10 DEF After
  <2> QED BY <1>10, <2>5, <2>6 DEF Assured, Whole
<1>23. z \in 0 .. n - 1 /\ z # 0 /\ At(todo, z).op # "free"
  BY <1>1, <1>10
<1>24. Handed(todo, heap, games, tickets, services, <<>>, n, h2, games, tickets, services, {}, z,
         Archive(heap, x))
  BY <1>1, <1>2, <1>7, <1>13, <1>15, <1>21, <1>22, <1>23 DEF Handed
<1>25. Ok'
  <2>1. heap' = h2 /\ services' = services /\ tickets' = tickets /\ games' = games /\ Same
    BY <1>0, <1>a DEF SameLists
  <2>2. \A i \in DOMAIN heap : heap[i].kind = "nca" /\ heap[i].romfs_list # <<>>
          => h2[i].romfs_list # <<>>
    BY <1>19
  <2>3. QuietIs(session, todo, heap, games, tickets, services, <<>>, todo', n, h2, tickets,
          services)
    BY <1>0, <1>1, <1>n, <1>a, <1>7, <1>14, <1>15, <1>16, <1>18, <1>20, <2>2 DEF QuietIs, Ok, Then
  <2>4. StateOk(session, todo', h2, games, tickets, services)
    BY <1>24, <2>3, QuietStep
  <2> QED BY <2>1, <2>4 DEF Ok, Same
<1>26. l \in Live(heap)
  <2>1. Assured(heap, games, tickets, services, C, l)
    BY <1>3, <1>11, PackageAssured
  <2> QED BY <1>1, <1>n, <1>a, <2>1, AssuredFacts DEF Ok
<1> QED BY <1>0, <1>25, <1>26, Unused

\* What the calls are trusted with when an archive has one directory more
LEMMA SectionTrust ==
  ASSUME NEW h, NEW h2, NEW x, NEW p, NEW kind, AddsSection(h, h2, x, p, kind),
         SectionAdded(h, h2, x, p, kind),
         NEW ses, NEW g, GamesOk(h, g), NEW k, NEW s, NEW c, IsCall(ses, h, g, c),
         x \notin Trust(h, g, k, s, c)
  PROVE  Trust(h2, g, k, s, c) = Trust(h, g, k, s, c)
<1>0. /\ HeapOk(h) /\ Stable(h, h2) /\ h[x].kind = "nca" /\ x \in DOMAIN h /\ DOMAIN h2 = DOMAIN h
      /\ \A i \in DOMAIN h : i # x => h2[i] = h[i] /\ Owned(h2, i) = Owned(h, i)
           /\ Archive(h2, i) = Archive(h, i)
      /\ \A i \in DOMAIN h : h2[i].parts = h[i].parts
  BY DEF AddsSection, SectionAdded
<1>p. ASSUME NEW l \in DOMAIN h, h[l].kind = "loader", x \notin Package(h, l)
      PROVE  Package(h2, l) = Package(h, l)
  <2>1. l # x /\ h2[l] = h[l] /\ Owned(h2, l) = Owned(h, l)
    BY <1>0, <1>p
  <2>2. \A n \in Range(h[l].parts) : n \in DOMAIN h /\ n # x
    BY <1>0, <1>p, LoaderParts DEF Package, Owned
  <2>3. \A n \in Range(h[l].parts) : Owned(h2, n) = Owned(h, n)
    BY <1>0, <2>2
  <2> QED BY <2>1, <2>3 DEF Package
<1>1. CASE c.op = "content_archive_create"
  <2>1. c.dir \in DOMAIN h
    BY <1>1 DEF IsCall
  <2>2. h2[c.dir].parts = h[c.dir].parts /\ h2[c.dir].kind = h[c.dir].kind
    BY <1>0, <2>1 DEF Stable
  <2>3. HeldIn(h2, c.dir, c.e.name) = HeldIn(h, c.dir, c.e.name)
    BY <1>0, <2>1, <2>2, HeldStays
  <2> QED BY <1>1, <2>2, <2>3 DEF Trust
<1>2. CASE c.op \in {"list_push", "content_archive_destroy"}
  <2>1. c.x \in DOMAIN h /\ Trust(h, g, k, s, c) = Archive(h, c.x)
    BY <1>2 DEF IsCall, Trust
  <2>2. c.x # x
    BY <2>1 DEF Archive
  <2>3. Archive(h2, c.x) = Archive(h, c.x)
    BY <1>0, <2>1, <2>2
  <2> QED BY <1>2, <2>3 DEF Trust
<1>3. CASE c.op = "close_archive"
  <2>1. c.x \in DOMAIN h /\ h[c.x].kind = "nca"
    BY <1>3 DEF IsCall
  <2>2. Below(h2, c.x) = Below(h, c.x) /\ h2[c.x].base = h[c.x].base
    BY <1>0, <2>1, StableFacts DEF Stable
  <2> QED BY <1>3, <2>2 DEF Trust
<1>4. CASE c.op \in {"close_wrapped", "destroy_package"}
  <2>1. c.x \in DOMAIN h
    BY <1>4 DEF IsCall
  <2>2. h2[c.x].base = h[c.x].base /\ h2[c.x].dir = h[c.x].dir
    BY <1>0, <2>1 DEF Stable
  <2> QED BY <1>4, <2>2 DEF Trust
<1>5. CASE c.op = "loader_destroy"
  <2>1. c.x \in DOMAIN h /\ h[c.x].kind = "loader"
          /\ Trust(h, g, k, s, c) = {c.dir} \cup Package(h, c.x)
    BY <1>5 DEF IsCall, IsPackageOver, Trust
  <2>2. Package(h2, c.x) = Package(h, c.x)
    BY <1>p, <2>1
  <2> QED BY <1>5, <2>2 DEF Trust
<1>6. CASE c.op = "nx_sys_destroy"
  <2>1. Trust(h, g, k, s, c) = OfGames(h, g) \cup Range(k)
          /\ \A i : i \in OfGames(h, g) <=> \E a \in DOMAIN g : i \in Game(h, g[a])
    BY <1>6, TrustOfGames
  <2>2. Trust(h2, g, k, s, c) = OfGames(h2, g) \cup Range(k)
          /\ \A i : i \in OfGames(h2, g) <=> \E a \in DOMAIN g : i \in Game(h2, g[a])
    BY <1>6, TrustOfGames
  <2>3. ASSUME NEW a \in DOMAIN g PROVE Game(h2, g[a]) = Game(h, g[a])
    <3>1. CASE g[a].loader = None
      BY <3>1 DEF Game
    <3>2. CASE g[a].loader # None
      <4>1. g[a].loader \in DOMAIN h /\ h[g[a].loader].kind = "loader"
        BY <3>2 DEF GamesOk, IsPackageOver
      <4>2. Game(h, g[a]) = {g[a].file} \cup Package(h, g[a].loader)
        BY <3>2 DEF Game
      <4>3. x \notin Package(h, g[a].loader)
        BY <2>1, <4>2
      <4>4. Package(h2, g[a].loader) = Package(h, g[a].loader)
        BY <1>p, <4>1, <4>3
      <4> QED BY <3>2, <4>4 DEF Game
    <3> QED BY <3>1, <3>2
  <2>4. OfGames(h2, g) = OfGames(h, g)
    BY <2>1, <2>2, <2>3
  <2> QED BY <2>1, <2>2, <2>4
<1>7. CASE c.op \notin {"content_archive_create", "list_push", "content_archive_destroy",
           "close_archive", "close_wrapped",
                        "destroy_package", "loader_destroy", "nx_sys_destroy"}
  BY <1>7 DEF Trust
<1> QED BY <1>1, <1>2, <1>3, <1>4, <1>5, <1>6, <1>7

\* What they find
LEMMA SectionReady ==
  ASSUME NEW h, NEW h2, NEW x, NEW p, NEW kind, AddsSection(h, h2, x, p, kind),
         SectionAdded(h, h2, x, p, kind),
         NEW ses, NEW g, GamesOk(h, g), NEW k, NEW s, NEW c, IsCall(ses, h, g, c), IsReady(h, k, c),
         p.file \notin Trust(h, g, k, s, c), p.fs \notin Trust(h, g, k, s, c)
  PROVE  IsReady(h2, k, c)
<1>0. /\ HeapOk(h) /\ Stable(h, h2) /\ h[x].kind = "nca" /\ x \in DOMAIN h /\ DOMAIN h2 = DOMAIN h
      /\ \A i \in DOMAIN h : i # x => h2[i] = h[i] /\ Owned(h2, i) = Owned(h, i)
           /\ Archive(h2, i) = Archive(h, i)
      /\ \A i \in DOMAIN h : h2[i].parts = h[i].parts
      /\ Owned(h2, x) = Owned(h, x) \cup {p.file, p.fs} /\ IsSection(h, x, p, kind)
  BY DEF AddsSection, SectionAdded
<1>1. \A i \in DOMAIN h : i \notin {p.file, p.fs} /\ Unowned(h, i) => Unowned(h2, i)
  <2>1. \A i \in DOMAIN h : Owned(h2, i) \subseteq Owned(h, i) \cup {p.file, p.fs}
    BY <1>0
  <2> QED BY <1>0, <2>1 DEF Unowned
<1>2. ASSUME c.op = "nsz_addfile", c.e.kind \in {"nca", "ncz"}
      PROVE HeldIn(h2, h2[c.owner].base, c.e.name) = {}
  <2>1. c.owner \in Loaders(g) /\ h[c.owner].base # None
    BY <1>2 DEF IsCall, OpsOfPackages
  <2>2. c.owner \in DOMAIN h /\ h[c.owner].base \in DOMAIN h /\ h[h[c.owner].base].kind = "romfs"
    BY <1>0, <2>1, LoaderFacts
  <2>3. PICK b : b = h[c.owner].base
    OBVIOUS
  <2>4. b \in DOMAIN h /\ h2[b].parts = h[b].parts /\ h2[c.owner].base = b
    BY <1>0, <2>2, <2>3 DEF Stable
  <2>5. HeldIn(h2, b, c.e.name) = HeldIn(h, b, c.e.name)
    BY <1>0, <2>4, HeldStays
  <2>6. HeldIn(h, b, c.e.name) = {}
    BY <1>2, <2>3 DEF IsReady
  <2> QED BY <2>4, <2>5, <2>6
<1>3. ASSUME c.op = "content_archive_create", c.owner # None, h2[c.owner].base # None
      PROVE  \E i \in DOMAIN h2 : HeldIn(h2, c.dir, c.e.name) = {i} /\ Unowned(h2, i)
                           /\ h2[i].base \in {None, h2[h2[c.owner].dir].base}
  <2>1. c.owner \in Loaders(g)
          /\ c.dir = (IF h[c.owner].base = None THEN h[c.owner].dir ELSE h[c.owner].base)
    BY <1>3 DEF IsCall
  <2>2. c.owner \in DOMAIN h /\ h[c.owner].dir \in DOMAIN h
    BY <1>0, <2>1, LoaderFacts
  <2>3. h2[c.owner].base = h[c.owner].base /\ h2[c.owner].dir = h[c.owner].dir
          /\ h2[h[c.owner].dir].base = h[h[c.owner].dir].base
    BY <1>0, <2>2 DEF Stable
  <2>4. c.dir = h[c.owner].base /\ c.dir \in DOMAIN h /\ h[c.dir].kind = "romfs"
    BY <1>0, <1>3, <2>1, <2>3, LoaderFacts
  <2>5. PICK i \in DOMAIN h : HeldIn(h, c.dir, c.e.name) = {i} /\ Unowned(h, i)
          /\ h[i].base \in {None, h[h[c.owner].dir].base}
    BY <1>3, <2>3 DEF IsReady
  <2>6. i \notin {p.file, p.fs}
    <3>1. Trust(h, g, k, s, c) = HeldIn(h, c.dir, c.e.name)
      BY <1>3, <2>4 DEF Trust
    <3> QED BY <2>5, <3>1
  <2>7. HeldIn(h2, c.dir, c.e.name) = {i}
    <3>1. h2[c.dir].parts = h[c.dir].parts
      BY <1>0, <2>4
    <3> QED BY <1>0, <2>4, <2>5, <3>1, HeldStays
  <2>8. h2[i].base = h[i].base
    BY <1>0, <2>5 DEF Stable
  <2> QED BY <1>0, <1>1, <2>3, <2>5, <2>6, <2>7, <2>8
<1>4. ASSUME c.op = "list_push" PROVE Unowned(h2, c.x) /\ Grounded(h2, c.dir, c.x)
  <2>1. c.dir \in Loaders(g) /\ c.x \in DOMAIN h /\ h[c.x].kind = "nca" /\ c.dir \in DOMAIN h
    BY <1>4 DEF IsCall
  <2>2. h[c.dir].kind = "loader"
    BY <1>0, <2>1, LoaderFacts
  <2>3. Unowned(h, c.x) /\ Grounded(h, c.dir, c.x)
    BY <1>4 DEF IsReady
  <2>4. c.x \notin {p.file, p.fs}
    BY <1>4 DEF Trust, Archive
  <2>5. PICK b, m : b = c.x /\ m = c.dir
    OBVIOUS
  <2>6. CASE b # x
    <3>1. Archive(h2, b) = Archive(h, b)
      BY <1>0, <2>1, <2>5, <2>6
    <3>2. Grounded(h2, m, b)
      BY <1>0, <2>1, <2>2, <2>3, <2>5, <3>1, GroundedStays
    <3> QED BY <1>1, <2>1, <2>3, <2>4, <2>5, <3>2
  <2>7. CASE b = x
    <3>1. Archive(h2, x) = Archive(h, x) \cup {p.file, p.fs}
      BY <1>0 DEF Archive
    <3>2. Ground(h2, m) = Ground(h, m)
      BY <1>0, <2>1, <2>2, <2>5, GroundStays
    <3>3. p.file \in DOMAIN h /\ p.fs \in DOMAIN h
      <4>1. x \in Nat /\ Len(h) \in Nat /\ DOMAIN h = 1 .. Len(h)
        BY <1>0, ObjectFacts
      <4> QED BY <1>0, <4>1 DEF IsSection
    <3>4. Below(h, x) \in Archive(h, x)
      BY <1>0 DEF Archive, Owned
    <3>5. Over(h, p.file) \subseteq {Below(h, x)} /\ Over(h, p.fs) \subseteq {p.file}
      BY <1>0 DEF IsSection, Over
    <3>6. \A i \in Archive(h2, x) : i \in DOMAIN h
      BY <1>0, <3>1, <3>3, ArchiveFacts
    <3>7. \A i \in Archive(h2, x) : Over(h2, i) = Over(h, i)
      BY <1>0, <3>6, StableFacts
    <3>8. \A i \in Archive(h, x) : Over(h, i) \subseteq Archive(h, x) \cup Ground(h, m)
      BY <2>3, <2>5, <2>7 DEF Grounded
    <3>9. Grounded(h2, m, x)
      BY <3>1, <3>2, <3>4, <3>5, <3>7, <3>8 DEF Grounded
    <3> QED BY <1>1, <2>1, <2>3, <2>4, <2>5, <2>7, <3>9
  <2> QED BY <2>6, <2>7
<1>5. c.op = "keys_db_add_ticket" => \A i \in Range(k) : i < c.x
  BY DEF IsReady
<1> QED BY <1>2, <1>3, <1>4, <1>5 DEF IsReady

\* A layer over another object
Lays(h, h2, o, kd, b) ==
  /\ HeapOk(h) /\ b \in DOMAIN h /\ h[b].kind # "loader"
  /\ kd \in {"offset", "aes", "pfs", "romfs", "zipfile"}
  /\ o = Object(kd, b) /\ h2 = Append(h, o)

\* What follows from it.
Laid(h, h2, o, kd, b) ==
  /\ Comes(h, h2, o) /\ Came(h, h2, o) /\ o.kind = kd /\ o.base = b /\ o.dir = None /\ b # None

\* A directory or file laid over another leaves the heap sound.
LEMMA Laying ==
  ASSUME NEW h, NEW h2, NEW o, NEW kd, NEW b, Lays(h, h2, o, kd, b)
  PROVE  Laid(h, h2, o, kd, b)
<1>1. /\ HeapOk(h) /\ b \in DOMAIN h /\ h[b].kind # "loader"
      /\ kd \in {"offset", "aes", "pfs", "romfs", "zipfile"}
      /\ o = Object(kd, b) /\ h2 = Append(h, o)
  BY DEF Lays
<1>2. /\ o = [kind |-> o.kind, base |-> o.base, dir |-> o.dir, parts |-> <<>>,
              pfs_list |-> <<>>, romfs_list |-> <<>>, path |-> o.path, live |-> TRUE]
      /\ o.kind = kd /\ o.base = b /\ o.dir = None
  BY <1>1 DEF Object
<1>3. IsNew(h, o)
  BY <1>1, <1>2 DEF IsNew
<1>4. b # None
  BY <1>1, ObjectFacts DEF None
<1>5. Comes(h, h2, o)
  BY <1>1, <1>2, <1>3, <1>4 DEF Comes
<1>6. Came(h, h2, o)
  BY <1>5, Coming
<1> QED BY <1>2, <1>4, <1>5, <1>6 DEF Laid

\* A service whose archive has its directory, or will have
LEMMA ServingOn ==
  ASSUME NEW t, NEW q, NEW R, NEW n, NEW m, Puts(t, q, R, n, m), NEW h, Serving(t, h), NEW ses,
         NEW g,
         \A d \in Turns(t) : IsCall(ses, h, g, At(t, d)), n = Len(t),
         NEW h2, \A i \in DOMAIN h : h[i].kind = "nca" /\ h[i].romfs_list # <<>>
           => h2[i].romfs_list # <<>>,
         Head(t).op = "get_file" /\ Head(t).section.fs = "romfs"
           => h2[Head(t).nca].romfs_list # <<>>,
         m = 0
  PROVE  Serving(R, h2)
<1>1. /\ Turns(t) = 1 .. n /\ Turns(R) = 1 .. n - 1 /\ n \in Nat \ {0} /\ Len(R) = n - 1
      /\ \A d \in 1 .. n - 1 : At(R, d) = At(t, d)
      /\ At(t, n) = Head(t)
  BY DEF Puts
<1>2. SUFFICES ASSUME NEW d \in Turns(R), At(R, d).op = "service", At(R, d).e.svt
               PROVE  h2[At(R, d).nca].romfs_list # <<>> \/
                        \E e \in d + 1 .. Len(R) : At(R, e).op = "get_file"
                          /\ At(R, e).nca = At(R, d).nca
                                                   /\ At(R, e).section.fs = "romfs"
  BY DEF Serving
<1>3. PICK c : c = At(t, d)
  OBVIOUS
<1>4. d \in 1 .. n - 1 /\ d \in Turns(t) /\ At(R, d) = c /\ c.op = "service" /\ c.e.svt
  BY <1>1, <1>2, <1>3
<1>5. c.nca \in DOMAIN h /\ h[c.nca].kind = "nca"
  BY <1>3, <1>4 DEF IsCall
<1>6. CASE h[c.nca].romfs_list # <<>>
  BY <1>4, <1>5, <1>6
<1>7. CASE h[c.nca].romfs_list = <<>>
  <2>1. PICK e \in d + 1 .. n : At(t, e).op = "get_file" /\ At(t, e).nca = c.nca
          /\ At(t, e).section.fs = "romfs"
    BY <1>3, <1>4, <1>7 DEF Serving
  <2>2. CASE e = n
    BY <1>1, <1>4, <2>1, <2>2
  <2>3. CASE e # n
    <3>1. e \in d + 1 .. Len(R) /\ e \in 1 .. n - 1
      BY <1>1, <1>4, <2>1, <2>3
    <3> QED BY <1>1, <1>4, <2>1, <3>1
  <2> QED BY <2>2, <2>3
<1> QED BY <1>6, <1>7

\* GetFile keeps the invariant, and uses and closes only what is live.
LEMMA GetFileStep ==
  ASSUME Ok, GetFile
  PROVE  Ok' /\ fault' = fault
<1>n. PICK n : n = Len(todo)
  OBVIOUS
<1>a. PICK x, sec, kind, C, h2 : x = Head(todo).nca /\ sec = Head(todo).section /\ kind = sec.fs
        /\ C = After(todo, n) /\ h2 = heap'
  OBVIOUS
<1>b. PICK bs, u, y, ka : bs = SectionBase(x) /\ u = Len(heap) + 1 /\ y = Len(heap) + 2
        /\ ka = IF sec.ctr THEN "aes" ELSE "offset"
  OBVIOUS
<1>c. PICK o, r, p : o = Object(ka, bs) /\ r = Object(kind, u)
        /\ p = [file |-> u, fs |-> y, ctr |-> sec.ctr, icon |-> sec.icon]
  OBVIOUS
<1>1. Calling("get_file") /\ (sec.ctr /\ ~HasTitleKey(Head(todo).e) => Quit)
  BY <1>a DEF GetFile, Arg
<1>2. /\ HeapOk(heap) /\ GamesOk(heap, games) /\ Head(todo).op = "get_file" /\ todo # <<>>
      /\ IsCall(session, heap, games, Head(todo))
      /\ IsPlaced(heap, games, tickets, services, Head(todo), After(todo, n))
      /\ Trust(heap, games, tickets, services, Head(todo)) \subseteq Live(heap)
      /\ ListsOk(heap, games, tickets, services)
      /\ n \in Turns(todo) /\ At(todo, n) = Head(todo) /\ n \in Nat \ {0}
      /\ TrustOk(todo, heap, games, tickets, services)
      /\ IsSequence(todo)
  BY <1>1, <1>n, OkFacts
<1>3. CASE Quit
  BY <1>3, QuitStep
<1>4. CASE ~(sec.ctr /\ ~HasTitleKey(Head(todo).e))
<2>1. x \in DOMAIN heap /\ heap[x].kind = "nca" /\ kind \in {"pfs", "romfs"}
  BY <1>2, <1>a DEF IsCall
<2>2. Len(heap) \in Nat
  BY <1>2, SequenceIs DEF HeapOk
<2>3. /\ h2 = WithSection(x, sec, heap \o <<o, r>>) /\ Then(<<>>)
      /\ Use({x} \cup Chain(heap[x].base)) /\ SameLists
  <3>1. o = IF sec.ctr THEN EncryptedFile(x) ELSE DecryptedFile(x)
    BY <1>b, <1>c DEF EncryptedFile, DecryptedFile, Aes, Offset
  <3>2. r = IF sec.fs = "pfs" THEN Pfs(New) ELSE Romfs(New)
    BY <2>1, <1>a, <1>b, <1>c DEF Pfs, Romfs, New
  <3> QED BY <1>4, <1>a, <3>1, <3>2 DEF GetFile, Arg
<2>4. PICK h1, h0 : h0 = Append(heap, o) /\ h1 = Append(h0, r)
  OBVIOUS
<2>5. heap \o <<o, r>> = h1
  BY <1>2, <2>4, BehindTwo DEF HeapOk
<2>6. h2 = IF kind = "pfs" THEN [h1 EXCEPT ![x].pfs_list = Append(@,
        p)] ELSE [h1 EXCEPT ![x].romfs_list = Append(@, p)]
  <3>1. New = u /\ New + 1 = y
    BY <1>b, <2>2 DEF New
  <3> QED BY <1>a, <1>c, <2>3, <2>5, <3>1 DEF WithSection
<2>7. bs = Below(heap, x) /\ bs \in DOMAIN heap /\ heap[bs].kind # "loader"
        /\ heap[x].base \in DOMAIN heap
      /\ heap[heap[x].base].kind # "loader"
  <3>1. bs = Below(heap, x)
    BY <1>b DEF SectionBase, Backing, IsEncrypted, Below
  <3> QED BY <1>2, <2>1, <3>1, ArchiveFileIs DEF FileKinds
<2>8. Laid(heap, h0, o, ka, bs)
  <3>1. Lays(heap, h0, o, ka, bs)
    BY <1>2, <1>b, <1>c, <2>4, <2>7 DEF Lays
  <3> QED BY <3>1, Laying
<2>9. HeapOk(h0) /\ u \in DOMAIN h0 /\ h0[u] = o /\ o.kind = ka
  BY <1>b, <2>8 DEF Laid, Came
<2>10. Laid(h0, h1, r, kind, u)
  <3>1. Lays(h0, h1, r, kind, u)
    BY <1>b, <1>c, <2>1, <2>4, <2>9 DEF Lays
  <3> QED BY <3>1, Laying
<2>11. CameTwo(heap, h1, o, r, u, y)
  BY <1>b, <2>8, <2>10, ComingTwo DEF ComeTwo, Laid
<2>12. /\ HeapOk(h1) /\ Frame(heap, h1) /\ Live(h1) = Live(heap) \cup {u, y} /\ h1[u] = o
       /\ h1[y] = r
       /\ u \notin DOMAIN heap /\ y \notin DOMAIN heap /\ u # y /\ u \in DOMAIN h1
       /\ y \in DOMAIN h1
       /\ DOMAIN h1 = DOMAIN heap \cup {u, y}
       /\ \A i \in DOMAIN heap : i \in DOMAIN h1 /\ h1[i] = heap[i] /\ i < u /\ i < y
  BY <2>11 DEF CameTwo
<2>13. Steady(heap, h1) /\ Stable(heap, h1)
  BY <2>12 DEF Frame, Steady
<2>14. /\ o.kind = ka /\ o.base = bs /\ o.dir = None /\ r.kind = kind /\ r.base = u
       /\ r.dir = None /\ ka \in {"aes", "offset"}
  BY <1>b, <2>8, <2>10 DEF Laid
<2>15. \A i \in DOMAIN h1 \ DOMAIN heap : Owned(h1, i) = {}
  BY <2>1, <2>12, <2>14 DEF Owned
<2>16. \A i \in DOMAIN heap : Owned(h1, i) = Owned(heap, i) /\ Owned(heap, i) \subseteq DOMAIN heap
  BY <1>2, <2>13, SteadyFacts, OwnedFacts
<2>17. Unowned(h1, u) /\ Unowned(h1, y)
  BY <2>12, <2>15, <2>16 DEF Unowned
<2>18. IsSection(h1, x, p, kind)
  <3>1. Below(h1, x) = bs
    BY <1>2, <2>1, <2>7, <2>13, StableFacts
  <3>2. Len(h1) = Len(heap) + 2
    BY <2>2, <2>8, <2>10 DEF Laid, Came
  <3>3. u \in x + 1 .. Len(h1) - 1 /\ y = u + 1
    <4>1. x \in Nat /\ x < u
      BY <1>2, <2>1, <2>12, ObjectFacts
    <4> QED BY <1>b, <2>2, <3>2, <4>1
  <3>4. p.file = u /\ p.fs = y
    BY <1>c
  <3> QED BY <2>12, <2>14, <3>1, <3>3, <3>4 DEF IsSection
<2>19. AddsSection(h1, h2, x, p, kind)
  <3>1. x \in DOMAIN h1 /\ h1[x].kind = "nca" /\ p.file = u /\ p.fs = y
    BY <1>c, <2>1, <2>12
  <3> QED BY <2>1, <2>6, <2>12, <2>17, <2>18, <3>1 DEF AddsSection
<2>20. SectionAdded(h1, h2, x, p, kind)
  BY <2>19, Sectioning
<2>21. p.file = u /\ p.fs = y
  BY <1>c
<2>22. /\ HeapOk(h2) /\ Stable(h1, h2) /\ DOMAIN h2 = DOMAIN h1 /\ Live(h2) = Live(heap) \cup {u, y}
       /\ \A i \in DOMAIN h1 : i # x => h2[i] = h1[i]
       /\ Items(h2, x) = Items(h1, x) \cup {p}
       /\ Owned(h2, x) = Owned(heap, x) \cup {u, y}
       /\ (kind = "romfs" \/ heap[x].romfs_list # <<>> => h2[x].romfs_list # <<>>)
  BY <2>1, <2>12, <2>16, <2>20, <2>21 DEF SectionAdded
<2>23. Stable(heap, h2)
  BY <2>13, <2>22 DEF Stable
<2>24. Growing(heap, h2, games, games)
  <3>1. ASSUME NEW i \in DOMAIN heap, heap[i].kind = "nca"
        PROVE Items(heap, i) \subseteq Items(h2, i)
    <4>1. Items(h1, i) = Items(heap, i)
      BY <1>2, <2>13, <3>1, SteadyFacts
    <4>2. CASE i = x
      BY <2>22, <4>1, <4>2
    <4>3. CASE i # x
      <5>1. h2[i] = h1[i]
        BY <2>12, <2>22, <4>3
      <5> QED BY <4>1, <5>1 DEF Items
    <4> QED BY <4>2, <4>3
  <3> QED BY <2>23, <3>1 DEF Growing
<2>25. /\ \A b \in C : IsCall(session, heap, games, b) /\ IsReady(heap, tickets, b)
       /\ \A d \in 1 .. n - 1 : At(todo, d) \in C /\ d \in Turns(todo)
  BY <1>2, <1>n, <1>a, HeadFacts DEF Ok
<2>26. GamesOk(h1, games)
  BY <1>2, <2>13, ListsStay
<2>27. Growing(heap, h1, games, games)
  BY <1>2, <2>12, FrameGrowing
<2>28. ASSUME NEW b \in C
       PROVE  /\ IsCall(session, h1, games, b) /\ IsReady(h1, tickets, b)
              /\ Trust(h1, games, tickets, services, b) = Trust(heap, games, tickets, services, b)
              /\ u \notin Trust(heap, games, tickets, services, b)
              /\ y \notin Trust(heap, games, tickets, services, b)
  <3>1. IsCall(session, heap, games, b) /\ IsReady(heap, tickets, b)
    BY <2>25
  <3>2. IsCall(session, h1, games, b)
    BY ONLY <1>2, <2>27, <3>1, CallStays
  <3>3. IsReady(h1, tickets, b)
    BY ONLY <1>2, <2>12, <3>1, ReadyStays
  <3>4. Trust(h1, games, tickets, services, b) = Trust(heap, games, tickets, services, b)
    BY ONLY <1>2, <2>12, <3>1, TrustStays
  <3>5. PICK d \in Turns(todo) : b = At(todo, d)
    <4>1. PICK d \in 1 .. n - 1 : b = At(todo, d)
      BY <1>a DEF After
    <4> QED BY <2>25, <4>1
  <3>6. Trust(heap, games, tickets, services, b) \subseteq DOMAIN heap
    BY <1>2, <3>5 DEF TrustOk, Live
  <3> QED BY <2>12, <3>2, <3>3, <3>4, <3>6
<2>29. ASSUME NEW b \in C PROVE IsReady(h2, tickets, b)
  BY <2>19, <2>20, <2>21, <2>26, <2>28, SectionReady
<2>30. PICK z \in 1 .. n - 1 : At(todo, z).op \in {"list_push", "content_archive_destroy"}
         /\ At(todo, z).x = x
  BY <1>2, <1>a DEF IsPlaced, After
<2>31. z \in Turns(todo) /\ At(todo, z) \in C
  BY <2>25
<2>32. Trust(heap, games, tickets, services, At(todo, z)) = Archive(heap, x)
         /\ x \in Archive(heap, x)
  BY <2>30 DEF Trust, Archive
<2>33. ASSUME NEW d \in 1 .. n - 1
       PROVE  Trust(h2, games, tickets, services, At(todo, d))
                = Trust(heap, games, tickets, services, At(todo, d)) \cup IF d = z THEN {u,
                  y} ELSE {}
  <3>1. CASE d = z
    <4>1. Trust(h2, games, tickets, services, At(todo, z)) = Archive(h2, x)
      BY <2>30 DEF Trust
    <4>2. Archive(h2, x) = Archive(heap, x) \cup {u, y}
      BY <2>22 DEF Archive
    <4> QED BY <2>32, <3>1, <4>1, <4>2
  <3>2. CASE d # z
    <4>1. PICK c : c = At(todo, d)
      OBVIOUS
    <4>2. c \in C /\ d \in Turns(todo)
      BY <2>25, <4>1
    <4>3. x \notin Trust(heap, games, tickets, services, c)
      <5>1. ASSUME NEW e \in Turns(todo), NEW f \in Turns(todo), f < e
            PROVE  Trust(heap, games, tickets, services, At(todo, f)) \cap Trust(heap, games,
                   tickets, services, At(todo, e)) = {}
        <6>1. f \in 1 .. e - 1
          BY <1>2, <5>1, SequenceIs DEF Turns
        <6> QED BY <1>2, <6>1 DEF TrustOk
      <5>2. d < z \/ z < d
        BY <3>2
      <5> QED BY <2>31, <2>32, <4>1, <4>2, <5>1, <5>2
    <4>4. Trust(h2, games, tickets, services, c) = Trust(h1, games, tickets, services, c)
      <5>1. IsCall(session, h1, games, c) /\ x \notin Trust(h1, games, tickets, services, c)
        BY <2>28, <4>2, <4>3
      <5> QED BY ONLY <2>19, <2>20, <2>26, <5>1, SectionTrust
    <4> QED BY <2>28, <3>2, <4>1, <4>2, <4>4
  <3> QED BY <3>1, <3>2
<2>34. Takes(session, h2, games, tickets, services, C, <<>>)
         /\ Entrusted(h2, games, tickets, services, <<>>) = {}
  BY TakesNone, Zenon
<2>35. Rises(Head(todo), <<>>)
  BY TakesNone DEF Rises
<2>36. ListOk(heap, tickets, "tik") /\ ListOk(heap, services, "service")
  BY <1>2 DEF ListsOk
<2>37. ListsOk(h2, games, tickets, services)
  BY <1>2, <2>23, <2>36, ListsStay DEF ListsOk
<2>38. Trust(heap, games, tickets, services, Head(todo)) = {}
  BY <1>2 DEF Trust
<2>39. ASSUME NEW i \in {u, y}, NEW j \in Over(h2, i)
       PROVE Assured(h2, games, tickets, services, After(todo, z + 1), j)
  <3>1. u # x /\ y # x
    BY <2>1, <2>12
  <3>2. h2[u] = o /\ h2[y] = r
    BY <2>12, <2>22, <3>1
  <3>3. j \in {bs, u}
    BY <2>14, <2>39, <3>2 DEF Over
  <3>4. j \in Archive(heap, x) \cup {u, y}
    BY <2>1, <2>7, <3>3 DEF Archive, Owned
  <3>5. j \in Trust(h2, games, tickets, services, At(todo, z))
    BY <2>32, <2>33, <3>4
  <3>6. At(todo, z) \in After(todo, z + 1)
    BY <2>30 DEF After
  <3> QED BY <2>30, <3>5, <3>6 DEF Assured, Whole
<2>40. \A i \in Live(heap) : Dropped(heap, tickets, i) => Dropped(h2, tickets, i)
  BY <2>23, <2>36, DroppedStays DEF Live
<2>41. Handed(todo, heap, games, tickets, services, <<>>, n, h2, games, tickets, services, {u, y},
         z, {u, y})
  <3>1. z \in 0 .. n - 1 /\ z # 0 /\ At(todo, z).op # "free"
    BY <1>2, <2>30
  <3> QED BY <2>12, <2>22, <2>33, <2>34, <2>38, <2>39, <2>40, <3>1 DEF Handed
<2>42. Puts(todo, <<>>, todo', n, 0)
  <3>1. IsSequence(<<>>) /\ Len(<<>>) = 0 /\ todo' = <<>> \o Tail(todo)
    BY <2>3, Small DEF Then
  <3> QED BY <1>2, <1>n, <3>1, Pushing
<2>43. Opening(todo, games) /\ Apart(todo) /\ Serving(todo, heap)
         /\ \A d \in Turns(todo) : IsCall(session, heap, games, At(todo, d))
  BY DEF Ok, StateOk, CallsOk
<2>44. Opening(todo', games)
  BY <1>2, <2>42, <2>43, OpeningStays
<2>45. Apart(todo')
  BY <2>42, <2>43, ApartStays
<2>46. Serving(todo', h2)
  <3>1. \A i \in DOMAIN heap : heap[i].kind = "nca" /\ heap[i].romfs_list # <<>>
          => h2[i].romfs_list # <<>>
    BY <2>12, <2>22
  <3>2. Head(todo).op = "get_file" /\ Head(todo).section.fs = "romfs"
          => h2[Head(todo).nca].romfs_list # <<>>
    BY <1>a, <2>22
  <3> QED BY <1>n, <2>42, <2>43, <3>1, <3>2, ServingOn
<2>47. Ok'
  <3>1. heap' = h2 /\ services' = services /\ tickets' = tickets /\ games' = games
          /\ session' = session
    BY <1>a, <2>3 DEF SameLists, Same
  <3>2. todo' = <<>> \o Tail(todo)
    BY <2>3 DEF Then
  <3>3. StepIs(session, todo, heap, games, tickets, services, <<>>, todo', n, h2, games, tickets,
          services)
    BY <1>n, <1>a, <1>2, <2>22, <2>24, <2>29, <2>34, <2>35, <2>37, <2>44, <2>45, <2>46, <3>2
      DEF StepIs, Ok
  <3>4. StateOk(session, todo', h2, games, tickets, services)
    BY <2>41, <3>3, AnyStep
  <3> QED BY <3>1, <3>4 DEF Ok
<2>48. Assured(heap, games, tickets, services, C, x)
         /\ Assured(heap, games, tickets, services, C, heap[x].base)
  <3>1. heap[x].base \in Archive(heap, x)
    BY <2>1 DEF Archive, Owned
  <3> QED BY <2>30, <2>31, <2>32, <3>1, ArchiveAssured
<2>49. x \in Live(heap)
  BY <1>2, <1>n, <1>a, <2>48, AssuredFacts DEF Ok
<2>50. Chain(heap[x].base) \subseteq Live(heap)
  <3>1. PICK i : i = heap[x].base
    OBVIOUS
  <3> QED BY <1>2, <1>n, <1>a, <2>7, <2>48, <3>1, ChainOpen
<2> QED BY <2>3, <2>47, <2>49, <2>50, Unused
<1> QED BY <1>1, <1>3, <1>4

----------------------------------------------------------------------------
(* Packages *)

\* An object that lies over nothing
Bares(h, h2, o, kd) == HeapOk(h) /\ o = Object(kd, None) /\ h2 = Append(h, o)
  /\ kd \in {"map", "romfs"}

\* What follows from it.
Bared(h, h2, o, kd) ==
  Comes(h, h2, o) /\ Came(h, h2, o) /\ o.kind = kd /\ o.base = None /\ o.dir = None
    /\ IsAlone(h2, Len(h) + 1, kd)

\* So does an object that lies over nothing.
LEMMA Baring ==
  ASSUME NEW h, NEW h2, NEW o, NEW kd, Bares(h, h2, o, kd)
  PROVE  Bared(h, h2, o, kd)
<1>1. HeapOk(h) /\ o = Object(kd, None) /\ h2 = Append(h, o) /\ kd \in {"map", "romfs"}
  BY DEF Bares
<1>2. /\ o = [kind |-> o.kind, base |-> o.base, dir |-> o.dir, parts |-> <<>>,
              pfs_list |-> <<>>, romfs_list |-> <<>>, path |-> o.path, live |-> TRUE]
      /\ o.kind = kd /\ o.base = None /\ o.dir = None
  BY <1>1 DEF Object
<1>3. IsNew(h, o)
  BY <1>2 DEF IsNew
<1>4. Comes(h, h2, o)
  BY <1>1, <1>2, <1>3 DEF Comes
<1>5. Came(h, h2, o)
  BY <1>4, Coming
<1>6. IsAlone(h2, Len(h) + 1, kd)
  BY <1>2, <1>5 DEF Came, IsAlone
<1> QED BY <1>2, <1>4, <1>5, <1>6 DEF Bared

\* A mapped game joins the others.
AddsGame(h, h2, g, g2, map, type) ==
  /\ HeapOk(h) /\ GamesOk(h, g) /\ Frame(h, h2) /\ map \notin DOMAIN h /\ IsAlone(h2, map, "map")
  /\ g2 = Append(g, [file |-> map, loader |-> None, type |-> type])

\* The list of games with one more, which has no loader yet.
LEMMA OneGameMore ==
  ASSUME NEW h, NEW h2, NEW g, NEW g2, NEW map, NEW type, AddsGame(h, h2, g, g2, map, type)
  PROVE  /\ GamesOk(h2, g2) /\ OfGames(h2, g2) = OfGames(h, g) \cup {map}
         /\ Loaders(g2) = Loaders(g)
         /\ g2 # <<>> /\ g2[Len(g2)].file = map /\ g2[Len(g2)].loader = None
         /\ Len(g2) = Len(g) + 1 /\ Len(g) \in Nat
         /\ DOMAIN g2 = 1 .. Len(g) + 1 /\ \A a \in DOMAIN g : g2[a] = g[a]
              /\ DOMAIN g = 1 .. Len(g)
<1> DEFINE new == [file |-> map, loader |-> None, type |-> type]
<1>1. HeapOk(h) /\ GamesOk(h, g) /\ Steady(h, h2) /\ Stable(h, h2) /\ map \notin DOMAIN h
        /\ IsAlone(h2, map, "map") /\ g2 = Append(g, new)
  BY DEF AddsGame, Frame, Steady
<1>2. new = [file |-> new.file, loader |-> new.loader, type |-> new.type] /\ new.file = map
        /\ new.loader = None
  OBVIOUS
<1> HIDE DEF new
<1>3. GamesOk(h2, g)
  BY <1>1, ListsStay
<1>4. /\ IsSequence(g2) /\ Len(g2) = Len(g) + 1 /\ DOMAIN g2 = 1 .. Len(g) + 1
      /\ g2[Len(g) + 1] = new /\ \A a \in DOMAIN g : g2[a] = g[a]
      /\ Len(g) \in Nat /\ DOMAIN g = 1 .. Len(g)
  BY <1>1, <1>3, Behind, SequenceIs DEF GamesOk
<1>5. \A a \in DOMAIN g2 : a \in DOMAIN g \/ a = Len(g) + 1
  BY <1>4
<1>6. \A a \in DOMAIN g : g[a].file # map
  BY <1>1 DEF GamesOk, IsAlone
<1>7. GamesOk(h2, g2)
  <2>1. ASSUME NEW a \in DOMAIN g2
        PROVE  /\ g2[a] = [file |-> g2[a].file, loader |-> g2[a].loader, type |-> g2[a].type]
               /\ IsAlone(h2, g2[a].file, "map")
               /\ g2[a].loader # None => IsPackageOver(h2, g2[a].loader, g2[a].file)
    <3>1. CASE a \in DOMAIN g
      <4>1. g2[a] = g[a]
        BY <1>4, <3>1
      <4> QED BY <1>3, <3>1, <4>1 DEF GamesOk
    <3>2. CASE a = Len(g) + 1
      <4>1. g2[a] = new
        BY <1>4, <3>2
      <4> QED BY <1>1, <1>2, <4>1
    <3> QED BY <1>5, <3>1, <3>2
  <2>2. ASSUME NEW a \in DOMAIN g2, NEW b \in DOMAIN g2, a # b
        PROVE  g2[a].file # g2[b].file /\ (g2[a].loader = g2[b].loader => g2[a].loader = None)
    <3>1. CASE a \in DOMAIN g /\ b \in DOMAIN g
      <4>1. g2[a] = g[a] /\ g2[b] = g[b]
        BY <1>4, <3>1
      <4> QED BY <1>3, <2>2, <3>1, <4>1 DEF GamesOk
    <3>2. CASE a \in DOMAIN g /\ b = Len(g) + 1
      <4>1. g2[a] = g[a] /\ g2[b] = new
        BY <1>4, <3>2
      <4> QED BY <1>2, <1>6, <3>2, <4>1
    <3>3. CASE b \in DOMAIN g /\ a = Len(g) + 1
      <4>1. g2[b] = g[b] /\ g2[a] = new
        BY <1>4, <3>3
      <4> QED BY <1>2, <1>6, <3>3, <4>1
    <3> QED BY <1>5, <2>2, <3>1, <3>2, <3>3
  <2> QED BY <1>4, <2>1, <2>2 DEF GamesOk
<1>8. OfGames(h2, g2) = OfGames(h, g) \cup {map}
  <2>1. \A a \in DOMAIN g : Game(h2, g2[a]) = Game(h, g[a]) /\ a \in DOMAIN g2
    BY <1>1, <1>4, GameStays
  <2>2. Game(h2, g2[Len(g) + 1]) = {map} /\ Len(g) + 1 \in DOMAIN g2
    BY <1>2, <1>4 DEF Game
  <2>3. \A i : i \in OfGames(h2, g2) <=> \E a \in DOMAIN g2 : i \in Game(h2, g2[a])
    BY DEF OfGames
  <2>4. \A i : i \in OfGames(h, g) <=> \E a \in DOMAIN g : i \in Game(h, g[a])
    BY DEF OfGames
  <2> QED BY <1>5, <2>1, <2>2, <2>3, <2>4
<1>9. Loaders(g2) = Loaders(g)
  <2>1. \A i : i \in Loaders(g2) <=> i # None /\ \E a \in DOMAIN g2 : i = g2[a].loader
    BY DEF Loaders
  <2>2. \A i : i \in Loaders(g) <=> i # None /\ \E a \in DOMAIN g : i = g[a].loader
    BY DEF Loaders
  <2>3. \A a \in DOMAIN g : g2[a] = g[a] /\ a \in DOMAIN g2
    BY <1>4
  <2>4. g2[Len(g) + 1].loader = None
    BY <1>2, <1>4
  <2>5. ASSUME NEW i, i # None, NEW a \in DOMAIN g2, i = g2[a].loader PROVE i \in Loaders(g)
    <3>1. a \in DOMAIN g
      BY <1>5, <2>4, <2>5
    <3> QED BY <2>2, <2>3, <2>5, <3>1
  <2>6. Loaders(g2) \subseteq Loaders(g)
    BY <2>1, <2>5
  <2>7. Loaders(g) \subseteq Loaders(g2)
    <3>1. SUFFICES ASSUME NEW i \in Loaders(g) PROVE i \in Loaders(g2)
      OBVIOUS
    <3>2. PICK a \in DOMAIN g : i = g[a].loader /\ i # None
      BY <2>2
    <3>3. a \in DOMAIN g2 /\ i = g2[a].loader
      BY <2>3, <3>2
    <3> QED BY <2>1, <3>2, <3>3
  <2> QED BY <2>6, <2>7
<1>10. g2 # <<>>
  BY <1>4, Small
<1> QED BY <1>2, <1>4, <1>7, <1>8, <1>9, <1>10

\* The calls put, in the form the steps use
ClosesHost(h, g, k, s, C, dir, x, c) ==
  /\ dir \in DOMAIN h /\ x \in DOMAIN h /\ c = CallOn("dir_close_file", dir, x)
  /\ h[x].kind = "host" /\ h[x].dir = dir /\ h[dir].kind = "hostdir" /\ Over(h, x) = {dir}
  /\ Assured(h, g, k, s, C, dir)

\* What follows from it.
HostClosed(ses, h, g, k, s, C, x, c) ==
  Fits(ses, h, g, k, s, C, c) /\ Trust(h, g, k, s, c) = {x} /\ c.op = "dir_close_file"
    /\ Level(c.op) = 7

\* The close of a host file fits.
LEMMA ClosingHost ==
  ASSUME NEW ses, NEW h, NEW g, NEW k, NEW s, NEW C, NEW dir, NEW x, NEW c,
         ClosesHost(h, g, k, s, C, dir, x, c)
  PROVE  HostClosed(ses, h, g, k, s, C, x, c)
<1>1. /\ dir \in DOMAIN h /\ x \in DOMAIN h /\ c = CallOn("dir_close_file", dir, x)
      /\ h[x].kind = "host" /\ h[x].dir = dir /\ h[dir].kind = "hostdir" /\ Over(h, x) = {dir}
      /\ Assured(h, g, k, s, C, dir)
  BY DEF ClosesHost
<1>2. c.op = "dir_close_file" /\ c.x = x /\ c.dir = dir
  BY <1>1, CallParts
<1>3. Trust(h, g, k, s, c) = {x}
  BY <1>2 DEF Trust
<1>4. IsCall(ses, h, g, c) /\ IsReady(h, k, c)
  BY <1>1, <1>2 DEF IsCall, IsReady, Ops, OpsOfPackages
<1>5. IsPlaced(h, g, k, s, c, C)
  BY <1>1, <1>2 DEF IsPlaced, OpsOfPackages
<1>6. \A i : Whole(h, g, k, s, c, i) <=> i = x
  BY <1>2, <1>3 DEF Whole
<1>7. Fits(ses, h, g, k, s, C, c)
  BY <1>1, <1>4, <1>5, <1>6 DEF Fits
<1> QED BY <1>2, <1>3, <1>7, Levels DEF HostClosed

\* Call c opens the package of the i-th game.
OpensPackage(ses, h, C, type, dir, i, c) ==
  /\ type \in {"nsp", "nsz"} /\ dir \in DOMAIN h /\ i \in DOMAIN ses.games
  /\ Later(C, "nx_sys_destroy") /\ c = CallOn(type, dir, i)

\* What follows from it.
PackageOpens(ses, h, g, k, s, C, type, dir, c) ==
  Fits(ses, h, g, k, s, C, c) /\ Trust(h, g, k, s, c) = {} /\ c.op = type /\ c.dir = dir
    /\ Level(c.op) = 8

\* The call that opens a package fits.
LEMMA OpeningPackage ==
  ASSUME NEW ses, NEW h, NEW g, NEW k, NEW s, NEW C, NEW type, NEW dir, NEW i, NEW c,
         OpensPackage(ses, h, C, type, dir, i, c)
  PROVE  PackageOpens(ses, h, g, k, s, C, type, dir, c)
<1>1. /\ type \in {"nsp", "nsz"} /\ dir \in DOMAIN h /\ i \in DOMAIN ses.games
      /\ Later(C, "nx_sys_destroy")
      /\ c = CallOn(type, dir, i)
  BY DEF OpensPackage
<1>2. c.op = type /\ c.dir = dir /\ c.x = i
  BY <1>1, CallParts
<1>3. Trust(h, g, k, s, c) = {}
  BY <1>1, <1>2 DEF Trust
<1>4. IsCall(ses, h, g, c)
  BY <1>1, <1>2 DEF IsCall, Ops, OpsOfPackages
<1>5. IsReady(h, k, c)
  BY <1>1, <1>2 DEF IsReady
<1>6. IsPlaced(h, g, k, s, c, C)
  BY <1>1, <1>2 DEF IsPlaced, OpsOfPackages
<1>7. Fits(ses, h, g, k, s, C, c)
  BY <1>3, <1>4, <1>5, <1>6 DEF Fits, Whole
<1> QED BY <1>1, <1>2, <1>3, <1>7, Levels DEF PackageOpens

\* LoadGame keeps the invariant, and uses and closes only what is live.
LEMMA LoadGameStep ==
  ASSUME Ok, OnDisk, LoadGame
  PROVE  Ok' /\ fault' = fault
<1>n. PICK n : n = Len(todo)
  OBVIOUS
<1>a. PICK dir, x, f, h1, map, C, h2, g2 : /\ dir = Head(todo).dir /\ x = Head(todo).x
                                           /\ f = Len(heap) + 1 /\ h1 = WithHostFile(dir, x)
                                       /\ map = Len(h1) + 1 /\ C = After(todo, n) /\ h2 = heap'
                                       /\ g2 = games'
  OBVIOUS
<1>b. PICK type, a, b, q : /\ type = TypeOf(x) /\ a = CallOn(type, map, x)
                           /\ b = CallOn("dir_close_file", dir, f) /\ q = <<a, b>>
  OBVIOUS
<1>0. /\ Calling("load_game") /\ Same /\ tickets' = tickets /\ services' = services /\ Use({dir})
      /\ h2 = Append(h1, Map) /\ g2 = Append(games, [file |-> map, loader |-> None, type |-> type])
      /\ Then(<<a, CallOn("dir_close_file", dir, HostFile(dir, x))>>)
  BY <1>a, <1>b DEF LoadGame, Arg
<1>1. /\ HeapOk(heap) /\ GamesOk(heap, games) /\ Head(todo).op = "load_game" /\ todo # <<>>
      /\ IsCall(session, heap, games, Head(todo))
      /\ IsPlaced(heap, games, tickets, services, Head(todo), After(todo, n))
      /\ Trust(heap, games, tickets, services, Head(todo)) \subseteq Live(heap)
      /\ ListsOk(heap, games, tickets, services)
      /\ n \in Turns(todo) /\ At(todo, n) = Head(todo) /\ n \in Nat \ {0}
      /\ TrustOk(todo, heap, games, tickets, services)
      /\ IsSequence(todo)
  BY <1>0, <1>n, OkFacts
<1>2. Trust(heap, games, tickets, services, Head(todo)) = {}
  BY <1>1 DEF Trust
<1>3. /\ dir \in DOMAIN heap /\ heap[dir].kind = "hostdir"
      /\ Assured(heap, games, tickets, services, C, dir)
      /\ x \in DOMAIN session.games /\ Later(C, "nx_sys_destroy")
  BY <1>1, <1>a DEF IsCall, IsPlaced
<1>4. heap[dir].parts = <<>>
  BY <1>1, <1>3, NoFileOpen DEF Ok
<1>5. Level(Head(todo).op) = 6
  BY <1>1, Levels
<1>6. type \in {"nsp", "nsz"}
  BY <1>3, <1>b, SessionsAssumption DEF OnDisk, TypeOf, IsPackage
<1>7. /\ HostFile(dir, x) = f /\ HeapOk(h1) /\ Frame(heap, h1) /\ Live(h1) = Live(heap) \cup {f}
      /\ f \notin DOMAIN heap
      /\ f \in DOMAIN h1 /\ Len(h1) = f /\ f \in Nat
      /\ h1[f].kind = "host" /\ h1[f].base = None /\ h1[f].dir = dir /\ h1[dir].kind = "hostdir"
      /\ dir \in DOMAIN h1
      /\ Over(h1, f) = {dir} /\ DOMAIN h1 = DOMAIN heap \cup {f}
  <2>1. Opens(dir, x, h1, f)
    BY <1>1, <1>3, <1>4, <1>a DEF Opens
  <2>2. HostOpened(dir, x, h1, f)
    BY <2>1, NewHostFile
  <2> QED BY <2>2 DEF HostOpened
<1>8. PICK o : o = Map
  OBVIOUS
<1>9. Bared(h1, h2, o, "map")
  <2>1. Bares(h1, h2, o, "map")
    BY <1>0, <1>7, <1>8 DEF Bares, Map
  <2> QED BY <2>1, Baring
<1>10. /\ HeapOk(h2) /\ Frame(h1, h2) /\ DOMAIN h2 = DOMAIN h1 \cup {map}
            /\ map \notin DOMAIN h1 /\ \A i \in DOMAIN h1 : h2[i] = h1[i]
       /\ Live(h2) = Live(h1) \cup {map} /\ IsAlone(h2, map, "map")
  BY <1>9, <1>a DEF Bared, Came
<1>11. Frame(heap, h2)
  BY <1>7, <1>10, FrameOn
<1>12. /\ Live(h2) = Live(heap) \cup {f, map} /\ f \notin DOMAIN heap /\ map \notin DOMAIN heap
       /\ f \in DOMAIN h2 /\ dir \in DOMAIN h2
       /\ h2[f] = h1[f] /\ h2[dir] = h1[dir] /\ f # map /\ map \in DOMAIN h2
  BY <1>7, <1>10
<1>13. h2[f].kind = "host" /\ h2[f].dir = dir /\ h2[dir].kind = "hostdir" /\ Over(h2, f) = {dir}
         /\ Over(h2, map) = {}
  BY <1>7, <1>10, <1>12 DEF Over, IsAlone
<1>14. /\ GamesOk(h2, g2) /\ OfGames(h2, g2) = OfGames(heap, games) \cup {map}
       /\ Loaders(g2) = Loaders(games)
       /\ g2 # <<>> /\ g2[Len(g2)].file = map /\ g2[Len(g2)].loader = None
       /\ Len(g2) = Len(games) + 1 /\ Len(games) \in Nat
       /\ DOMAIN g2 = 1 .. Len(games) + 1 /\ \A i \in DOMAIN games : g2[i] = games[i]
            /\ DOMAIN games = 1 .. Len(games)
  <2>1. AddsGame(heap, h2, games, g2, map, type)
    BY <1>0, <1>1, <1>10, <1>11, <1>12 DEF AddsGame
  <2> QED BY <2>1, OneGameMore
<1>15. /\ \A c \in C : Above(c.op, Head(todo).op) /\ IsCall(session, heap, games, c)
            /\ IsReady(heap, tickets, c)
       /\ \A d \in 1 .. n - 1 : At(todo, d) \in C /\ d \in Turns(todo)
  BY <1>1, <1>n, <1>a, HeadFacts DEF Ok
<1>16. PICK z : IsTurn(todo, n, z, "nx_sys_destroy")
  <2>1. Level("nx_sys_destroy") \in Once
    BY Levels DEF Once
  <2> QED BY <1>1, <1>3, <1>n, <1>a, <2>1, TheTurn DEF Ok
<1>17. z \in 1 .. n - 1 /\ At(todo, z).op = "nx_sys_destroy"
  BY <1>16 DEF IsTurn
<1>18. ASSUME NEW d \in 1 .. n - 1
       PROVE  Trust(h2, g2, tickets, services, At(todo, d))
                = Trust(heap, games, tickets, services,
                  At(todo, d)) \cup IF d = z THEN {map} ELSE {}
  <2>0. PICK c : c = At(todo, d)
    OBVIOUS
  <2>1. CASE d = z
    <3>1. c.op = "nx_sys_destroy"
      BY <1>17, <2>0, <2>1
    <3>2. Trust(h2, g2, tickets, services, c) = OfGames(h2, g2) \cup Range(tickets)
      BY <3>1, TrustOfGames
    <3>3. Trust(heap, games, tickets, services, c) = OfGames(heap, games) \cup Range(tickets)
      BY <3>1, TrustOfGames
    <3> QED BY <1>14, <2>0, <2>1, <3>2, <3>3
  <2>2. CASE d # z
    <3>1. c.op # "nx_sys_destroy" /\ IsCall(session, heap, games, c)
      BY <1>15, <1>16, <2>0, <2>2 DEF IsTurn
    <3>2. Trust(h2, g2, tickets, services, c) = Trust(heap, games, tickets, services, c)
      BY ONLY <1>1, <1>11, <3>1, TrustStays
    <3> QED BY <2>0, <2>2, <3>2
  <2> QED BY <2>1, <2>2
<1>19. Stable(heap, h2) /\ Steady(heap, h2)
  BY <1>11 DEF Frame, Steady
<1>20. Trusting(todo, heap, games, tickets, services, h2, g2, tickets, services, n)
  BY <1>18, <1>19 DEF Trusting
<1>21. Assured(h2, g2, tickets, services, C, dir)
  <2>1. n \in 1 .. n
    BY <1>1
  <2> QED BY <1>a, <1>1, <1>3, <1>20, <2>1, Onward
<1>22. /\ Fits(session, h2, g2, tickets, services, C, b)
       /\ Trust(h2, g2, tickets, services, b) = {f}
       /\ b.op = "dir_close_file" /\ Level(b.op) = 7
  <2>1. ClosesHost(h2, g2, tickets, services, C, dir, f, b)
    BY <1>12, <1>13, <1>21, <1>b DEF ClosesHost
  <2>2. HostClosed(session, h2, g2, tickets, services, C, f, b)
    BY <2>1, ClosingHost
  <2> QED BY <2>2 DEF HostClosed
<1>23. /\ Fits(session, h2, g2, tickets, services, C \cup {b}, a)
       /\ Trust(h2, g2, tickets, services, a) = {}
       /\ a.op = type /\ a.dir = map /\ Level(a.op) = 8
  <2>1. Later(C \cup {b}, "nx_sys_destroy")
    BY <1>3 DEF Later
  <2>2. OpensPackage(session, h2, C \cup {b}, type, map, x, a)
    BY <1>3, <1>6, <1>12, <1>b, <2>1 DEF OpensPackage
  <2>3. PackageOpens(session, h2, games', tickets, services, C \cup {b}, type, map, a)
    BY <2>2, OpeningPackage
  <2> QED BY <1>a, <2>3 DEF PackageOpens
<1>24. /\ Takes(session, h2, g2, tickets, services, C, q)
       /\ Entrusted(h2, g2, tickets, services, q) = {f}
       /\ DOMAIN q = {1, 2} /\ q[1] = a /\ q[2] = b
  <2>1. Pair(session, h2, g2, tickets, services, C, a, b)
    BY <1>22, <1>23 DEF Pair, Above
  <2>2. Paired(session, h2, g2, tickets, services, C, a, b)
    BY <2>1, TakesTwo
  <2> QED BY <1>22, <1>23, <1>b, <2>2 DEF Paired
<1>25. Rises(Head(todo), q)
  BY <1>5, <1>22, <1>23, <1>24 DEF Rises
<1>26. Then(q)
  BY <1>0, <1>7, <1>b
<1>27. Growing(heap, h2, games, g2)
  <2>1. Growing(heap, h2, games, games)
    BY <1>1, <1>11, FrameGrowing
  <2> QED BY <1>14, <2>1 DEF Growing
<1>28. ASSUME NEW c \in C PROVE IsReady(h2, tickets, c)
  <2>1. IsCall(session, heap, games, c) /\ IsReady(heap, tickets, c)
    BY <1>15
  <2> QED BY ONLY <1>1, <1>11, <2>1, ReadyStays
<1>29. ListOk(heap, tickets, "tik") /\ ListOk(heap, services, "service")
  BY <1>1 DEF ListsOk
<1>30. ListsOk(h2, g2, tickets, services)
  <2>1. ListOk(h2, tickets, "tik") /\ ListOk(h2, services, "service")
    BY <1>1, <1>19, <1>29, ListsStay
  <2> QED BY <1>14, <2>1 DEF ListsOk
<1>31. \A i \in Live(heap) : Dropped(heap, tickets, i) => Dropped(h2, tickets, i)
  BY <1>19, <1>29, DroppedStays DEF Live
<1>32. Handed(todo, heap, games, tickets, services, q, n, h2, g2, tickets, services, {f, map}, z,
         {map})
  <2>1. z \in 0 .. n - 1 /\ z # 0 /\ At(todo, z).op # "free"
    BY <1>1, <1>17
  <2> QED BY <1>2, <1>12, <1>13, <1>18, <1>24, <1>31, <2>1 DEF Handed
<1>33. Puts(todo, q, todo', n, 2)
  <2>1. IsSequence(q) /\ Len(q) = 2 /\ todo' = q \o Tail(todo)
    BY <1>26, <1>b, Small DEF Then
  <2> QED BY <1>1, <1>n, <2>1, Pushing
<1>34. Opening(todo, games) /\ Apart(todo) /\ Serving(todo, heap)
         /\ \A d \in Turns(todo) : IsCall(session, heap, games, At(todo, d))
  BY DEF Ok, StateOk, CallsOk
<1>35. Opening(todo', g2)
  <2>1. /\ Turns(todo') = 1 .. n - 1 + 2 /\ n \in Nat \ {0}
        /\ \A d \in 1 .. n - 1 : At(todo', d) = At(todo, d)
        /\ At(todo', n + 1) = a /\ At(todo', n) = b
    <3>1. \A i \in 1 .. 2 : At(todo', n + 2 - i) = q[i]
      BY <1>33 DEF Puts
    <3>2. At(todo', n + 2 - 1) = a /\ At(todo', n + 2 - 2) = b
      BY <1>24, <3>1
    <3> QED BY <1>1, <1>33, <3>2 DEF Puts
  <2>2. \A c \in C : c.op \notin {"nsp", "nsz"}
    BY <1>5, <1>15, Levels DEF Above, Once
  <2>3. \A i \in DOMAIN games : games[i].loader # None
    BY <1>1, <1>5, LoadersKnown DEF Ok
  <2>4. \A d \in Turns(todo') : At(todo', d).op \in {"nsp", "nsz"} => d = n + 1
    <3>1. SUFFICES ASSUME NEW d \in Turns(todo'), d # n + 1
          PROVE At(todo', d).op \notin {"nsp", "nsz"}
      OBVIOUS
    <3>2. d \in 1 .. n - 1 \/ d = n
      BY <2>1, <3>1
    <3> QED BY <1>15, <1>22, <2>1, <2>2, <3>2
  <2>5. \A i \in DOMAIN g2 : g2[i].loader = None => i = Len(g2)
    BY <1>14, <2>3
  <2>6. n + 1 \in Turns(todo')
    BY <2>1
  <2> QED BY <1>6, <1>14, <1>23, <2>1, <2>4, <2>5, <2>6 DEF Opening
<1>36. Apart(todo')
  <2>1. \A i \in 1 .. 2 : q[i].op # "nsz_addfile"
    BY <1>6, <1>22, <1>23, <1>24
  <2> QED BY <1>33, <1>34, <2>1, ApartStays
<1>37. Serving(todo', h2)
  <2>1. \A i \in DOMAIN heap : heap[i].kind = "nca" /\ heap[i].romfs_list # <<>>
          => h2[i].romfs_list # <<>>
    BY <1>19 DEF Steady
  <2>2. Head(todo).op # "get_file" /\ \A i \in 1 .. 2 : q[i].op # "service"
    BY <1>1, <1>6, <1>22, <1>23, <1>24
  <2> QED BY ONLY <1>33, <1>34, <2>1, <2>2, ServingStays
<1>38. Ok'
  <2>1. heap' = h2 /\ services' = services /\ tickets' = tickets /\ games' = g2
          /\ session' = session
    BY <1>a, <1>0 DEF Same
  <2>3. StepIs(session, todo, heap, games, tickets, services, q, todo', n, h2, g2, tickets,
          services)
    BY <1>n, <1>a, <1>1, <1>10, <1>24, <1>25, <1>26, <1>27, <1>28, <1>30, <1>35, <1>36, <1>37
      DEF StepIs, Ok, Then
  <2>4. StateOk(session, todo', h2, g2, tickets, services)
    BY <1>32, <2>3, AnyStep
  <2> QED BY <2>1, <2>4 DEF Ok
<1>39. dir \in Live(heap)
  BY <1>1, <1>3, <1>n, <1>a, AssuredFacts DEF Ok
<1> QED BY <1>0, <1>38, <1>39, Unused

\* A loader of a package p, with a directory d for an nsz
Loads(h, h1, h2, p, d, l) ==
  /\ HeapOk(h) /\ HeapOk(h1) /\ Frame(h, h1) /\ l = Len(h1) + 1
  /\ h2 = Append(h1, Inside(p, Object("loader", d)))
  /\ p \in DOMAIN h1 \ DOMAIN h /\ h1[p].kind = "pfs" /\ h1[p].dir = None
  /\ d # None => /\ d \in DOMAIN h1 \ DOMAIN h /\ h1[d].kind = "romfs" /\ h1[d].base = None
                 /\ h1[d].dir = None
                 /\ p < d
  /\ \A b \in DOMAIN h1 \ DOMAIN h : h1[b].kind \notin {"nca", "loader"}

\* What follows from it.
Loaded(h, h1, h2, p, d, l) ==
  /\ HeapOk(h2) /\ Frame(h, h2) /\ DOMAIN h2 = DOMAIN h1 \cup {l} /\ l \notin DOMAIN h1 /\ l # None
  /\ \A i \in DOMAIN h1 : h2[i] = h1[i]
  /\ Live(h2) = Live(h1) \cup {l} /\ Package(h2, l) = {l, p, d} \ {None} /\ Over(h2, l) = {}
  /\ h2[l].dir = p /\ h2[l].base = d /\ IsPackageOver(h2, l, h1[p].base)

\* A package and its loader, made one after the other.
LEMMA Loading ==
  ASSUME NEW h, NEW h1, NEW h2, NEW p, NEW d, NEW l, Loads(h, h1, h2, p, d, l)
  PROVE  Loaded(h, h1, h2, p, d, l)
<1>1. /\ HeapOk(h) /\ HeapOk(h1) /\ Frame(h, h1) /\ l = Len(h1) + 1
      /\ h2 = Append(h1, Inside(p, Object("loader", d)))
      /\ p \in DOMAIN h1 \ DOMAIN h /\ h1[p].kind = "pfs" /\ h1[p].dir = None
      /\ d # None => /\ d \in DOMAIN h1 \ DOMAIN h /\ h1[d].kind = "romfs" /\ h1[d].base = None
                     /\ h1[d].dir = None
                     /\ p < d
      /\ \A b \in DOMAIN h1 \ DOMAIN h : h1[b].kind \notin {"nca", "loader"}
  BY DEF Loads
<1>2. PICK o : o = Inside(p, Object("loader", d))
  OBVIOUS
<1>3. /\ o = [kind |-> o.kind, base |-> o.base, dir |-> o.dir, parts |-> <<>>,
              pfs_list |-> <<>>, romfs_list |-> <<>>, path |-> o.path, live |-> TRUE]
      /\ o.kind = "loader" /\ o.base = d /\ o.dir = p
  BY <1>2, Made
<1>4. IsNew(h1, o)
  BY <1>1, <1>3 DEF IsNew
<1>5. h2 = Append(h1, o)
  BY <1>1, <1>2
<1>6. /\ DOMAIN h2 = DOMAIN h1 \cup {l} /\ Len(h2) = l /\ l \notin DOMAIN h1 /\ l \in Nat
      /\ h2[l] = o /\ \A i \in DOMAIN h1 : h2[i] = h1[i]
      /\ Steady(h1, h2) /\ Live(h2) = Live(h1) \cup {l}
      /\ IsLayered(h2, l) /\ IsLoader(h2, l) /\ IsNca(h2, l)
           /\ (\A i \in Owned(h2, l) : Unowned(h1, i)) => HeapOk(h2)
  BY <1>1, <1>4, <1>5, NewObject
<1>7. o.parts = <<>>
  BY <1>3
<1>8. p # None /\ l # None /\ Len(h1) \in Nat /\ DOMAIN h1 = 1 .. Len(h1)
  BY <1>1, SequenceIs DEF HeapOk, None
<1>9. /\ h2[p] = h1[p] /\ (d # None => h2[d] = h1[d]) /\ h2[l].kind = "loader" /\ h2[l].base = d
           /\ h2[l].dir = p
      /\ h2[l].parts = <<>>
  BY <1>1, <1>3, <1>6, <1>7
<1>10. Range(<<>>) = {}
  BY Nothing
<1>11. IsLayered(h2, l)
  <2>1. d # None => h2[d].kind # "loader"
    BY <1>1, <1>9
  <2> QED BY <1>9, <2>1 DEF IsLayered
<1>12. IsLoader(h2, l) /\ IsNca(h2, l)
  BY <1>1, <1>8, <1>9, <1>10 DEF IsLoader, IsNca
<1>13. Owned(h2, l) = {p, d} \ {None}
  BY <1>9, <1>10 DEF Owned
<1>14. ASSUME NEW i \in DOMAIN h1 \ DOMAIN h PROVE Unowned(h1, i)
  <2>1. SUFFICES ASSUME NEW b \in DOMAIN h1 PROVE i \notin Owned(h1, b)
    BY DEF Unowned
  <2>2. CASE b \in DOMAIN h
    <3>1. Owned(h1, b) = Owned(h, b) /\ Owned(h, b) \subseteq DOMAIN h
      BY <1>1, <2>2, SteadyFacts, OwnedFacts DEF Frame
    <3> QED BY <1>14, <3>1
  <2>3. CASE b \notin DOMAIN h
    <3> QED BY <1>1, <2>3, OwnedFacts
  <2> QED BY <2>2, <2>3
<1>15. HeapOk(h2)
  BY <1>1, <1>6, <1>11, <1>12, <1>13, <1>14
<1>16. Frame(h, h2)
  <2>1. Steady(h, h2)
    <3>1. Steady(h, h1) /\ Steady(h1, h2)
      BY <1>1, <1>6 DEF Frame
    <3>2. DOMAIN h \subseteq DOMAIN h1
      BY <3>1 DEF Steady, Stable
    <3> QED BY <3>1, <3>2, Zenon DEF Steady, Stable
  <2>2. DOMAIN h \subseteq DOMAIN h1
    BY <1>1 DEF Frame, Steady, Stable
  <2>3. \A i \in DOMAIN h : h[i].kind = "romfs" => h2[i].parts = h[i].parts
    BY <1>1, <1>6, <2>2 DEF Frame
  <2>4. ASSUME NEW b \in DOMAIN h2 \ DOMAIN h PROVE Owned(h2, b) \cap DOMAIN h = {}
    <3>1. CASE b = l
      BY <1>1, <1>13, <3>1
    <3>2. CASE b # l
      <4>1. b \in DOMAIN h1 \ DOMAIN h
        BY <1>6, <2>4, <3>2
      <4>2. Owned(h2, b) = Owned(h1, b)
        BY <1>1, <1>6, <4>1, SteadyFacts
      <4>3. Owned(h1, b) = {}
        BY <1>1, <4>1, OwnedFacts
      <4> QED BY <4>2, <4>3
    <3> QED BY <3>1, <3>2
  <2> QED BY <2>1, <2>3, <2>4 DEF Frame
<1>17. Package(h2, l) = {l, p, d} \ {None}
  <2>1. Range(h2[l].parts) = {}
    BY <1>9, <1>10
  <2> QED BY <1>8, <1>13, <2>1 DEF Package
<1>18. Over(h2, l) = {} /\ IsPackageOver(h2, l, h1[p].base)
  BY <1>1, <1>6, <1>9 DEF Over, IsPackageOver
<1> QED BY <1>6, <1>8, <1>9, <1>15, <1>16, <1>17, <1>18 DEF Loaded

\* The game whose package was opened last gets its loader.
LastGame(h, h2, g, g2, l) ==
  /\ HeapOk(h) /\ GamesOk(h, g) /\ Frame(h, h2) /\ g # <<>> /\ g[Len(g)].loader = None
  /\ l \notin DOMAIN h /\ l # None /\ IsPackageOver(h2, l, g[Len(g)].file)
  /\ g2 = [g EXCEPT ![Len(g)].loader = l]

\* What follows from it.
GameLoaded(h, h2, g, g2, l) ==
  /\ GamesOk(h2, g2) /\ OfGames(h2, g2) = OfGames(h, g) \cup Package(h2, l)
  /\ Loaders(g2) = Loaders(g) \cup {l}
  /\ Len(g2) = Len(g) /\ Len(g) \in DOMAIN g2 /\ DOMAIN g2 = DOMAIN g /\ Len(g) \in Nat
  /\ g2[Len(g)].loader = l
  /\ \A a \in DOMAIN g : a # Len(g) => g2[a] = g[a]
  /\ g[Len(g)].file \in OfGames(h, g)

\* The last game with its loader.
LEMMA LoadingGame ==
  ASSUME NEW h, NEW h2, NEW g, NEW g2, NEW l, LastGame(h, h2, g, g2, l)
  PROVE  GameLoaded(h, h2, g, g2, l)
<1>n. PICK n : n = Len(g)
  OBVIOUS
<1>v. PICK v : v = [g[n] EXCEPT !.loader = l]
  OBVIOUS
<1>1. /\ HeapOk(h) /\ GamesOk(h, g) /\ Steady(h, h2) /\ Stable(h, h2) /\ g # <<>>
      /\ g[n].loader = None
      /\ l \notin DOMAIN h /\ l # None /\ IsPackageOver(h2, l, g[n].file)
      /\ g2 = [g EXCEPT ![n] = v]
  BY <1>n, <1>v DEF LastGame, Frame, Steady
<1>2. IsSequence(g) /\ n \in DOMAIN g /\ n \in Nat /\ DOMAIN g = 1 .. n
  <2>1. IsSequence(g)
    BY <1>1 DEF GamesOk
  <2>2. n \in Nat /\ DOMAIN g = 1 .. n /\ g \in Seq(Range(g))
    BY <1>n, <2>1, SequenceIs
  <2>3. n # 0
    BY <1>1, <1>n, <2>2
  <2> QED BY <2>1, <2>2, <2>3
<1>3. g[n] = [file |-> g[n].file, loader |-> g[n].loader, type |-> g[n].type]
  BY <1>1, <1>2 DEF GamesOk
<1>4. v = [file |-> v.file, loader |-> v.loader, type |-> v.type] /\ v.file = g[n].file
        /\ v.loader = l
  BY <1>3, <1>v
<1>5. /\ IsSequence(g2) /\ Len(g2) = n /\ DOMAIN g2 = DOMAIN g
      /\ g2[n] = v /\ \A a \in DOMAIN g : a # n => g2[a] = g[a]
  <2>1. DOMAIN g2 = 1 .. n /\ g2 = [a \in 1 .. n |-> g2[a]]
    BY <1>1, <1>2
  <2>2. IsSequence(g2) /\ Len(g2) = n
    BY <1>2, <2>1, SequenceBy
  <2> QED BY <1>1, <1>2, <2>2
<1>6. GamesOk(h2, g)
  BY <1>1, ListsStay
<1>7. ASSUME NEW a \in DOMAIN g PROVE g[a].loader # l
  <2>1. CASE g[a].loader = None
    BY <1>1, <2>1
  <2>2. CASE g[a].loader # None
    <3>1. IsPackageOver(h, g[a].loader, g[a].file)
      BY <1>1, <2>2 DEF GamesOk
    <3> QED BY <1>1, <3>1 DEF IsPackageOver
  <2> QED BY <2>1, <2>2
<1>8. GamesOk(h2, g2)
  <2>1. ASSUME NEW a \in DOMAIN g2
        PROVE  /\ g2[a] = [file |-> g2[a].file, loader |-> g2[a].loader, type |-> g2[a].type]
               /\ IsAlone(h2, g2[a].file, "map")
               /\ g2[a].loader # None => IsPackageOver(h2, g2[a].loader, g2[a].file)
    <3>1. CASE a # n
      <4>1. g2[a] = g[a] /\ a \in DOMAIN g
        BY <1>5, <3>1
      <4> QED BY <1>6, <4>1 DEF GamesOk
    <3>2. CASE a = n
      <4>1. g2[a] = v
        BY <1>5, <3>2
      <4>2. IsAlone(h2, g[n].file, "map")
        BY <1>2, <1>6 DEF GamesOk
      <4> QED BY <1>1, <1>4, <4>1, <4>2
    <3> QED BY <3>1, <3>2
  <2>2. ASSUME NEW a \in DOMAIN g2, NEW b \in DOMAIN g2, a # b
        PROVE  g2[a].file # g2[b].file /\ (g2[a].loader = g2[b].loader => g2[a].loader = None)
    <3>1. a \in DOMAIN g /\ b \in DOMAIN g
      BY <1>5
    <3>2. \A c \in DOMAIN g : g2[c].file = g[c].file
      BY <1>4, <1>5
    <3>3. g[a].file # g[b].file
      BY <1>6, <2>2, <3>1 DEF GamesOk
    <3>4. CASE a # n /\ b # n
      <4>1. g2[a] = g[a] /\ g2[b] = g[b]
        BY <1>5, <3>1, <3>4
      <4> QED BY <1>6, <2>2, <3>1, <4>1 DEF GamesOk
    <3>5. CASE a = n
      <4>1. g2[a].loader = l /\ g2[b].loader # l
        BY <1>4, <1>5, <1>7, <2>2, <3>1, <3>5
      <4> QED BY <3>1, <3>2, <3>3, <4>1
    <3>6. CASE b = n
      <4>1. g2[b].loader = l /\ g2[a].loader # l
        BY <1>4, <1>5, <1>7, <2>2, <3>1, <3>6
      <4> QED BY <3>1, <3>2, <3>3, <4>1
    <3> QED BY <3>4, <3>5, <3>6
  <2> QED BY <1>5, <2>1, <2>2 DEF GamesOk
<1>9. OfGames(h2, g2) = OfGames(h, g) \cup Package(h2, l)
  <2>1. \A a \in DOMAIN g : a # n => Game(h2, g2[a]) = Game(h, g[a])
    BY <1>1, <1>5, GameStays
  <2>2. Game(h2, g2[n]) = {g[n].file} \cup Package(h2, l)
    BY <1>1, <1>4, <1>5 DEF Game
  <2>3. Game(h, g[n]) = {g[n].file}
    BY <1>1 DEF Game
  <2>4. \A i : i \in OfGames(h2, g2) <=> \E a \in DOMAIN g2 : i \in Game(h2, g2[a])
    BY DEF OfGames
  <2>5. \A i : i \in OfGames(h, g) <=> \E a \in DOMAIN g : i \in Game(h, g[a])
    BY DEF OfGames
  <2>6. ASSUME NEW i \in OfGames(h2, g2) PROVE i \in OfGames(h, g) \cup Package(h2, l)
    <3>1. PICK a \in DOMAIN g : i \in Game(h2, g2[a])
      BY <1>5, <2>4
    <3> QED BY <1>2, <2>1, <2>2, <2>3, <2>5, <3>1
  <2>7. ASSUME NEW i \in OfGames(h, g) PROVE i \in OfGames(h2, g2)
    <3>1. PICK a \in DOMAIN g : i \in Game(h, g[a])
      BY <2>5
    <3> QED BY <1>5, <2>1, <2>2, <2>3, <2>4, <3>1
  <2>8. ASSUME NEW i \in Package(h2, l) PROVE i \in OfGames(h2, g2)
    BY <1>2, <1>5, <2>2, <2>4, <2>8
  <2> QED BY <2>6, <2>7, <2>8
<1>10. Loaders(g2) = Loaders(g) \cup {l}
  <2>1. \A i : i \in Loaders(g2) <=> i # None /\ \E a \in DOMAIN g2 : i = g2[a].loader
    BY DEF Loaders
  <2>2. \A i : i \in Loaders(g) <=> i # None /\ \E a \in DOMAIN g : i = g[a].loader
    BY DEF Loaders
  <2>3. ASSUME NEW i \in Loaders(g2) PROVE i \in Loaders(g) \cup {l}
    <3>1. PICK a \in DOMAIN g : i = g2[a].loader /\ i # None
      BY <1>5, <2>1
    <3> QED BY <1>4, <1>5, <2>2, <3>1
  <2>4. ASSUME NEW i \in Loaders(g) PROVE i \in Loaders(g2)
    <3>1. PICK a \in DOMAIN g : i = g[a].loader /\ i # None
      BY <2>2
    <3>2. a # n
      BY <1>1, <3>1
    <3> QED BY <1>5, <2>1, <3>1, <3>2
  <2>5. l \in Loaders(g2)
    BY <1>1, <1>2, <1>4, <1>5, <2>1
  <2> QED BY <2>3, <2>4, <2>5
<1>11. g[n].file \in OfGames(h, g)
  BY <1>2 DEF OfGames, Game
<1> QED BY <1>n, <1>2, <1>4, <1>5, <1>8, <1>9, <1>10, <1>11 DEF GameLoaded

\* A package is opened: its loader joins the last game.
OpensGame(ses, t, h, g, k, s, n, h1, h2, g2, p, d, l) ==
  /\ StateOk(ses, t, h, g, k, s) /\ t # <<>> /\ n = Len(t) /\ Head(t).op \in {"nsp", "nsz"}
  /\ Loads(h, h1, h2, p, d, l) /\ Live(h1) = Live(h) \cup ({p, d} \ {None})
  /\ h1[p].base = Head(t).dir
  /\ g2 = [g EXCEPT ![Len(g)].loader = l]

\* What nsp_create and nsz_create make.
LEMMA PackageOpened ==
  ASSUME NEW ses, NEW t, NEW h, NEW g, NEW k, NEW s, NEW n, NEW h1, NEW h2, NEW g2, NEW p, NEW d,
         NEW l,
         OpensGame(ses, t, h, g, k, s, n, h1, h2, g2, p, d, l)
  PROVE  Loaded(h, h1, h2, p, d, l) /\ GameLoaded(h, h2, g, g2, l) /\ g[Len(g)].file = Head(t).dir
<1>1. /\ StateOk(ses, t, h, g, k, s) /\ t # <<>> /\ n = Len(t) /\ Head(t).op \in {"nsp", "nsz"}
      /\ Loads(h, h1, h2, p, d, l) /\ h1[p].base = Head(t).dir
      /\ g2 = [g EXCEPT ![Len(g)].loader = l]
  BY DEF OpensGame
<1>2. Loaded(h, h1, h2, p, d, l)
  BY <1>1, Loading
<1>3. n \in Turns(t) /\ At(t, n) = Head(t)
  BY <1>1, HeadFacts
<1>4. HeapOk(h) /\ GamesOk(h, g) /\ Opening(t, g)
  BY <1>1 DEF StateOk, ListsOk, CallsOk
<1>5. g # <<>> /\ g[Len(g)].file = Head(t).dir /\ g[Len(g)].loader = None
  BY <1>1, <1>3, <1>4 DEF Opening
<1>6. Frame(h, h2) /\ l # None /\ l \notin DOMAIN h1 /\ IsPackageOver(h2, l, h1[p].base)
  BY <1>2 DEF Loaded
<1>7. DOMAIN h \subseteq DOMAIN h1
  BY <1>1 DEF Loads, Frame, Steady, Stable
<1>8. LastGame(h, h2, g, g2, l)
  BY <1>1, <1>4, <1>5, <1>6, <1>7 DEF LastGame
<1>9. GameLoaded(h, h2, g, g2, l)
  BY <1>8, LoadingGame
<1> QED BY <1>2, <1>5, <1>9

\* The step that opens a package and makes a call for each of its files.
OpensPackageFor(ses, t, h, g, k, s, n, h1, h2, g2, p, d, l, q, R) ==
  /\ OpensGame(ses, t, h, g, k, s, n, h1, h2, g2, p, d, l) /\ R = q \o Tail(t)
  /\ Takes(ses, h2, g2, k, s, After(t, n), q) /\ Entrusted(h2, g2, k, s, q) = {}
  /\ \A a \in DOMAIN q : q[a].op \in OpsOfPackages
  /\ Apart(R)

\* The step of either.
LEMMA PackageStep ==
  ASSUME NEW ses, NEW t, NEW h, NEW g, NEW k, NEW s, NEW n, NEW h1, NEW h2, NEW g2, NEW p, NEW d,
         NEW l, NEW q, NEW R,
         OpensPackageFor(ses, t, h, g, k, s, n, h1, h2, g2, p, d, l, q, R)
  PROVE  StateOk(ses, R, h2, g2, k, s)
<1>a. PICK C, m, Z : C = After(t, n) /\ m = Len(q) /\ Z = {l, p, d} \ {None}
  OBVIOUS
<1>0. /\ OpensGame(ses, t, h, g, k, s, n, h1, h2, g2, p, d, l) /\ R = q \o Tail(t)
      /\ Takes(ses, h2, g2, k, s, C, q) /\ Entrusted(h2, g2, k, s, q) = {}
      /\ (\A a \in DOMAIN q : q[a].op \in OpsOfPackages)
      /\ Apart(R)
  BY <1>a DEF OpensPackageFor
<1>1. /\ StateOk(ses, t, h, g, k, s) /\ t # <<>> /\ n = Len(t) /\ Head(t).op \in {"nsp", "nsz"}
      /\ Live(h1) = Live(h) \cup ({p, d} \ {None}) /\ h1[p].base = Head(t).dir
      /\ p \in DOMAIN h1 \ DOMAIN h /\ h1[p].kind = "pfs" /\ h1[p].dir = None
      /\ d # None => /\ d \in DOMAIN h1 \ DOMAIN h /\ h1[d].kind = "romfs" /\ h1[d].base = None
                     /\ h1[d].dir = None
  BY <1>0 DEF OpensGame, Loads
<1>2. Loaded(h, h1, h2, p, d, l) /\ GameLoaded(h, h2, g, g2, l) /\ g[Len(g)].file = Head(t).dir
  BY <1>0, PackageOpened
<1>3. /\ HeapOk(h2) /\ Frame(h, h2) /\ l \notin DOMAIN h1 /\ l # None
      /\ (\A i \in DOMAIN h1 : h2[i] = h1[i]) /\ DOMAIN h2 = DOMAIN h1 \cup {l}
      /\ Live(h2) = Live(h1) \cup {l} /\ Package(h2, l) = Z /\ Over(h2, l) = {}
  BY <1>2, <1>a DEF Loaded
<1>4. /\ GamesOk(h2, g2) /\ OfGames(h2, g2) = OfGames(h, g) \cup Z
      /\ Loaders(g2) = Loaders(g) \cup {l}
      /\ Len(g2) = Len(g) /\ DOMAIN g2 = DOMAIN g /\ g2[Len(g)].loader = l
      /\ (\A a \in DOMAIN g : a # Len(g) => g2[a] = g[a])
      /\ Head(t).dir \in OfGames(h, g)
  BY <1>2, <1>3 DEF GameLoaded
<1>5. HeapOk(h) /\ ListsOk(h, g, k, s) /\ GamesOk(h, g) /\ TrustOk(t, h, g, k, s)
        /\ CallsOk(ses, t, h, g, k, s)
  BY <1>1 DEF StateOk, ListsOk
<1>6. /\ n \in Nat \ {0} /\ n \in Turns(t) /\ At(t, n) = Head(t) /\ Turns(t) = 1 .. n
      /\ IsSequence(t)
      /\ IsCall(ses, h, g, Head(t)) /\ IsPlaced(h, g, k, s, Head(t), C)
      /\ (\A b \in C : Above(b.op, Head(t).op) /\ IsCall(ses, h, g, b) /\ IsReady(h, k, b))
      /\ \A e \in 1 .. n - 1 : e \in Turns(t) /\ At(t, e) \in C
  BY <1>1, <1>a, HeadFacts
<1>7. Trust(h, g, k, s, Head(t)) = {}
  BY <1>1 DEF Trust
<1>8. Later(C, "nx_sys_destroy") /\ Level(Head(t).op) = 8
  BY <1>1, <1>6, Levels DEF IsPlaced
<1>9. PICK z : IsTurn(t, n, z, "nx_sys_destroy")
  <2>1. Level("nx_sys_destroy") \in Once
    BY Levels DEF Once
  <2> QED BY <1>1, <1>8, <1>a, <2>1, TheTurn
<1>10. z \in 1 .. n - 1 /\ At(t, z).op = "nx_sys_destroy"
  BY <1>9 DEF IsTurn
<1>11. DOMAIN h \subseteq DOMAIN h1
  BY <1>0 DEF OpensGame, Loads, Frame, Steady, Stable
<1>12. /\ Z \cap DOMAIN h = {} /\ Z \subseteq Live(h2) /\ Live(h2) = Live(h) \cup Z
  BY <1>1, <1>3, <1>11, <1>a
<1>13. ASSUME NEW e \in 1 .. n - 1
       PROVE  Trust(h2, g2, k, s, At(t, e)) = Trust(h, g, k, s,
              At(t, e)) \cup IF e = z THEN Z ELSE {}
  <2>0. PICK c : c = At(t, e)
    OBVIOUS
  <2>1. CASE e = z
    <3>1. c.op = "nx_sys_destroy"
      BY <1>10, <2>0, <2>1
    <3>2. Trust(h2, g2, k, s, c) = OfGames(h2, g2) \cup Range(k)
      BY <3>1, TrustOfGames
    <3>3. Trust(h, g, k, s, c) = OfGames(h, g) \cup Range(k)
      BY <3>1, TrustOfGames
    <3> QED BY <1>4, <2>0, <2>1, <3>2, <3>3
  <2>2. CASE e # z
    <3>1. c.op # "nx_sys_destroy" /\ IsCall(ses, h, g, c)
      BY <1>6, <1>9, <2>0, <2>2 DEF IsTurn
    <3>2. Trust(h2, g2, k, s, c) = Trust(h, g, k, s, c)
      BY ONLY <1>5, <1>3, <3>1, TrustStays
    <3> QED BY <2>0, <2>2, <3>2
  <2> QED BY <2>1, <2>2
<1>14. Stable(h, h2) /\ Steady(h, h2)
  BY <1>3 DEF Frame, Steady
<1>15. Growing(h, h2, g, g2)
  <2>1. Growing(h, h2, g, g)
    BY <1>5, <1>3, FrameGrowing
  <2> QED BY <1>4, <2>1 DEF Growing
<1>16. ASSUME NEW c \in C PROVE IsReady(h2, k, c)
  <2>1. IsCall(ses, h, g, c) /\ IsReady(h, k, c)
    BY <1>6
  <2> QED BY ONLY <1>5, <1>3, <2>1, ReadyStays
<1>17. ListOk(h, k, "tik") /\ ListOk(h, s, "service")
  BY <1>5 DEF ListsOk
<1>18. ListsOk(h2, g2, k, s)
  <2>1. ListOk(h2, k, "tik") /\ ListOk(h2, s, "service")
    BY <1>5, <1>14, <1>17, ListsStay
  <2> QED BY <1>4, <2>1 DEF ListsOk
<1>19. \A i \in Live(h) : Dropped(h, k, i) => Dropped(h2, k, i)
  BY <1>14, <1>17, DroppedStays DEF Live
<1>20. ASSUME NEW i \in Z, NEW j \in Over(h2, i) PROVE Assured(h2, g2, k, s, After(t, z + 1), j)
  <2>1. h2[p].kind = "pfs" /\ h2[p].base = Head(t).dir /\ h2[p].dir = None
    BY <1>1, <1>3
  <2>2. d # None => h2[d].kind = "romfs" /\ h2[d].base = None /\ h2[d].dir = None
    BY <1>1, <1>3
  <2>3. j = Head(t).dir
    <3>1. i = l \/ i = p \/ (i = d /\ d # None)
      BY <1>a, <1>20
    <3>2. i # l
      BY <1>3, <1>20
    <3>3. CASE i = p
      BY <1>20, <2>1, <3>3 DEF Over
    <3>4. CASE i = d /\ d # None
      BY <1>20, <2>2, <3>4 DEF Over
    <3> QED BY <3>1, <3>2, <3>3, <3>4
  <2>4. PICK c : c = At(t, z)
    OBVIOUS
  <2>5. c \in After(t, z + 1)
    BY <1>6, <1>10, <2>4 DEF After
  <2>6. c.op = "nx_sys_destroy"
    BY <1>10, <2>4
  <2>7. j \in Trust(h2, g2, k, s, c)
    <3>1. Trust(h2, g2, k, s, c) = OfGames(h2, g2) \cup Range(k)
      BY <2>6, TrustOfGames
    <3> QED BY <1>4, <2>3, <3>1
  <2> QED BY <2>5, <2>6, <2>7 DEF Assured, Whole
<1>21. Handed(t, h, g, k, s, q, n, h2, g2, k, s, Z, z, Z)
  <2>1. z \in 0 .. n - 1 /\ z # 0 /\ At(t, z).op # "free"
    BY <1>6, <1>10
  <2> QED BY <1>0, <1>7, <1>12, <1>13, <1>19, <1>20, <2>1 DEF Handed
<1>22. IsSequence(q) /\ DOMAIN q = 1 .. m
  BY <1>0, <1>a, SequenceIs DEF Takes
<1>23. Puts(t, q, R, n, m)
  BY <1>0, <1>1, <1>6, <1>22, <1>a, Pushing
<1>24. Opening(R, g2)
  <2>1. \A c \in C : c.op \notin {"nsp", "nsz"}
    BY <1>6, <1>8, Levels DEF Above, Once
  <2>2. \A e \in Turns(R) : At(R, e).op \notin {"nsp", "nsz"}
    <3>1. SUFFICES ASSUME NEW e \in Turns(R) PROVE At(R, e).op \notin {"nsp", "nsz"}
      OBVIOUS
    <3>2. e \in 1 .. n - 1 \/ e \in n .. n - 1 + m
      BY <1>6, <1>23, <3>1 DEF Puts
    <3>3. CASE e \in 1 .. n - 1
      BY <1>6, <1>23, <2>1, <3>3 DEF Puts
    <3>4. CASE e \in n .. n - 1 + m
      <4>1. At(R, e) = q[n + m - e] /\ n + m - e \in DOMAIN q
        BY <1>22, <1>23, <3>4 DEF Puts
      <4> QED BY <1>0, <4>1 DEF OpsOfPackages
    <3> QED BY <3>2, <3>3, <3>4
  <2>3. \A a \in DOMAIN g : g[a].loader = None => a = Len(g)
    BY <1>5 DEF CallsOk, Opening
  <2>4. \A a \in DOMAIN g2 : g2[a].loader # None
    BY <1>3, <1>4, <2>3
  <2> QED BY <2>2, <2>4 DEF Opening
<1>25. Serving(R, h2)
  <2>1. Serving(t, h) /\ \A e \in Turns(t) : IsCall(ses, h, g, At(t, e))
    BY <1>5 DEF CallsOk
  <2>2. \A i \in DOMAIN h : h[i].kind = "nca" /\ h[i].romfs_list # <<>> => h2[i].romfs_list # <<>>
    BY <1>14 DEF Steady
  <2>3. Head(t).op # "get_file" /\ \A a \in 1 .. m : q[a].op # "service"
    BY <1>0, <1>1, <1>22 DEF OpsOfPackages
  <2> QED BY ONLY <1>23, <2>1, <2>2, <2>3, ServingStays
<1>26. Rises(Head(t), q)
  BY <1>0, <1>8, Levels DEF Rises
<1>27. StepIs(ses, t, h, g, k, s, q, R, n, h2, g2, k, s)
  BY <1>a, <1>0, <1>1, <1>3, <1>15, <1>16, <1>18, <1>24, <1>25, <1>26 DEF StepIs
<1> QED BY <1>21, <1>27, AnyStep

\* A call for each file of a package
ForFiles(h, g, C, l, op, files, q) ==
  /\ op \in OpsOfPackages /\ l \in Loaders(g) /\ h[l].dir \in DOMAIN h /\ Later(C, "nx_sys_destroy")
  /\ op = "nsz_addfile" <=> h[l].base # None
  /\ op = "nsz_addfile" => h[h[l].base].parts = <<>>
  /\ IsSequence(files) /\ \A i \in DOMAIN files : files[i].kind \in {"nca", "ncz", "cnmt"}
       => IsArchive(files[i])
  /\ q = EachWith(op, l, h[l].dir, files)

\* What follows from it.
FilesTaken(ses, h, g, k, s, C, l, op, files, q) ==
  /\ Takes(ses, h, g, k, s, C, q) /\ Entrusted(h, g, k, s, q) = {} /\ IsSequence(q)
  /\ Len(q) = Len(files) /\ DOMAIN q = DOMAIN files
  /\ \A a \in DOMAIN q : q[a].op = op /\ q[a].e = files[a]

\* A call for each file of a package fits.
LEMMA TakesFiles ==
  ASSUME NEW ses, NEW h, NEW g, NEW k, NEW s, NEW C, NEW l, NEW op, NEW files, NEW q,
         ForFiles(h, g, C, l, op, files, q)
  PROVE  FilesTaken(ses, h, g, k, s, C, l, op, files, q)
<1>1. /\ op \in OpsOfPackages /\ l \in Loaders(g) /\ h[l].dir \in DOMAIN h
      /\ Later(C, "nx_sys_destroy")
      /\ op = "nsz_addfile" <=> h[l].base # None
      /\ op = "nsz_addfile" => h[h[l].base].parts = <<>>
      /\ IsSequence(files) /\ \A i \in DOMAIN files : files[i].kind \in {"nca", "ncz", "cnmt"}
           => IsArchive(files[i])
      /\ q = EachWith(op, l, h[l].dir, files)
  BY DEF ForFiles
<1>2. /\ IsSequence(q) /\ Len(q) = Len(files) /\ DOMAIN q = DOMAIN files
      /\ \A a \in DOMAIN files : q[a] = CallWith(op, l, h[l].dir, files[a])
  BY <1>1, EachFacts
<1>3. ASSUME NEW a \in DOMAIN q
      PROVE  Fits(ses, h, g, k, s, C, q[a]) /\ Trust(h, g, k, s, q[a]) = {} /\ q[a].op = op
             /\ q[a].e = files[a]
  <2>1. PICK c : c = q[a]
    OBVIOUS
  <2>2. c.op = op /\ c.owner = l /\ c.dir = h[l].dir /\ c.e = files[a]
    BY <1>2, <2>1, CallParts
  <2>3. Trust(h, g, k, s, c) = {}
    BY <1>1, <2>2 DEF Trust, OpsOfPackages
  <2>4. c.e.kind \in {"nca", "ncz", "cnmt"} => IsArchive(c.e)
    BY <1>1, <1>2, <2>2
  <2>5. IsCall(ses, h, g, c)
    BY <1>1, <2>2, <2>4 DEF IsCall, Ops, OpsOfPackages
  <2>6. IsReady(h, k, c)
    <3>1. op = "nsz_addfile" => HeldIn(h, h[l].base, c.e.name) = {}
      BY <1>1, Nothing DEF HeldIn
    <3> QED BY <1>1, <2>2, <3>1 DEF IsReady, OpsOfPackages
  <2>7. IsPlaced(h, g, k, s, c, C)
    BY <1>1, <2>2 DEF IsPlaced, OpsOfPackages
  <2>8. Fits(ses, h, g, k, s, C, c)
    BY <2>3, <2>5, <2>6, <2>7 DEF Fits, Whole
  <2> QED BY <2>1, <2>2, <2>3, <2>8
<1>4. op \notin {"nsp", "nsz"} /\ Level(op) \notin Once
  BY <1>1, Levels DEF OpsOfPackages, Once
<1>5. Takes(ses, h, g, k, s, C, q) /\ Entrusted(h, g, k, s, q) = {}
  BY <1>2, <1>3, <1>4, TakesIdle
<1> QED BY <1>2, <1>3, <1>5 DEF FilesTaken

\* The files of a package
LEMMA FilesAre ==
  ASSUME OnDisk, NEW i \in DOMAIN session.games, NEW files, files = session.games[i].files
  PROVE  /\ IsSequence(files) /\ \A a \in DOMAIN files : files[a].kind \in {"nca", "ncz",
              "cnmt"} => IsArchive(files[a])
         /\ \A a, b \in DOMAIN files : {files[a].kind, files[b].kind} \subseteq {"nca", "ncz"}
              => files[a].name # files[b].name \/ a = b
<1>1. IsPackage(session.games[i])
  BY SessionsAssumption DEF OnDisk
<1> QED BY <1>1 DEF IsPackage

\* The archives of a package have different names: so have the calls for its files.
LEMMA ApartFiles ==
  ASSUME NEW t, NEW q, NEW R, NEW n, NEW m, Puts(t, q, R, n, m), m = Len(q), IsSequence(q),
         \A d \in 1 .. n - 1 : At(t, d).op # "nsz_addfile",
         \A a, b \in DOMAIN q : {q[a].e.kind, q[b].e.kind} \subseteq {"nca", "ncz"}
           => q[a].e.name # q[b].e.name \/ a = b
  PROVE  Apart(R)
<1>0. /\ n \in Nat \ {0} /\ m \in Nat /\ Turns(R) = 1 .. n - 1 + m
           /\ \A d \in 1 .. n - 1 : At(R, d) = At(t, d)
      /\ \A d \in n .. n - 1 + m : n + m - d \in 1 .. m /\ At(R, d) = q[n + m - d]
  BY DEF Puts
<1>1. DOMAIN q = 1 .. m
  BY SequenceIs
<1>2. SUFFICES ASSUME NEW e \in Turns(R), NEW d \in 1 .. e - 1 PROVE Differ(At(R, d), At(R, e))
  BY DEF Apart
<1>3. d \in Turns(R) /\ d # e /\ d \in Nat /\ e \in Nat
  BY <1>0, <1>2
<1>4. CASE d \in 1 .. n - 1 \/ e \in 1 .. n - 1
  BY <1>0, <1>4 DEF Differ
<1>5. CASE d \in n .. n - 1 + m /\ e \in n .. n - 1 + m
  <2>1. PICK a, b \in DOMAIN q : a = n + m - d /\ b = n + m - e /\ At(R, d) = q[a]
          /\ At(R, e) = q[b]
    BY <1>0, <1>1, <1>5
  <2>2. a # b
    BY <1>0, <1>3, <2>1
  <2> QED BY <2>1, <2>2 DEF Differ
<1> QED BY <1>0, <1>3, <1>4, <1>5

\* What a call that opens a package finds
LEMMA PackageFound ==
  ASSUME Ok, NEW op \in {"nsp", "nsz"}, Calling(op), NEW n, n = Len(todo), NEW dir,
         dir = Head(todo).dir
  PROVE  /\ HeapOk(heap) /\ dir \in DOMAIN heap /\ heap[dir].kind = "map"
         /\ Head(todo).x \in DOMAIN session.games
         /\ Later(After(todo, n), "nx_sys_destroy") /\ Chain(dir) \subseteq Live(heap)
         /\ \A c \in After(todo, n) : c.op # "nsz_addfile"
         /\ todo # <<>> /\ n \in Nat \ {0} /\ IsSequence(todo)
              /\ \A d \in 1 .. n - 1 : At(todo, d) \in After(todo, n)
<1>1. /\ HeapOk(heap) /\ GamesOk(heap, games) /\ Head(todo).op = op /\ todo # <<>>
      /\ IsCall(session, heap, games, Head(todo))
      /\ IsPlaced(heap, games, tickets, services, Head(todo), After(todo, n))
      /\ n \in Turns(todo) /\ At(todo, n) = Head(todo) /\ n \in Nat \ {0} /\ IsSequence(todo)
  BY OkFacts
<1>2. Head(todo).x \in DOMAIN session.games /\ dir \in DOMAIN heap
        /\ Later(After(todo, n), "nx_sys_destroy")
  BY <1>1 DEF IsCall, IsPlaced
<1>3. PICK a : a = Len(games) /\ games # <<>> /\ games[a].file = dir
  BY <1>1 DEF Ok, StateOk, CallsOk, Opening
<1>4. a \in DOMAIN games
  <2>1. IsSequence(games)
    BY <1>1 DEF GamesOk
  <2>2. a \in Nat /\ DOMAIN games = 1 .. a /\ games \in Seq(Range(games))
    BY <1>3, <2>1, SequenceIs
  <2> QED BY <1>3, <2>2
<1>5. heap[dir].kind = "map"
  BY <1>1, <1>3, <1>4 DEF GamesOk, IsAlone
<1>6. dir \in OfGames(heap, games)
  BY <1>3, <1>4 DEF OfGames, Game
<1>7. Assured(heap, games, tickets, services, After(todo, n), dir)
  <2>1. PICK b \in After(todo, n) : b.op = "nx_sys_destroy"
    BY <1>2 DEF Later
  <2>2. Trust(heap, games, tickets, services, b) = OfGames(heap, games) \cup Range(tickets)
    BY <2>1, TrustOfGames
  <2> QED BY <1>6, <2>1, <2>2 DEF Assured, Whole
<1>8. Chain(dir) \subseteq Live(heap)
  BY <1>1, <1>5, <1>7, ChainOpen
<1>9. \A c \in After(todo, n) : Above(c.op, Head(todo).op)
  BY <1>1, HeadFacts DEF Ok
<1>10. ASSUME NEW c \in After(todo, n) PROVE c.op # "nsz_addfile"
  BY <1>1, <1>9, Levels DEF Above, OpsOfPackages
<1>11. \A d \in 1 .. n - 1 : At(todo, d) \in After(todo, n)
  BY DEF After
<1> QED BY <1>1, <1>2, <1>5, <1>8, <1>10, <1>11

\* NszCreate keeps the invariant, and uses and closes only what is live.
LEMMA NszCreateStep ==
  ASSUME Ok, OnDisk, NszCreate
  PROVE  Ok' /\ fault' = fault
<1>n. PICK n : n = Len(todo)
  OBVIOUS
<1>a. PICK dir, x, C, h2, g2, R : dir = Head(todo).dir /\ x = Head(todo).x /\ C = After(todo, n)
        /\ h2 = heap' /\ g2 = games' /\ R = todo'
  OBVIOUS
<1>b. PICK p, d, l, h0, h1 : /\ p = Len(heap) + 1 /\ d = p + 1 /\ l = p + 2
                             /\ h0 = Append(heap, Pfs(dir)) /\ h1 = Append(h0, NcaFiles)
  OBVIOUS
<1>c. PICK files, q : files = session.games[x].files /\ q = EachWith("nsz_addfile", l, p, files)
  OBVIOUS
<1>1. /\ HeapOk(heap) /\ dir \in DOMAIN heap /\ heap[dir].kind = "map" /\ x \in DOMAIN session.games
      /\ Later(C, "nx_sys_destroy") /\ Chain(dir) \subseteq Live(heap)
      /\ (\A c \in C : c.op # "nsz_addfile")
      /\ todo # <<>> /\ n \in Nat \ {0} /\ IsSequence(todo)
           /\ \A e \in 1 .. n - 1 : At(todo, e) \in C
  BY <1>n, <1>a, PackageFound DEF NszCreate
<1>2. IsSequence(heap) /\ Len(heap) \in Nat /\ DOMAIN heap = 1 .. Len(heap)
  BY <1>1, SequenceIs DEF HeapOk
<1>3. /\ Calling("nsz") /\ heap' = heap \o <<Pfs(dir), NcaFiles, Inside(p, Object("loader", d))>>
      /\ games' = [games EXCEPT ![Len(games)].loader = l] /\ Then(q) /\ Use(Chain(dir))
      /\ Same /\ tickets' = tickets /\ services' = services
  <2>1. New = p /\ New + 1 = d /\ New + 2 = l
    BY <1>2, <1>b DEF New
  <2> QED BY <1>a, <1>c, <2>1 DEF NszCreate, Arg
<1>4. h2 = Append(h1, Inside(p, Object("loader", d)))
  <2>1. PICK a, b, c : a = Pfs(dir) /\ b = NcaFiles /\ c = Inside(p, Object("loader", d))
    OBVIOUS
  <2>2. heap \o <<a, b, c>> = Append(Append(Append(heap, a), b), c)
    BY <1>2, BehindThree
  <2>3. h2 = heap \o <<a, b, c>>
    BY <1>3, <1>a, <2>1
  <2> QED BY <1>b, <2>1, <2>2, <2>3
<1>5. PICK o, u : o = Pfs(dir) /\ u = NcaFiles
  OBVIOUS
<1>6. Laid(heap, h0, o, "pfs", dir)
  <2>1. Lays(heap, h0, o, "pfs", dir)
    BY <1>1, <1>b, <1>5 DEF Lays, Pfs
  <2> QED BY <2>1, Laying
<1>7. /\ HeapOk(h0) /\ Frame(heap, h0) /\ DOMAIN h0 = DOMAIN heap \cup {p} /\ Len(h0) = p
      /\ p \notin DOMAIN heap
      /\ h0[p] = o /\ Live(h0) = Live(heap) \cup {p} /\ o.kind = "pfs" /\ o.base = dir
      /\ o.dir = None
  BY <1>6, <1>b DEF Laid, Came
<1>8. Bared(h0, h1, u, "romfs")
  <2>1. Bares(h0, h1, u, "romfs")
    BY <1>7, <1>b, <1>5 DEF Bares, NcaFiles
  <2> QED BY <2>1, Baring
<1>9. /\ HeapOk(h1) /\ Frame(h0, h1) /\ DOMAIN h1 = DOMAIN h0 \cup {d} /\ Len(h1) = d
      /\ d \notin DOMAIN h0
      /\ h1[d] = u /\ (\A i \in DOMAIN h0 : h1[i] = h0[i]) /\ Live(h1) = Live(h0) \cup {d}
      /\ u.kind = "romfs" /\ u.base = None /\ u.dir = None
  BY <1>7, <1>8, <1>b DEF Bared, Came
<1>10. Frame(heap, h1)
  BY <1>7, <1>9, FrameOn
<1>11. /\ p # None /\ d # None /\ p < d /\ l = Len(h1) + 1 /\ p \in DOMAIN h1 /\ h1[p] = o
       /\ d \in DOMAIN h1 /\ d \notin DOMAIN heap
       /\ \A b \in DOMAIN h1 \ DOMAIN heap : h1[b].kind \notin {"nca", "loader"}
  BY <1>2, <1>7, <1>9, <1>b DEF None
<1>12. Loads(heap, h1, h2, p, d, l)
  BY <1>1, <1>4, <1>7, <1>9, <1>10, <1>11 DEF Loads
<1>13. OpensGame(session, todo, heap, games, tickets, services, n, h1, h2, g2, p, d, l)
  <2>1. Live(h1) = Live(heap) \cup ({p, d} \ {None}) /\ h1[p].base = Head(todo).dir
    BY <1>7, <1>9, <1>11, <1>a
  <2>2. Head(todo).op \in {"nsp", "nsz"}
    BY <1>3 DEF Calling
  <2> QED BY <1>1, <1>3, <1>12, <1>n, <1>a, <2>1, <2>2 DEF OpensGame, Ok
<1>14. Loaded(heap, h1, h2, p, d, l) /\ GameLoaded(heap, h2, games, g2, l)
  BY <1>13, PackageOpened
<1>15. /\ h2[l].dir = p /\ h2[l].base = d /\ h2[d] = h1[d] /\ p \in DOMAIN h2
  BY <1>11, <1>14 DEF Loaded
<1>16. l \in Loaders(g2)
  BY <1>14 DEF GameLoaded
<1>17. FilesTaken(session, h2, g2, tickets, services, C, l, "nsz_addfile", files, q)
  <2>1. /\ IsSequence(files) /\ \A a \in DOMAIN files : files[a].kind \in {"nca", "ncz", "cnmt"}
             => IsArchive(files[a])
    BY <1>1, <1>c, FilesAre
  <2>2. h2[h2[l].base].parts = <<>>
    <3>1. u.parts = <<>>
      BY <1>5 DEF NcaFiles, Object
    <3> QED BY <1>9, <1>15, <3>1
  <2>3. ForFiles(h2, g2, C, l, "nsz_addfile", files, q)
    BY <1>1, <1>11, <1>15, <1>16, <1>c, <2>1, <2>2 DEF ForFiles, OpsOfPackages
  <2> QED BY <2>3, TakesFiles
<1>18. /\ Takes(session, h2, g2, tickets, services, C, q)
       /\ Entrusted(h2, g2, tickets, services, q) = {}
       /\ IsSequence(q) /\ DOMAIN q = DOMAIN files
            /\ \A a \in DOMAIN q : q[a].op = "nsz_addfile" /\ q[a].e = files[a]
  BY <1>17 DEF FilesTaken
<1>19. R = q \o Tail(todo)
  BY <1>3, <1>a DEF Then
<1>20. Apart(R)
  <2>1. PICK m : m = Len(q)
    OBVIOUS
  <2>2. Puts(todo, q, R, n, m)
    BY <1>1, <1>n, <1>18, <1>19, <2>1, Pushing
  <2>3. \A e \in 1 .. n - 1 : At(todo, e).op # "nsz_addfile"
    BY <1>1
  <2>4. \A a, b \in DOMAIN files : {files[a].kind, files[b].kind} \subseteq {"nca", "ncz"}
          => files[a].name # files[b].name \/ a = b
    BY <1>1, <1>c, FilesAre
  <2>5. \A a, b \in DOMAIN q : {q[a].e.kind, q[b].e.kind} \subseteq {"nca", "ncz"}
          => q[a].e.name # q[b].e.name \/ a = b
    BY <1>18, <2>4
  <2> QED BY <1>18, <2>1, <2>2, <2>3, <2>5, ApartFiles
<1>21. OpensPackageFor(session, todo, heap, games, tickets, services, n, h1, h2, g2, p, d, l, q, R)
  BY <1>13, <1>18, <1>19, <1>20, <1>a DEF OpensPackageFor, OpsOfPackages
<1>22. StateOk(session, R, h2, g2, tickets, services)
  BY <1>21, PackageStep
<1>23. Ok'
  BY <1>3, <1>22, <1>a DEF Ok, Same
<1> QED BY <1>1, <1>3, <1>23, Unused

\* NspCreate keeps the invariant, and uses and closes only what is live.
LEMMA NspCreateStep ==
  ASSUME Ok, OnDisk, NspCreate
  PROVE  Ok' /\ fault' = fault
<1>n. PICK n : n = Len(todo)
  OBVIOUS
<1>a. PICK dir, x, C, h2, g2, R : dir = Head(todo).dir /\ x = Head(todo).x /\ C = After(todo, n)
        /\ h2 = heap' /\ g2 = games' /\ R = todo'
  OBVIOUS
<1>b. PICK p, l, h1 : p = Len(heap) + 1 /\ l = p + 1 /\ h1 = Append(heap, Pfs(dir))
  OBVIOUS
<1>c. PICK files, q1, q2, q : /\ files = session.games[x].files
                              /\ q1 = EachWith("load_tik", l, p, files)
                              /\ q2 = EachWith("nsp_addfile", l, p, files) /\ q = q1 \o q2
  OBVIOUS
<1>1. /\ HeapOk(heap) /\ dir \in DOMAIN heap /\ heap[dir].kind = "map" /\ x \in DOMAIN session.games
      /\ Later(C, "nx_sys_destroy") /\ Chain(dir) \subseteq Live(heap)
      /\ (\A c \in C : c.op # "nsz_addfile")
      /\ todo # <<>> /\ n \in Nat \ {0} /\ IsSequence(todo)
           /\ \A e \in 1 .. n - 1 : At(todo, e) \in C
  BY <1>n, <1>a, PackageFound DEF NspCreate
<1>2. IsSequence(heap) /\ Len(heap) \in Nat /\ DOMAIN heap = 1 .. Len(heap)
  BY <1>1, SequenceIs DEF HeapOk
<1>3. /\ Calling("nsp") /\ heap' = heap \o <<Pfs(dir), Inside(p, Object("loader", None))>>
      /\ games' = [games EXCEPT ![Len(games)].loader = l] /\ Then(q) /\ Use(Chain(dir))
      /\ Same /\ tickets' = tickets /\ services' = services
  <2>1. New = p /\ New + 1 = l
    BY <1>2, <1>b DEF New
  <2> QED BY <1>a, <1>c, <2>1 DEF NspCreate, NspOrder, Arg
<1>4. h2 = Append(h1, Inside(p, Object("loader", None)))
  BY <1>2, <1>3, <1>a, <1>b, BehindTwo
<1>5. PICK o : o = Pfs(dir)
  OBVIOUS
<1>6. Laid(heap, h1, o, "pfs", dir)
  <2>1. Lays(heap, h1, o, "pfs", dir)
    BY <1>1, <1>b, <1>5 DEF Lays, Pfs
  <2> QED BY <2>1, Laying
<1>7. /\ HeapOk(h1) /\ Frame(heap, h1) /\ DOMAIN h1 = DOMAIN heap \cup {p} /\ Len(h1) = p
      /\ p \notin DOMAIN heap
      /\ h1[p] = o /\ Live(h1) = Live(heap) \cup {p} /\ o.kind = "pfs" /\ o.base = dir
      /\ o.dir = None
  BY <1>6, <1>b DEF Laid, Came
<1>8. /\ p # None /\ l = Len(h1) + 1 /\ p \in DOMAIN h1
      /\ \A b \in DOMAIN h1 \ DOMAIN heap : h1[b].kind \notin {"nca", "loader"}
  BY <1>2, <1>7, <1>b DEF None
<1>9. PICK d : d = None
  OBVIOUS
<1>10. Loads(heap, h1, h2, p, d, l)
  BY <1>1, <1>4, <1>7, <1>8, <1>9 DEF Loads
<1>11. OpensGame(session, todo, heap, games, tickets, services, n, h1, h2, g2, p, d, l)
  <2>1. Live(h1) = Live(heap) \cup ({p, d} \ {None}) /\ h1[p].base = Head(todo).dir
    BY <1>7, <1>8, <1>9, <1>a
  <2>2. Head(todo).op \in {"nsp", "nsz"}
    BY <1>3 DEF Calling
  <2> QED BY <1>1, <1>3, <1>10, <1>n, <1>a, <2>1, <2>2 DEF OpensGame, Ok
<1>12. Loaded(heap, h1, h2, p, d, l) /\ GameLoaded(heap, h2, games, g2, l)
  BY <1>11, PackageOpened
<1>13. h2[l].dir = p /\ h2[l].base = None /\ p \in DOMAIN h2
  BY <1>8, <1>9, <1>12 DEF Loaded
<1>14. l \in Loaders(g2)
  BY <1>12 DEF GameLoaded
<1>15. IsSequence(files) /\ \A a \in DOMAIN files : files[a].kind \in {"nca", "ncz", "cnmt"}
         => IsArchive(files[a])
  BY <1>1, <1>c, FilesAre
<1>16. \A D : C \subseteq D => FilesTaken(session, h2, g2, tickets, services, D, l, "load_tik",
         files, q1)
  <2>1. SUFFICES ASSUME NEW D, C \subseteq D
        PROVE FilesTaken(session, h2, g2, tickets, services, D, l, "load_tik", files, q1)
    OBVIOUS
  <2>2. Later(D, "nx_sys_destroy")
    BY <1>1, <2>1 DEF Later
  <2>3. ForFiles(h2, g2, D, l, "load_tik", files, q1)
    BY <1>1, <1>13, <1>14, <1>15, <1>c, <2>2 DEF ForFiles, OpsOfPackages
  <2> QED BY <2>3, TakesFiles
<1>17. FilesTaken(session, h2, g2, tickets, services, C, l, "nsp_addfile", files, q2)
  <2>1. ForFiles(h2, g2, C, l, "nsp_addfile", files, q2)
    BY <1>1, <1>13, <1>14, <1>15, <1>c DEF ForFiles, OpsOfPackages
  <2> QED BY <2>1, TakesFiles
<1>18. Joined(session, h2, g2, tickets, services, C, q1, q2)
  <2>1. FilesTaken(session, h2, g2, tickets, services, C \cup Range(q2), l, "load_tik", files, q1)
    BY <1>16
  <2>2. \A a \in DOMAIN q1 : \A b \in DOMAIN q2 : Above(q2[b].op, q1[a].op)
    <3>1. \A a \in DOMAIN q1 : q1[a].op = "load_tik"
      BY <2>1 DEF FilesTaken
    <3>2. \A b \in DOMAIN q2 : q2[b].op = "nsp_addfile"
      BY <1>17 DEF FilesTaken
    <3>3. Above("nsp_addfile", "load_tik")
      BY Levels DEF Above, Once, OpsOfPackages
    <3> QED BY <3>1, <3>2, <3>3
  <2>3. Joins(session, h2, g2, tickets, services, C, q1, q2)
    BY <1>17, <2>1, <2>2 DEF FilesTaken, Joins
  <2> QED BY <2>3, TakesJoin
<1>19. /\ \A a \in DOMAIN q1 : q1[a].op \in {"load_tik"}
       /\ \A b \in DOMAIN q2 : q2[b].op \in {"nsp_addfile"}
       /\ Entrusted(h2, g2, tickets, services, q1) = {}
       /\ Entrusted(h2, g2, tickets, services, q2) = {}
  BY <1>16, <1>17 DEF FilesTaken
<1>20. /\ Takes(session, h2, g2, tickets, services, C, q)
       /\ Entrusted(h2, g2, tickets, services, q) = {}
       /\ IsSequence(q) /\ \A a \in DOMAIN q : q[a].op \in {"load_tik", "nsp_addfile"}
  BY <1>18, <1>19, <1>c DEF Joined
<1>21. R = q \o Tail(todo)
  BY <1>3, <1>a DEF Then
<1>22. Apart(R)
  <2>1. PICK m : m = Len(q)
    OBVIOUS
  <2>2. Puts(todo, q, R, n, m)
    BY <1>1, <1>n, <1>20, <1>21, <2>1, Pushing
  <2>3. \A a \in 1 .. m : q[a].op # "nsz_addfile"
    BY <1>20, <2>1, SequenceIs
  <2>4. Apart(todo)
    BY DEF Ok, StateOk, CallsOk
  <2> QED BY <2>2, <2>3, <2>4, ApartStays
<1>23. OpensPackageFor(session, todo, heap, games, tickets, services, n, h1, h2, g2, p, d, l, q, R)
  BY <1>11, <1>20, <1>21, <1>22, <1>a DEF OpensPackageFor, OpsOfPackages
<1>24. StateOk(session, R, h2, g2, tickets, services)
  BY <1>23, PackageStep
<1>25. Ok'
  BY <1>3, <1>24, <1>a DEF Ok, Same
<1> QED BY <1>1, <1>3, <1>25, Unused

----------------------------------------------------------------------------
(* Files that directories hold *)

\* A file is closed, and leaves its directory.
Leaves(h, h2, dir, x) ==
  /\ HeapOk(h) /\ dir \in DOMAIN h /\ x \in DOMAIN h /\ IsFileOf(h, x, dir)
  /\ h2 = [h EXCEPT ![dir].parts = Without(@, x), ![x].live = FALSE]

\* What follows from it.
Left(h, h2, dir, x) ==
  /\ HeapOk(h2) /\ Steady(h, h2) /\ DOMAIN h2 = DOMAIN h /\ Live(h2) = Live(h) \ {x}
  /\ Range(h2[dir].parts) = Range(h[dir].parts) \ {x}
  /\ \A i \in DOMAIN h : i # dir => h2[i].parts = h[i].parts

\* A directory with a file less leaves the heap sound.
LEMMA Leaving ==
  ASSUME NEW h, NEW h2, NEW dir, NEW x, Leaves(h, h2, dir, x)
  PROVE  Left(h, h2, dir, x)
<1>1. HeapOk(h) /\ dir \in DOMAIN h /\ x \in DOMAIN h /\ IsFileOf(h, x, dir)
        /\ h[dir].kind \in DirKinds /\ h[x].kind \in FileKinds
  BY DEF Leaves, IsFileOf
<1>2. PICK s, h1 : s = Without(h[dir].parts, x) /\ h1 = [h EXCEPT ![dir].parts = s]
  OBVIOUS
<1>3. dir # x /\ h[dir].kind # "loader"
  BY <1>1 DEF DirKinds, FileKinds
<1>4. h2 = [h1 EXCEPT ![x].live = FALSE]
  <2>1. IsObject(h, dir) /\ IsObject(h, x) /\ IsSequence(h)
    BY <1>1 DEF HeapOk
  <2> QED BY <1>1, <1>2, <1>3, <2>1 DEF Leaves
<1>5. IsSequence(s) /\ IsInjective(s) /\ Range(s) = Range(h[dir].parts) \ {x}
  <2>1. IsSequence(h[dir].parts) /\ IsInjective(h[dir].parts)
    BY <1>1, ObjectFacts
  <2> QED BY <1>2, <2>1, WithoutFacts
<1>6. Lists(h, h1, dir, s)
  <2>1. Range(s) \subseteq DOMAIN h
    BY <1>1, <1>5, ObjectFacts
  <2>2. HoldsFiles(h, dir)
    BY <1>1 DEF HeapOk
  <2>3. h[dir].kind \in {"hostdir", "romfs"} =>
          \A j \in Range(s) :
            /\ h[j].dir = dir /\ h[j].live
            /\ h[j].kind \in IF h[dir].kind = "hostdir" THEN {"host"} ELSE {"offset", "mem"}
    BY <1>5, <2>2 DEF HoldsFiles
  <2> QED BY <1>1, <1>2, <1>3, <1>5, <2>1, <2>3 DEF Lists
<1>7. /\ HeapOk(h1) /\ Steady(h, h1) /\ DOMAIN h1 = DOMAIN h
      /\ h1[dir].parts = s /\ (\A i \in DOMAIN h : i # dir => h1[i].parts = h[i].parts)
      /\ Live(h1) = Live(h)
  <2>1. Listed(h, h1, dir, s)
    BY <1>6, Listing
  <2> QED BY <2>1 DEF Listed
<1>8. Closes(h1, h2, x)
  <2>1. ASSUME NEW i \in DOMAIN h1, h1[i].kind \in {"hostdir", "romfs"}, x \in Range(h1[i].parts)
        PROVE FALSE
    <3>1. i # dir
      BY <1>5, <1>7, <2>1
    <3>2. HoldsFiles(h1, i)
      BY <1>7 DEF HeapOk
    <3>3. h1[x].dir = i
      BY <2>1, <3>2 DEF HoldsFiles
    <3>4. h1[x].dir = h[x].dir
      BY <1>1, <1>7 DEF Steady, Stable
    <3>5. i # None
      BY <1>7, <2>1, SequenceIs DEF HeapOk, None
    <3> QED BY <1>1, <3>1, <3>3, <3>4, <3>5 DEF IsFileOf
  <2> QED BY <1>1, <1>4, <1>7, <2>1 DEF Closes
<1>9. /\ HeapOk(h2) /\ Steady(h1, h2) /\ DOMAIN h2 = DOMAIN h1
           /\ (\A i \in DOMAIN h1 : h2[i].parts = h1[i].parts)
      /\ Live(h2) = Live(h1) \ {x}
  <2>1. Closed(h1, h2, x)
    BY <1>8, Closing
  <2> QED BY <2>1 DEF Closed
<1>10. Steady(h, h2)
  <2>1. Steady(h, h1) /\ Steady(h1, h2) /\ DOMAIN h \subseteq DOMAIN h1
    BY <1>7, <1>9
  <2> QED BY <2>1, Zenon DEF Steady, Stable
<1> QED BY <1>1, <1>5, <1>7, <1>9, <1>10 DEF Left

\* Another call asks for other files.
LEMMA LeavingHeld ==
  ASSUME NEW h, NEW h2, NEW dir, NEW x, HeapOk(h), Left(h, h2, dir, x), NEW ses, NEW g,
         GamesOk(h, g), NEW k, NEW s,
         NEW c, IsCall(ses, h, g, c), IsReady(h, k, c), x \notin Trust(h, g, k, s, c)
  PROVE  SameAsked(h, h2, g, k, s, c)
<1>1. /\ HeapOk(h2) /\ Steady(h, h2) /\ Stable(h, h2) /\ DOMAIN h2 = DOMAIN h
      /\ Range(h2[dir].parts) = Range(h[dir].parts) \ {x}
      /\ \A i \in DOMAIN h : i # dir => h2[i].parts = h[i].parts
  BY DEF Left, Steady
<1>2. ASSUME NEW b \in DOMAIN h, NEW name, x \notin HeldIn(h, b, name)
      PROVE HeldIn(h2, b, name) = HeldIn(h, b, name)
  <2>1. Range(h[b].parts) \subseteq DOMAIN h
    BY <1>2, ObjectFacts
  <2>2. Range(h2[b].parts) = Range(h[b].parts) \ IF b = dir THEN {x} ELSE {}
    BY <1>1
  <2>3. \A i \in DOMAIN h : h2[i].path = h[i].path
    BY <1>1 DEF Stable
  <2> QED BY <1>2, <2>1, <2>2, <2>3 DEF HeldIn
<1>3. ASSUME c.op = "content_archive_create", h[c.dir].kind = "romfs"
      PROVE  HeldIn(h2, c.dir, c.e.name) = HeldIn(h, c.dir, c.e.name)
  <2>1. c.dir \in DOMAIN h
    BY <1>3 DEF IsCall
  <2>2. Trust(h, g, k, s, c) = HeldIn(h, c.dir, c.e.name)
    BY <1>3 DEF Trust
  <2> QED BY <1>2, <2>1, <2>2
<1>4. ASSUME c.op = "nsz_addfile", c.e.kind \in {"nca", "ncz"}
      PROVE  HeldIn(h2, h[c.owner].base, c.e.name) = HeldIn(h, h[c.owner].base, c.e.name)
  <2>1. c.owner \in Loaders(g) /\ h[c.owner].base # None
    BY <1>4 DEF IsCall, OpsOfPackages
  <2>2. h[c.owner].base \in DOMAIN h
    BY <2>1, LoaderFacts
  <2>3. HeldIn(h, h[c.owner].base, c.e.name) = {}
    BY <1>4 DEF IsReady
  <2> QED BY <1>2, <2>2, <2>3
<1>5. \A i \in DOMAIN h : Unowned(h, i) => Unowned(h2, i)
  <2>1. \A b \in DOMAIN h : Owned(h2, b) = Owned(h, b)
    BY <1>1, SteadyFacts
  <2> QED BY <1>1, <2>1 DEF Unowned
<1> QED BY <1>3, <1>4, <1>5 DEF SameAsked, SameHeld

\* CloseFile keeps the invariant, and uses and closes only what is live.
LEMMA CloseFileStep ==
  ASSUME Ok, CloseFile
  PROVE  Ok' /\ fault' = fault
<1>n. PICK n : n = Len(todo)
  OBVIOUS
<1>a. PICK dir, x, C, h2 : dir = Head(todo).dir /\ x = Head(todo).x /\ C = After(todo, n)
        /\ h2 = heap'
  OBVIOUS
<1>1. Calling("close_file")
  BY DEF CloseFile
<1>2. CASE /\ heap[dir].kind \in {"pfs", "romfs"} /\ heap[x].kind = "offset"
           /\ heap[dir].base # None /\ heap[x].base # heap[dir].base
  BY <1>2, <1>a, QuitStep DEF CloseFile, Arg
<1>3. CASE ~(/\ heap[dir].kind \in {"pfs", "romfs"} /\ heap[x].kind = "offset"
             /\ heap[dir].base # None /\ heap[x].base # heap[dir].base)
  <2>1. /\ heap' = [heap EXCEPT ![dir].parts = FilesLeft(dir, x),
                                ![x].live = (@ /\ heap[dir].kind = "romfs"
                                               /\ heap[x].kind \notin {"offset", "map", "mem"})]
        /\ Use({dir, x}) /\ Then(<<>>) /\ SameLists
    BY <1>3, <1>a DEF CloseFile, Arg
  <2>2. /\ HeapOk(heap) /\ GamesOk(heap, games) /\ Head(todo).op = "close_file" /\ todo # <<>>
        /\ IsCall(session, heap, games, Head(todo))
        /\ IsPlaced(heap, games, tickets, services, Head(todo), After(todo, n))
        /\ Trust(heap, games, tickets, services, Head(todo)) \subseteq Live(heap)
        /\ ListsOk(heap, games, tickets, services)
        /\ n \in Turns(todo) /\ At(todo, n) = Head(todo) /\ n \in Nat \ {0}
    BY <1>1, <1>n, OkFacts
  <2>3. /\ x \in DOMAIN heap /\ dir \in DOMAIN heap /\ IsFileOf(heap, x, dir)
        /\ Assured(heap, games, tickets, services, C, dir)
    BY <2>2, <1>a DEF IsCall, IsPlaced
  <2>4. Trust(heap, games, tickets, services, Head(todo)) = {x}
    BY <2>2, <1>a DEF Trust
  <2>5. h2 = [heap EXCEPT ![dir].parts = Without(@, x), ![x].live = FALSE]
    <3>1. (heap[x].live /\ heap[dir].kind = "romfs"
            /\ heap[x].kind \notin {"offset", "map", "mem"}) = FALSE
      BY <2>3 DEF IsFileOf, FileKinds
    <3>2. dir # x
      BY <2>3 DEF IsFileOf, FileKinds, DirKinds
    <3> QED BY <2>1, <3>1, <3>2, <1>a DEF FilesLeft
  <2>6. Left(heap, h2, dir, x)
    <3>1. Leaves(heap, h2, dir, x)
      BY <2>2, <2>3, <2>5 DEF Leaves
    <3> QED BY <3>1, Leaving
  <2>7. HeapOk(h2) /\ Steady(heap, h2) /\ Stable(heap, h2) /\ DOMAIN h2 = DOMAIN heap
          /\ Live(h2) = Live(heap) \ {x}
    BY <2>6 DEF Left, Steady
  <2>8. /\ \A c \in C : IsCall(session, heap, games, c) /\ IsReady(heap, tickets, c)
                        /\ Trust(heap, games, tickets, services, c) \cap Trust(heap, games,
                             tickets, services, Head(todo)) = {}
        /\ \A d \in 1 .. n - 1 : At(todo, d) \in C
    BY <2>2, <1>n, <1>a, HeadFacts DEF Ok
  <2>9. ASSUME NEW c \in C PROVE SameAsked(heap, h2, games, tickets, services, c)
    <3>1. IsCall(session, heap, games, c) /\ IsReady(heap, tickets, c)
            /\ x \notin Trust(heap, games, tickets, services, c)
      BY <2>4, <2>8
    <3> QED BY ONLY <2>2, <2>6, <3>1, LeavingHeld
  <2>10. ASSUME NEW c \in C PROVE IsReady(h2, tickets, c)
    <3>1. IsCall(session, heap, games, c) /\ IsReady(heap, tickets, c)
            /\ SameAsked(heap, h2, games, tickets, services, c)
      BY <2>8, <2>9
    <3> QED BY ONLY <2>2, <2>7, <3>1, ReadyHeld
  <2>11. ASSUME NEW c \in C PROVE Trust(h2, games, tickets, services, c) = Trust(heap, games,
                tickets, services, c)
    <3>1. IsCall(session, heap, games, c) /\ SameHeld(heap, h2, c)
      BY <2>8, <2>9 DEF SameAsked
    <3> QED BY ONLY <2>2, <2>7, <3>1, TrustHeld
  <2>12. ListOk(heap, tickets, "tik") /\ ListOk(heap, services, "service")
    BY <2>2 DEF ListsOk
  <2>13. ListOk(h2, tickets, "tik") /\ ListOk(h2, services, "service")
    BY <2>2, <2>7, <2>12, ListsStay
  <2>14. Growing(heap, h2, games, games)
    BY <2>2, <2>7, SteadyFacts DEF Growing
  <2>15. \A i \in Live(heap) : Dropped(heap, tickets, i) => Dropped(h2, tickets, i)
    BY <2>7, <2>12, DroppedStays DEF Live
  <2>16. /\ Takes(session, h2, games, tickets, services, C, <<>>)
         /\ Entrusted(h2, games, tickets, services, <<>>) = {}
    BY TakesNone
  <2>17. Handed(todo, heap, games, tickets, services, <<>>, n, h2, games, tickets, services, {},
           0, {})
    <3>1. 0 \in 0 .. n - 1
      BY <2>2
    <3> QED BY <2>4, <2>7, <2>8, <2>11, <2>15, <2>16, <3>1 DEF Handed
  <2>18. IsQuiet(Head(todo), <<>>) /\ Rises(Head(todo), <<>>)
    BY <2>2, QuietNone
  <2>19. \A i \in DOMAIN heap : heap[i].kind = "nca" /\ heap[i].romfs_list # <<>>
           => h2[i].romfs_list # <<>>
    BY <2>7 DEF Steady
  <2>20. QuietIs(session, todo, heap, games, tickets, services, <<>>, todo', n, h2, tickets,
           services)
    BY <2>1, <2>2, <2>7, <2>10, <2>13, <2>14, <2>16, <2>18, <2>19, <1>a, <1>n DEF QuietIs, Ok, Then
  <2>21. StateOk(session, todo', h2, games, tickets, services)
    BY <2>17, <2>20, QuietStep
  <2>22. Ok'
    BY <2>1, <2>21, <1>a DEF Ok, SameLists, Same
  <2>23. {dir, x} \subseteq Live(heap)
    BY <2>2, <2>3, <2>4, <1>n, <1>a, AssuredFacts DEF Ok
  <2> QED BY <2>1, <2>22, <2>23, Unused
<1> QED BY <1>2, <1>3

\* A file or a ticket, in a directory or in none
FileMade(h, h2, o) ==
  /\ HeapOk(h) /\ h2 = Append(h, o)
  /\ o = [kind |-> o.kind, base |-> o.base, dir |-> o.dir, parts |-> <<>>,
          pfs_list |-> <<>>, romfs_list |-> <<>>, path |-> o.path, live |-> TRUE]
  /\ o.kind \in {"offset", "mem", "tik"} /\ o.dir \in {None} \cup DOMAIN h
  /\ IF o.kind = "offset" THEN o.base \in DOMAIN h /\ h[o.base].kind # "loader" ELSE o.base = None

\* A new file.
LEMMA FileComes ==
  ASSUME NEW h, NEW h2, NEW o, FileMade(h, h2, o)
  PROVE  Comes(h, h2, o) /\ Came(h, h2, o)
<1>1. Len(h) \in Nat /\ DOMAIN h = 1 .. Len(h)
  BY SequenceIs DEF FileMade, HeapOk
<1>2. IsNew(h, o)
  BY DEF FileMade, IsNew
<1>3. o.kind = "offset" => o.base # None
  BY <1>1 DEF FileMade, None
<1>4. Comes(h, h2, o)
  BY <1>2, <1>3 DEF FileMade, Comes
<1> QED BY <1>4, Coming

\* A new file joins a directory.
Stores(h, h1, h2, dir, y) ==
  /\ HeapOk(h) /\ HeapOk(h1) /\ Frame(h, h1) /\ dir \in DOMAIN h /\ h[dir].kind = "romfs"
  /\ y \in DOMAIN h1 \ DOMAIN h
  /\ h1[y].dir = dir /\ h1[y].live /\ h1[y].kind \in {"offset", "mem"}
  /\ h2 = [h1 EXCEPT ![dir].parts = Append(@, y)]

\* What follows from it.
FileStored(h, h1, h2, dir, y) ==
  /\ HeapOk(h2) /\ Steady(h, h2) /\ DOMAIN h2 = DOMAIN h1 /\ Live(h2) = Live(h1)
  /\ \A i \in DOMAIN h1 : i # dir => h2[i] = h1[i]
  /\ \A name : HeldIn(h2, dir, name) = HeldIn(h, dir,
       name) \cup IF name = h1[y].path THEN {y} ELSE {}
  /\ \A b \in DOMAIN h : b # dir /\ h[b].kind = "romfs"
       => \A name : HeldIn(h2, b, name) = HeldIn(h, b, name)
  /\ \A o \in DOMAIN h2 \ DOMAIN h : Owned(h2, o) \cap DOMAIN h = {}

\* nca_files with a new file leaves the heap sound.
LEMMA Storing ==
  ASSUME NEW h, NEW h1, NEW h2, NEW dir, NEW y, Stores(h, h1, h2, dir, y)
  PROVE  FileStored(h, h1, h2, dir, y)
<1>1. /\ HeapOk(h) /\ HeapOk(h1) /\ Frame(h, h1) /\ dir \in DOMAIN h /\ h[dir].kind = "romfs"
      /\ y \in DOMAIN h1 \ DOMAIN h
      /\ h1[y].dir = dir /\ h1[y].live /\ h1[y].kind \in {"offset", "mem"}
      /\ h2 = [h1 EXCEPT ![dir].parts = Append(@, y)]
  BY DEF Stores
<1>2. Steady(h, h1) /\ Stable(h, h1) /\ DOMAIN h \subseteq DOMAIN h1 /\ h1[dir].kind = "romfs"
        /\ h1[dir].parts = h[dir].parts
  BY <1>1 DEF Frame, Steady, Stable
<1>3. PICK s : s = Append(h1[dir].parts, y)
  OBVIOUS
<1>4. /\ IsSequence(h1[dir].parts) /\ IsInjective(h1[dir].parts)
      /\ Range(h1[dir].parts) \subseteq DOMAIN h
      /\ Range(h1[dir].parts) \subseteq DOMAIN h1
  BY <1>1, <1>2, ObjectFacts
<1>5. IsSequence(s) /\ IsInjective(s) /\ Range(s) = Range(h1[dir].parts) \cup {y}
  BY <1>1, <1>3, <1>4, OneMore
<1>6. Lists(h1, h2, dir, s)
  <2>1. dir \in DOMAIN h1
    BY <1>1, <1>2
  <2>2. HoldsFiles(h1, dir)
    BY <1>1, <2>1 DEF HeapOk
  <2>3. \A j \in Range(s) : h1[j].dir = dir /\ h1[j].live /\ h1[j].kind \in {"offset", "mem"}
    BY <1>1, <1>2, <1>5, <2>2 DEF HoldsFiles
  <2>4. h2 = [h1 EXCEPT ![dir].parts = s] /\ Range(s) \subseteq DOMAIN h1
    BY <1>1, <1>3, <1>4, <1>5
  <2> QED BY <1>1, <1>2, <1>5, <2>1, <2>3, <2>4 DEF Lists
<1>7. /\ HeapOk(h2) /\ Steady(h1, h2) /\ DOMAIN h2 = DOMAIN h1
      /\ h2[dir].parts = s /\ (\A i \in DOMAIN h1 : i # dir => h2[i].parts = h1[i].parts)
      /\ Live(h2) = Live(h1)
  <2>1. Listed(h1, h2, dir, s)
    BY <1>6, Listing
  <2> QED BY <2>1 DEF Listed
<1>8. Steady(h, h2)
  BY <1>2, <1>7, Zenon DEF Steady, Stable
<1>9. \A i \in DOMAIN h1 : i # dir => h2[i] = h1[i]
  BY <1>1, <1>2
<1>10. ASSUME NEW name PROVE HeldIn(h2, dir, name) = HeldIn(h, dir,
              name) \cup IF name = h1[y].path THEN {y} ELSE {}
  <2>1. \A i \in DOMAIN h : h2[i].path = h[i].path
    BY <1>8 DEF Steady, Stable
  <2>2. h2[y].path = h1[y].path
    BY <1>1, <1>9
  <2>3. Range(h2[dir].parts) = Range(h[dir].parts) \cup {y}
          /\ Range(h[dir].parts) \subseteq DOMAIN h
    BY <1>2, <1>4, <1>5, <1>7
  <2> QED BY <2>1, <2>2, <2>3 DEF HeldIn
<1>11. ASSUME NEW b \in DOMAIN h, b # dir, h[b].kind = "romfs", NEW name
       PROVE HeldIn(h2, b, name) = HeldIn(h, b, name)
  <2>1. h2[b].parts = h[b].parts
    BY <1>1, <1>2, <1>7, <1>11 DEF Frame
  <2>2. Range(h[b].parts) \subseteq DOMAIN h
    BY <1>1, <1>11, ObjectFacts
  <2>3. \A i \in DOMAIN h : h2[i].path = h[i].path
    BY <1>8 DEF Steady, Stable
  <2> QED BY <2>1, <2>2, <2>3 DEF HeldIn
<1>12. ASSUME NEW o \in DOMAIN h2 \ DOMAIN h PROVE Owned(h2, o) \cap DOMAIN h = {}
  <2>1. Owned(h2, o) = Owned(h1, o)
    BY <1>1, <1>7, <1>12, SteadyFacts
  <2> QED BY <1>1, <1>7, <1>12, <2>1 DEF Frame
<1> QED BY <1>7, <1>8, <1>9, <1>10, <1>11, <1>12 DEF FileStored

\* The call that makes an archive of the file
KeepsFor(h, g, C, l, e, y) ==
  /\ HeapOk(h) /\ GamesOk(h, g) /\ l \in Loaders(g) /\ h[l].base # None /\ IsArchive(e)
  /\ Later(C, "nx_sys_destroy")
  /\ y \in DOMAIN h /\ h[y].dir = h[l].base /\ h[y].base \in {None, h[h[l].dir].base}
  /\ HeldIn(h, h[l].base, e.name) = {y} /\ Unowned(h, y)

\* What follows from it.
KeptFits(ses, h, g, k, s, C, y, c) ==
  Fits(ses, h, g, k, s, C, c) /\ Trust(h, g, k, s, c) = {y} /\ c.op = "content_archive_create"
    /\ Level(c.op) = 11

\* An archive is created from the file just stored.
LEMMA FitsKept ==
  ASSUME NEW ses, NEW h, NEW g, NEW k, NEW s, NEW C, NEW l, NEW e, NEW y,
         KeepsFor(h, g, C, l, e, y),
         NEW c, c = CallWith("content_archive_create", l, h[l].base, e)
  PROVE  KeptFits(ses, h, g, k, s, C, y, c)
<1>1. /\ HeapOk(h) /\ GamesOk(h, g) /\ l \in Loaders(g) /\ h[l].base # None /\ IsArchive(e)
      /\ Later(C, "nx_sys_destroy")
      /\ y \in DOMAIN h /\ h[y].dir = h[l].base /\ h[y].base \in {None, h[h[l].dir].base}
      /\ HeldIn(h, h[l].base, e.name) = {y} /\ Unowned(h, y)
  BY DEF KeepsFor
<1>2. c.op = "content_archive_create" /\ c.owner = l /\ c.dir = h[l].base /\ c.e = e
  BY CallParts
<1>3. /\ l \in DOMAIN h /\ h[l].kind = "loader" /\ l # None /\ h[l].base \in DOMAIN h
      /\ h[h[l].base].kind = "romfs"
  BY <1>1, LoaderFacts
<1>4. Trust(h, g, k, s, c) = {y}
  BY <1>1, <1>2, <1>3 DEF Trust
<1>5. IsCall(ses, h, g, c)
  BY <1>1, <1>2, <1>3 DEF IsCall, Ops, OpsOfPackages
<1>6. IsReady(h, k, c)
  BY <1>1, <1>2, <1>3 DEF IsReady
<1>7. IsPlaced(h, g, k, s, c, C)
  BY <1>1, <1>2, <1>3 DEF IsPlaced, OpsOfPackages
<1>8. ASSUME NEW j \in Over(h, y) PROVE Assured(h, g, k, s, C, j)
  <2>1. j = h[l].base \/ j = h[h[l].dir].base
    BY <1>1, <1>8 DEF Over
  <2>2. h[l].base \in Package(h, l)
    BY <1>1, <1>3 DEF Package, Owned
  <2>3. Package(h, l) \subseteq OfGames(h, g) /\ h[h[l].dir].base \in OfGames(h, g)
    BY <1>1, PackageOfGames
  <2>4. PICK b \in C : b.op = "nx_sys_destroy"
    BY <1>1 DEF Later
  <2>5. Trust(h, g, k, s, b) = OfGames(h, g) \cup Range(k)
    BY <2>4, TrustOfGames
  <2> QED BY <2>1, <2>2, <2>3, <2>4, <2>5 DEF Assured, Whole
<1>9. Fits(ses, h, g, k, s, C, c)
  <2>1. \A i : Whole(h, g, k, s, c, i) => i = y
    BY <1>4 DEF Whole
  <2> QED BY <1>5, <1>6, <1>7, <1>8, <2>1 DEF Fits
<1> QED BY <1>2, <1>4, <1>9, Levels DEF KeptFits

\* A new file of the package joins the directory of the archives.
StoresFile(ses, t, h, g, k, s, q, R, n, h1, h2, nf, y, F) ==
  /\ StateOk(ses, t, h, g, k, s) /\ t # <<>> /\ R = q \o Tail(t) /\ n = Len(t)
  /\ Head(t).op = "nsz_addfile" /\ Head(t).e.kind \in {"nca", "ncz"} /\ nf = h[Head(t).owner].base
  /\ FileStored(h, h1, h2, nf, y) /\ h1[y].path = Head(t).e.name
  /\ F \cap DOMAIN h = {} /\ Live(h2) = Live(h) \cup F
  /\ Takes(ses, h2, g, k, s, After(t, n), q) /\ Entrusted(h2, g, k, s, q) = F
  /\ IsQuiet(Head(t), q) /\ Rises(Head(t), q)

\* The other calls ask for other files.
LEMMA StoringHeld ==
  ASSUME NEW ses, NEW t, NEW h, NEW g, NEW k, NEW s, NEW q, NEW R, NEW n, NEW h1, NEW h2, NEW nf,
         NEW y, NEW F,
         StoresFile(ses, t, h, g, k, s, q, R, n, h1, h2, nf, y, F), NEW c \in After(t, n)
  PROVE  SameAsked(h, h2, g, k, s, c)
<1>1. /\ StateOk(ses, t, h, g, k, s) /\ t # <<>> /\ n = Len(t)
      /\ Head(t).op = "nsz_addfile" /\ Head(t).e.kind \in {"nca", "ncz"}
      /\ nf = h[Head(t).owner].base
      /\ FileStored(h, h1, h2, nf, y) /\ h1[y].path = Head(t).e.name
  BY DEF StoresFile
<1>2. /\ n \in Nat \ {0} /\ At(t, n) = Head(t) /\ Turns(t) = 1 .. n
      /\ Above(c.op, Head(t).op) /\ IsCall(ses, h, g, c) /\ IsReady(h, k, c)
  BY <1>1, HeadFacts
<1>3. HeapOk(h) /\ GamesOk(h, g) /\ Apart(t)
  BY <1>1 DEF StateOk, ListsOk, CallsOk
<1>4. /\ Steady(h, h2) /\ Stable(h, h2)
      /\ \A name : HeldIn(h2, nf, name) = HeldIn(h, nf,
           name) \cup IF name = h1[y].path THEN {y} ELSE {}
      /\ \A b \in DOMAIN h : b # nf /\ h[b].kind = "romfs"
           => \A name : HeldIn(h2, b, name) = HeldIn(h, b, name)
      /\ \A o \in DOMAIN h2 \ DOMAIN h : Owned(h2, o) \cap DOMAIN h = {}
  BY <1>1 DEF FileStored, Steady
<1>5. c.op # "content_archive_create"
  <2>1. Level("nsz_addfile") = 9 /\ Level("content_archive_create") = 11
    BY Levels DEF OpsOfPackages
  <2> QED BY <1>1, <1>2, <2>1 DEF Above
<1>6. ASSUME c.op = "nsz_addfile", c.e.kind \in {"nca", "ncz"}
      PROVE  HeldIn(h2, h[c.owner].base, c.e.name) = HeldIn(h, h[c.owner].base, c.e.name)
  <2>1. PICK b : b = h[c.owner].base
    OBVIOUS
  <2>2. c.owner \in Loaders(g) /\ h[c.owner].base # None
    BY <1>2, <1>6 DEF IsCall, OpsOfPackages
  <2>3. b \in DOMAIN h /\ h[b].kind = "romfs"
    BY <1>3, <2>1, <2>2, LoaderFacts
  <2>4. PICK d \in 1 .. n - 1 : c = At(t, d)
    BY DEF After
  <2>5. Differ(At(t, d), At(t, n))
    BY <1>2, <1>3, <2>4 DEF Apart
  <2>6. c.e.name # Head(t).e.name
    BY <1>1, <1>2, <1>6, <2>4, <2>5 DEF Differ
  <2>7. PICK name : name = c.e.name
    OBVIOUS
  <2>8. name # h1[y].path
    BY <1>1, <2>6, <2>7
  <2>9. HeldIn(h2, b, name) = HeldIn(h, b, name)
    BY ONLY <1>4, <2>3, <2>8
  <2> QED BY <2>1, <2>7, <2>9
<1>7. ASSUME NEW i \in DOMAIN h, Unowned(h, i) PROVE Unowned(h2, i)
  <2>1. \A b \in DOMAIN h : Owned(h2, b) = Owned(h, b)
    BY <1>3, <1>4, SteadyFacts
  <2> QED BY <1>4, <1>7, <2>1 DEF Unowned
<1> QED BY <1>5, <1>6, <1>7 DEF SameAsked, SameHeld

\* The step of a call that stores a file.
LEMMA StoreStep ==
  ASSUME NEW ses, NEW t, NEW h, NEW g, NEW k, NEW s, NEW q, NEW R, NEW n, NEW h1, NEW h2, NEW nf,
         NEW y, NEW F,
         StoresFile(ses, t, h, g, k, s, q, R, n, h1, h2, nf, y, F)
  PROVE  StateOk(ses, R, h2, g, k, s)
<1>1. /\ StateOk(ses, t, h, g, k, s) /\ t # <<>> /\ R = q \o Tail(t) /\ n = Len(t)
      /\ Head(t).op = "nsz_addfile" /\ FileStored(h, h1, h2, nf, y)
      /\ F \cap DOMAIN h = {} /\ Live(h2) = Live(h) \cup F
      /\ Takes(ses, h2, g, k, s, After(t, n), q) /\ Entrusted(h2, g, k, s, q) = F
      /\ IsQuiet(Head(t), q) /\ Rises(Head(t), q)
  BY DEF StoresFile
<1>2. PICK C : C = After(t, n)
  OBVIOUS
<1>3. /\ n \in Nat \ {0} /\ \A c \in C : IsCall(ses, h, g, c) /\ IsReady(h, k, c)
      /\ \A d \in 1 .. n - 1 : At(t, d) \in C
  BY <1>1, <1>2, HeadFacts
<1>4. HeapOk(h) /\ GamesOk(h, g) /\ ListOk(h, k, "tik") /\ ListOk(h, s, "service")
  BY <1>1 DEF StateOk, ListsOk
<1>5. HeapOk(h2) /\ Steady(h, h2) /\ Stable(h, h2)
  BY <1>1 DEF FileStored, Steady
<1>6. \A c \in C : SameAsked(h, h2, g, k, s, c)
  BY <1>2, StoringHeld
<1>7. ASSUME NEW c \in C PROVE IsReady(h2, k, c)
  <2>1. IsCall(ses, h, g, c) /\ IsReady(h, k, c) /\ SameAsked(h, h2, g, k, s, c)
    BY <1>3, <1>6
  <2> QED BY ONLY <1>4, <1>5, <2>1, ReadyHeld
<1>8. ASSUME NEW c \in C PROVE Trust(h2, g, k, s, c) = Trust(h, g, k, s, c)
  <2>1. IsCall(ses, h, g, c) /\ SameHeld(h, h2, c)
    BY <1>3, <1>6 DEF SameAsked
  <2> QED BY ONLY <1>4, <1>5, <2>1, TrustHeld
<1>9. ListOk(h2, k, "tik") /\ ListOk(h2, s, "service")
  BY <1>4, <1>5, ListsStay
<1>10. Growing(h, h2, g, g)
  BY <1>4, <1>5, SteadyFacts DEF Growing
<1>11. \A i \in Live(h) : Dropped(h, k, i) => Dropped(h2, k, i)
  BY <1>4, <1>5, DroppedStays DEF Live
<1>12. Trust(h, g, k, s, Head(t)) = {}
  BY <1>1 DEF Trust
<1>13. Handed(t, h, g, k, s, q, n, h2, g, k, s, F, 0, {})
  <2>1. 0 \in 0 .. n - 1
    BY <1>3
  <2>2. \A d \in 1 .. n - 1 : Trust(h2, g, k, s, At(t, d)) = Trust(h, g, k, s,
          At(t, d)) \cup IF d = 0 THEN {} ELSE {}
    BY <1>3, <1>8
  <2>3. /\ Live(h) \ Trust(h, g, k, s, Head(t)) \subseteq Live(h2)
        /\ Live(h2) \subseteq Live(h) \cup F
        /\ {} \cup Entrusted(h2, g, k, s, q) \subseteq (Trust(h, g, k, s,
             Head(t)) \cup F) \cap Live(h2)
        /\ \A i \in (Trust(h, g, k, s, Head(t)) \cup F) \cap Live(h2) : i \in Entrusted(h2, g, k,
             s, q)
    BY <1>1, <1>12
  <2> QED BY <1>1, <1>11, <2>1, <2>2, <2>3 DEF Handed
<1>14. \A i \in DOMAIN h : h[i].kind = "nca" /\ h[i].romfs_list # <<>> => h2[i].romfs_list # <<>>
  BY <1>5 DEF Steady
<1>15. QuietIs(ses, t, h, g, k, s, q, R, n, h2, k, s)
  BY <1>1, <1>2, <1>5, <1>7, <1>9, <1>10, <1>14 DEF QuietIs
<1> QED BY <1>13, <1>15, QuietStep

\* Nothing joined to a call.
LEMMA NoneJoined ==
  ASSUME NEW a
  PROVE  <<>> \o <<>> = <<>> /\ <<a>> \o <<>> = <<a>> /\ <<>> \o <<a>> = <<a>>
<1>1. <<a>> \in Seq({a}) /\ <<>> \in Seq({a})
  OBVIOUS
<1> QED BY <1>1

\* What the call for a file of an nsz finds
NszFile(n, C, l, pfs, bs, nf, e) ==
  /\ n = Len(todo) /\ C = After(todo, n) /\ l = Head(todo).owner /\ pfs = Head(todo).dir
  /\ e = Head(todo).e
  /\ bs = heap[pfs].base /\ nf = heap[l].base

\* What follows from it.
NszFinds(n, C, l, pfs, bs, nf, e) ==
  /\ HeapOk(heap) /\ GamesOk(heap, games) /\ ListsOk(heap, games, tickets, services)
  /\ Len(heap) \in Nat
  /\ todo # <<>> /\ Head(todo).op = "nsz_addfile"
  /\ Trust(heap, games, tickets, services, Head(todo)) = {}
  /\ l \in Loaders(games) /\ pfs = heap[l].dir /\ nf # None /\ Later(C, "nx_sys_destroy")
  /\ pfs \in DOMAIN heap /\ pfs # None /\ heap[pfs].kind = "pfs" /\ nf \in DOMAIN heap
  /\ heap[nf].kind = "romfs"
  /\ bs \in DOMAIN heap /\ bs # None /\ heap[bs].kind # "loader"
  /\ {pfs} \cup Chain(bs) \subseteq Live(heap)
  /\ Assured(heap, games, tickets, services, C, pfs)
  /\ Assured(heap, games, tickets, services, C, bs)
  /\ e.kind \in {"nca", "ncz"} => IsArchive(e) /\ HeldIn(heap, nf, e.name) = {}

\* What a call of nsz_addfile finds.
LEMMA NszFinding ==
  ASSUME Ok, Calling("nsz_addfile"), NEW n, NEW C, NEW l, NEW pfs, NEW bs, NEW nf, NEW e,
         NszFile(n, C, l, pfs, bs, nf, e)
  PROVE  NszFinds(n, C, l, pfs, bs, nf, e)
<1>a. /\ n = Len(todo) /\ C = After(todo, n) /\ l = Head(todo).owner /\ pfs = Head(todo).dir
      /\ e = Head(todo).e
      /\ bs = heap[pfs].base /\ nf = heap[l].base
  BY DEF NszFile
<1>1. /\ HeapOk(heap) /\ GamesOk(heap, games) /\ Head(todo).op = "nsz_addfile" /\ todo # <<>>
      /\ IsCall(session, heap, games, Head(todo))
      /\ IsPlaced(heap, games, tickets, services, Head(todo), After(todo, n))
      /\ ListsOk(heap, games, tickets, services)
      /\ IsReady(heap, tickets, Head(todo))
  BY <1>a, OkFacts
<1>2. Trust(heap, games, tickets, services, Head(todo)) = {} /\ Len(heap) \in Nat
  BY <1>1, SequenceIs DEF Trust, HeapOk
<1>3. /\ l \in Loaders(games) /\ pfs = heap[l].dir /\ Later(C, "nx_sys_destroy") /\ nf # None
      /\ e.kind \in {"nca", "ncz"} => IsArchive(e)
  BY <1>1, <1>a DEF IsCall, IsPlaced, OpsOfPackages
<1>4. /\ l # None /\ l \in DOMAIN heap /\ heap[l].kind = "loader" /\ pfs \in DOMAIN heap
      /\ heap[pfs].kind = "pfs"
      /\ bs \in DOMAIN heap /\ nf \in DOMAIN heap /\ heap[nf].kind = "romfs"
  BY <1>1, <1>3, <1>a, LoaderFacts
<1>5. pfs \in Package(heap, l) /\ pfs # None /\ bs # None
  BY <1>1, <1>3, <1>4, <1>a, ObjectFacts DEF Package, Owned, None
<1>6. Assured(heap, games, tickets, services, C, pfs)
  BY <1>3, <1>5, PackageAssured
<1>7. /\ heap[bs].kind # "loader" /\ pfs \in Live(heap)
      /\ Assured(heap, games, tickets, services, C, bs) /\ Chain(bs) \subseteq Live(heap)
  BY <1>1, <1>a, <1>4, <1>5, <1>6, DirectoryOpen
<1>8. e.kind \in {"nca", "ncz"} => HeldIn(heap, nf, e.name) = {}
  BY <1>1, <1>a DEF IsReady
<1> QED BY <1>1, <1>2, <1>3, <1>4, <1>5, <1>6, <1>7, <1>8 DEF NszFinds

\* The new file over the package's
PackageFile(h, h1, bs, name, dir, o) ==
  /\ HeapOk(h) /\ bs \in DOMAIN h /\ bs # None /\ h[bs].kind # "loader"
  /\ dir \in {None} \cup DOMAIN h
  /\ (o = Named(name, Offset(bs)) /\ dir = None) \/ o = Inside(dir, Named(name, Offset(bs)))
  /\ h1 = Append(h, o)

\* What follows from it.
PackageFiled(h, h1, bs, name, dir, o) ==
  Comes(h, h1, o) /\ Came(h, h1, o) /\ o.kind = "offset" /\ o.base = bs /\ o.dir = dir
    /\ o.path = name /\ o.live

\* A file opened within a package.
LEMMA NewPackageFile ==
  ASSUME NEW h, NEW h1, NEW bs, NEW name, NEW dir, NEW o, PackageFile(h, h1, bs, name, dir, o)
  PROVE  PackageFiled(h, h1, bs, name, dir, o)
<1>z. /\ HeapOk(h) /\ bs \in DOMAIN h /\ bs # None /\ h[bs].kind # "loader"
      /\ dir \in {None} \cup DOMAIN h
      /\ (o = Named(name, Offset(bs)) /\ dir = None) \/ o = Inside(dir, Named(name, Offset(bs)))
      /\ h1 = Append(h, o)
  BY DEF PackageFile
<1>0. PICK kd : kd = "offset"
  OBVIOUS
<1>1. Offset(bs) = Object(kd, bs)
  BY <1>0 DEF Offset
<1>2. /\ o = [kind |-> o.kind, base |-> o.base, dir |-> o.dir, parts |-> <<>>,
              pfs_list |-> <<>>, romfs_list |-> <<>>, path |-> o.path, live |-> TRUE]
      /\ o.kind = kd /\ o.base = bs /\ o.dir = dir /\ o.path = name
  <2>1. CASE o = Named(name, Offset(bs)) /\ dir = None
    <3>1. o = Named(name, Object(kd, bs))
      BY <1>1, <2>1
    <3> QED BY <2>1, <3>1, Made
  <2>2. CASE o = Inside(dir, Named(name, Offset(bs)))
    <3>1. o = Inside(dir, Named(name, Object(kd, bs)))
      BY <1>1, <2>2
    <3> QED BY <3>1, Made
  <2> QED BY <1>z, <2>1, <2>2
<1>3. FileMade(h, h1, o)
  BY <1>0, <1>z, <1>2 DEF FileMade
<1>4. o.live = TRUE
  BY <1>2
<1> QED BY <1>0, <1>2, <1>3, <1>4, FileComes DEF PackageFiled

\* The file of the package that is closed again
ClosesNew(h, g, k, s, C, pfs, bs, x, c) ==
  /\ x \in DOMAIN h /\ h[x].kind = "offset" /\ h[x].base = bs /\ h[x].dir = None /\ bs # None
  /\ pfs \in DOMAIN h /\ h[pfs].kind = "pfs" /\ h[pfs].base = bs
  /\ Assured(h, g, k, s, C, pfs) /\ Assured(h, g, k, s, C, bs) /\ c = CallOn("close_file", pfs, x)

\* What follows from it.
NewClosed(ses, h, g, k, s, C, x, c) ==
  Fits(ses, h, g, k, s, C, c) /\ Trust(h, g, k, s, c) = {x} /\ c.op = "close_file"
    /\ Level(c.op) = 0

\* The close of a file just opened fits.
LEMMA ClosingNew ==
  ASSUME NEW ses, NEW h, NEW g, NEW k, NEW s, NEW C, NEW pfs, NEW bs, NEW x, NEW c,
         ClosesNew(h, g, k, s, C, pfs, bs, x, c)
  PROVE  NewClosed(ses, h, g, k, s, C, x, c)
<1>1. /\ x \in DOMAIN h /\ h[x].kind = "offset" /\ h[x].base = bs /\ h[x].dir = None /\ bs # None
      /\ pfs \in DOMAIN h /\ h[pfs].kind = "pfs" /\ h[pfs].base = bs
      /\ Assured(h, g, k, s, C, pfs) /\ Assured(h, g, k, s, C, bs)
      /\ c = CallOn("close_file", pfs, x)
  BY DEF ClosesNew
<1>2. IsFileOf(h, x, pfs)
  BY <1>1 DEF IsFileOf, FileKinds, DirKinds
<1>3. Over(h, x) = {bs}
  BY <1>1 DEF Over
<1>4. ClosesFile(h, g, k, s, C, pfs, x)
  BY <1>1, <1>2, <1>3 DEF ClosesFile
<1> QED BY <1>1, <1>4, FitsCloseFile DEF NewClosed

\* What the call does with each kind of file
NszMakes(n, C, l, pfs, bs, nf, e, x, y, file, a, b, c) ==
  /\ NszFile(n, C, l, pfs, bs, nf, e) /\ Len(heap) \in Nat /\ x = Len(heap) + 1 /\ y = Len(heap) + 2
  /\ file = Named(e.name, Offset(bs)) /\ c = CallOn("close_file", pfs, x)
  /\ a = CallWith("content_archive_create", l, nf, e) /\ b = Call("keys_db_add_ticket", y)

\* What nsz_addfile does with each kind of file.
LEMMA NszDoes ==
  ASSUME NszAddFile, NEW n, NEW C, NEW l, NEW pfs, NEW bs, NEW nf, NEW e, NEW x, NEW y, NEW file,
         NEW a, NEW b, NEW c,
         NszMakes(n, C, l, pfs, bs, nf, e, x, y, file, a, b, c)
  PROVE  /\ Calling("nsz_addfile") /\ Use({pfs} \cup Chain(bs)) /\ SameLists
         /\ e.kind = "nca" => heap' = WithFile(nf, Append(heap, Inside(nf, file))) /\ Then(<<a>>)
         /\ e.kind = "ncz" => heap' = WithFile(nf, heap \o <<file, Inside(nf, Unpacked(e))>>)
              /\ Then(<<a, c>>)
         /\ e.kind = "tik" => heap' = heap \o <<file, Ticket(e)>> /\ Then(<<b, c>>)
         /\ e.kind \notin {"nca", "ncz", "tik"} => heap' = Append(heap, file) /\ Then(<<c>>)
<1>a. /\ l = Head(todo).owner /\ pfs = Head(todo).dir /\ e = Head(todo).e
      /\ bs = heap[pfs].base /\ nf = heap[l].base
      /\ file = Named(e.name, Offset(bs)) /\ c = CallOn("close_file", pfs, x)
      /\ a = CallWith("content_archive_create", l, nf, e) /\ b = Call("keys_db_add_ticket", y)
  BY DEF NszMakes, NszFile
<1>1. New = x /\ New + 1 = y
  BY DEF NszMakes, New
<1>2. /\ Calling("nsz_addfile") /\ Use({pfs} \cup Chain(bs)) /\ SameLists
      /\ heap' = CASE e.kind = "nca" -> WithFile(nf, Append(heap, Inside(nf, file)))
                   [] e.kind = "ncz" -> WithFile(nf, heap \o <<file, Inside(nf, Unpacked(e))>>)
                   [] e.kind = "tik" -> heap \o <<file, Ticket(e)>>
                   [] OTHER -> Append(heap, file)
      /\ Then((IF e.kind = "tik" THEN <<b>> ELSE <<>>) \o (IF e.kind \in {"nca",
           "ncz"} THEN <<a>> ELSE <<>>)
              \o IF e.kind = "nca" THEN <<>> ELSE <<c>>)
  BY <1>a, <1>1 DEF NszAddFile, Arg, Is, Keeps
<1>3. <<a>> \o <<c>> = <<a, c>> /\ <<b>> \o <<c>> = <<b, c>>
  BY Tuples
<1>4. CASE e.kind = "nca"
  <2>1. (<<>> \o <<a>>) \o <<>> = <<a>>
    BY NoneJoined
  <2> QED BY <1>2, <1>4, <2>1
<1>5. CASE e.kind = "ncz"
  <2>1. (<<>> \o <<a>>) \o <<c>> = <<a, c>>
    BY <1>3, NoneJoined
  <2> QED BY <1>2, <1>5, <2>1
<1>6. CASE e.kind = "tik"
  <2>1. (<<b>> \o <<>>) \o <<c>> = <<b, c>>
    BY <1>3, NoneJoined
  <2> QED BY <1>2, <1>6, <2>1
<1>7. CASE e.kind \notin {"nca", "ncz", "tik"}
  <2>1. (<<>> \o <<>>) \o <<c>> = <<c>>
    BY NoneJoined
  <2> QED BY <1>2, <1>7, <2>1
<1> QED BY <1>2, <1>4, <1>5, <1>6, <1>7

\* A file that is neither an archive nor a ticket
LEMMA NszOther ==
  ASSUME Ok, SameLists, NEW n, NEW C, NEW l, NEW pfs, NEW bs, NEW nf, NEW e,
         NszFile(n, C, l, pfs, bs, nf, e),
         NszFinds(n, C, l, pfs, bs, nf, e), NEW x, x = Len(heap) + 1,
         NEW file, file = Named(e.name, Offset(bs)), NEW c, c = CallOn("close_file", pfs, x),
         heap' = Append(heap, file), Then(<<c>>)
  PROVE  Ok'
<1>a. n = Len(todo) /\ C = After(todo, n)
  BY DEF NszFile
<1>b. PICK h2 : h2 = heap'
  OBVIOUS
<1>1. /\ HeapOk(heap) /\ todo # <<>> /\ Head(todo).op = "nsz_addfile"
      /\ Trust(heap, games, tickets, services, Head(todo)) = {}
      /\ pfs \in DOMAIN heap /\ heap[pfs].kind = "pfs" /\ bs = heap[pfs].base
      /\ bs \in DOMAIN heap /\ bs # None /\ heap[bs].kind # "loader"
      /\ Assured(heap, games, tickets, services, C, pfs)
      /\ Assured(heap, games, tickets, services, C, bs)
  BY DEF NszFinds, NszFile
<1>2. Comes(heap, h2, file) /\ Came(heap, h2, file) /\ file.kind = "offset" /\ file.base = bs
        /\ file.dir = None
  <2>1. PICK name, dir : name = e.name /\ dir = None
    OBVIOUS
  <2>2. PackageFile(heap, h2, bs, name, dir, file)
    BY <1>1, <1>b, <2>1 DEF PackageFile
  <2>3. PackageFiled(heap, h2, bs, name, dir, file)
    BY <2>2, NewPackageFile
  <2> QED BY <2>1, <2>3 DEF PackageFiled
<1>3. /\ HeapOk(h2) /\ Frame(heap, h2) /\ Live(h2) = Live(heap) \cup {x} /\ h2[x] = file
      /\ x \notin DOMAIN heap /\ x \in DOMAIN h2 /\ \A i \in DOMAIN heap : i \in DOMAIN h2
           /\ h2[i] = heap[i]
  BY <1>2 DEF Came
<1>4. Assured(h2, games, tickets, services, C, pfs) /\ Assured(h2, games, tickets, services, C, bs)
  BY <1>1, <1>a, <1>3, FrameAssured DEF Ok
<1>5. NewClosed(session, h2, games, tickets, services, C, x, c)
  <2>1. ClosesNew(h2, games, tickets, services, C, pfs, bs, x, c)
    BY <1>1, <1>2, <1>3, <1>4 DEF ClosesNew
  <2> QED BY <2>1, ClosingNew
<1>6. /\ Fits(session, h2, games, tickets, services, C, c)
      /\ Trust(h2, games, tickets, services, c) = {x}
      /\ c.op = "close_file" /\ Level(c.op) = 0
  BY <1>5 DEF NewClosed
<1>7. PICK q : q = <<c>>
  OBVIOUS
<1>8. Takes(session, h2, games, tickets, services, C, q)
        /\ Entrusted(h2, games, tickets, services, q) = {x}
  BY <1>6, <1>7, TakesOne
<1>9. IsQuiet(Head(todo), q) /\ Rises(Head(todo), q)
  BY <1>1, <1>6, <1>7, QuietOne
<1>10. Passed(todo, heap, games, tickets, services, q, h2, {x})
  BY <1>1, <1>3, <1>8 DEF Passed
<1> QED BY <1>a, <1>b, <1>1, <1>3, <1>7, <1>8, <1>9, <1>10, FrameAction

\* A ticket
LEMMA NszTicket ==
  ASSUME Ok, SameLists, NEW n, NEW C, NEW l, NEW pfs, NEW bs, NEW nf, NEW e,
         NszFile(n, C, l, pfs, bs, nf, e),
         NszFinds(n, C, l, pfs, bs, nf, e), NEW x, NEW y, x = Len(heap) + 1 /\ y = Len(heap) + 2,
         NEW file, file = Named(e.name, Offset(bs)), NEW c, c = CallOn("close_file", pfs, x),
         NEW b, b = Call("keys_db_add_ticket", y),
         heap' = heap \o <<file, Ticket(e)>>, Then(<<b, c>>)
  PROVE  Ok'
<1>a. n = Len(todo) /\ C = After(todo, n)
  BY DEF NszFile
<1>b. PICK h1, h2, p : h1 = Append(heap, file) /\ h2 = heap' /\ p = Ticket(e)
  OBVIOUS
<1>1. /\ HeapOk(heap) /\ ListsOk(heap, games, tickets, services) /\ todo # <<>>
      /\ Head(todo).op = "nsz_addfile"
      /\ Trust(heap, games, tickets, services, Head(todo)) = {} /\ Later(C, "nx_sys_destroy")
      /\ pfs \in DOMAIN heap /\ heap[pfs].kind = "pfs" /\ bs = heap[pfs].base
      /\ bs \in DOMAIN heap /\ bs # None /\ heap[bs].kind # "loader"
      /\ Assured(heap, games, tickets, services, C, pfs)
      /\ Assured(heap, games, tickets, services, C, bs)
  BY DEF NszFinds, NszFile
<1>2. Comes(heap, h1, file) /\ file.kind = "offset" /\ file.base = bs /\ file.dir = None
  <2>1. PICK name, dir : name = e.name /\ dir = None
    OBVIOUS
  <2>2. PackageFile(heap, h1, bs, name, dir, file)
    BY <1>1, <1>b, <2>1 DEF PackageFile
  <2>3. PackageFiled(heap, h1, bs, name, dir, file)
    BY <2>2, NewPackageFile
  <2> QED BY <2>1, <2>3 DEF PackageFiled
<1>3. h2 = Append(h1, p)
  BY <1>1, <1>b, BehindTwo DEF HeapOk
<1>4. Comes(h1, h2, p) /\ p.kind = "tik" /\ p.base = None /\ p.dir = None
  <2>1. HeapOk(h1)
    BY <1>2, Coming DEF Came
  <2>2. PICK kd, pt : kd = "tik" /\ pt = e.ticket
    OBVIOUS
  <2>3. p = Named(pt, Object(kd, None)) /\ kd \in {"tik", "host", "mem"}
    BY <1>b, <2>2 DEF Ticket
  <2>4. Comes(h1, h2, p) /\ p.kind = kd /\ p.base = None /\ p.dir = None
    BY ONLY <1>3, <2>1, <2>3, NewAlone
  <2> QED BY <2>2, <2>4
<1>5. /\ HeapOk(h2) /\ Frame(heap, h2) /\ Live(h2) = Live(heap) \cup {x, y} /\ h2[x] = file
      /\ h2[y] = p
      /\ x \notin DOMAIN heap /\ y \notin DOMAIN heap /\ x # y /\ x \in DOMAIN h2 /\ y \in DOMAIN h2
      /\ \A i \in DOMAIN heap : i \in DOMAIN h2 /\ h2[i] = heap[i] /\ i < x /\ i < y
  <2>1. CameTwo(heap, h2, file, p, x, y)
    BY <1>2, <1>4, ComingTwo DEF ComeTwo
  <2> QED BY <2>1 DEF CameTwo
<1>6. Assured(h2, games, tickets, services, C, pfs) /\ Assured(h2, games, tickets, services, C, bs)
  BY <1>1, <1>a, <1>5, FrameAssured DEF Ok
<1>7. /\ Fits(session, h2, games, tickets, services, C, c)
      /\ Trust(h2, games, tickets, services, c) = {x}
      /\ c.op = "close_file" /\ Level(c.op) = 0
  <2>1. ClosesNew(h2, games, tickets, services, C, pfs, bs, x, c)
    BY <1>1, <1>2, <1>5, <1>6 DEF ClosesNew
  <2>2. NewClosed(session, h2, games, tickets, services, C, x, c)
    BY <2>1, ClosingNew
  <2> QED BY <2>2 DEF NewClosed
<1>8. /\ Fits(session, h2, games, tickets, services, C \cup {c}, b)
      /\ Trust(h2, games, tickets, services, b) = {y}
      /\ b.op = "keys_db_add_ticket" /\ Level(b.op) = 10
  <2>1. IsAlone(h2, y, "tik")
    BY <1>4, <1>5 DEF IsAlone
  <2>2. \A i \in Range(tickets) : i < y
    BY <1>1, <1>5 DEF ListsOk, ListOk, IsAlone
  <2>3. Later(C \cup {c}, "nx_sys_destroy")
    BY <1>1 DEF Later
  <2>4. b = Call("keys_db_add_ticket", y)
    OBVIOUS
  <2>5. PICK D : D = C \cup {c}
    OBVIOUS
  <2>6. Later(D, "nx_sys_destroy")
    BY <2>3, <2>5
  <2>7. /\ Fits(session, h2, games, tickets, services, D, b)
        /\ Trust(h2, games, tickets, services, b) = {y}
        /\ b.op = "keys_db_add_ticket" /\ Level(b.op) = 10
    BY ONLY <2>1, <2>2, <2>4, <2>6, FitsAddTicket
  <2> QED BY <2>5, <2>7
<1>9. Paired(session, h2, games, tickets, services, C, b, c)
  <2>1. Pair(session, h2, games, tickets, services, C, b, c)
    BY <1>5, <1>7, <1>8 DEF Pair, Above
  <2> QED BY <2>1, TakesTwo
<1>10. PICK q : q = <<b, c>>
  OBVIOUS
<1>11. IsQuiet(Head(todo), q) /\ Rises(Head(todo), q)
  <2>1. Level(Head(todo).op) = 9
    BY <1>1, Levels DEF OpsOfPackages
  <2>2. Head(todo).op \notin {"nsp", "nsz", "get_file"}
          /\ {b.op, c.op} \cap {"nsp", "nsz", "nsz_addfile", "service"} = {}
    BY <1>1, <1>7, <1>8
  <2>3. Level(b.op) # 0 => Level(Head(todo).op) # 0 /\ Level(Head(todo).op) <= Level(b.op)
    BY <1>8, <2>1
  <2>4. Level(c.op) # 0 => Level(Head(todo).op) # 0 /\ Level(Head(todo).op) <= Level(c.op)
    BY <1>7
  <2> QED BY ONLY <1>10, <2>2, <2>3, <2>4, QuietTwo
<1>12. Takes(session, h2, games, tickets, services, C, q)
         /\ Entrusted(h2, games, tickets, services, q) = {x, y}
  BY <1>7, <1>8, <1>9, <1>10 DEF Paired
<1>13. Passed(todo, heap, games, tickets, services, q, h2, {x, y})
  BY <1>1, <1>5, <1>12 DEF Passed
<1> QED BY <1>a, <1>b, <1>1, <1>5, <1>10, <1>11, <1>12, <1>13, FrameAction

\* The directory and the mapped file of a package stay open.
LEMMA PackageFileAssured ==
  ASSUME NEW h, HeapOk(h), NEW g, GamesOk(h, g), NEW k, NEW s, NEW C, Later(C, "nx_sys_destroy"),
         NEW l \in Loaders(g)
  PROVE  Assured(h, g, k, s, C, h[l].dir) /\ Assured(h, g, k, s, C, h[h[l].dir].base)
<1>1. /\ l \in DOMAIN h /\ h[l].kind = "loader" /\ h[l].dir \in DOMAIN h
  BY LoaderFacts
<1>2. h[l].dir \in Package(h, l)
  BY <1>1, ObjectFacts, SequenceIs DEF Package, Owned, None, HeapOk
<1>3. Assured(h, g, k, s, C, h[l].dir)
  BY <1>2, PackageAssured
<1>4. h[h[l].dir].base \in OfGames(h, g)
  BY PackageOfGames
<1>5. PICK b \in C : b.op = "nx_sys_destroy"
  BY DEF Later
<1>6. Trust(h, g, k, s, b) = OfGames(h, g) \cup Range(k)
  BY <1>5, TrustOfGames
<1> QED BY <1>3, <1>4, <1>5, <1>6 DEF Assured, Whole

\* The new file in its directory, and the package it is from
StoresNew(n, C, l, pfs, bs, nf, e, h1, h2, y) ==
  /\ NszFile(n, C, l, pfs, bs, nf, e) /\ NszFinds(n, C, l, pfs, bs, nf, e)
  /\ e.kind \in {"nca", "ncz"}
  /\ HeapOk(h1) /\ Frame(heap, h1) /\ y \in DOMAIN h1 \ DOMAIN heap /\ h2 = WithFile(nf, h1)
  /\ y = Len(h1)
  /\ h1[y].dir = nf /\ h1[y].live /\ h1[y].kind \in {"offset", "mem"} /\ h1[y].path = e.name
  /\ h1[y].base \in {None, bs}
  /\ \A i \in DOMAIN h1 \ DOMAIN heap : h1[i].kind \in {"offset", "mem"}

\* What follows from it.
NewStored(C, l, pfs, bs, nf, e, h1, h2, y) ==
  /\ FileStored(heap, h1, h2, nf, y) /\ HeapOk(h2) /\ KeepsFor(h2, games, C, l, e, y)
  /\ h2[l].base = nf
  /\ \A i \in DOMAIN h1 : i # nf => h2[i] = h1[i]
  /\ pfs \in DOMAIN h2 /\ h2[pfs].kind = "pfs" /\ h2[pfs].base = bs
  /\ Assured(h2, games, tickets, services, C, pfs) /\ Assured(h2, games, tickets, services, C, bs)

\* What is stored of an archive of an nsz.
LEMMA StoringNew ==
  ASSUME NEW n, NEW C, NEW l, NEW pfs, NEW bs, NEW nf, NEW e, NEW h1, NEW h2, NEW y,
         StoresNew(n, C, l, pfs, bs, nf, e, h1, h2, y)
  PROVE  NewStored(C, l, pfs, bs, nf, e, h1, h2, y)
<1>1. /\ HeapOk(heap) /\ GamesOk(heap, games) /\ l \in Loaders(games) /\ pfs = heap[l].dir
      /\ nf # None /\ nf = heap[l].base
      /\ bs = heap[pfs].base /\ Later(C, "nx_sys_destroy") /\ pfs \in DOMAIN heap
      /\ heap[pfs].kind = "pfs"
      /\ nf \in DOMAIN heap /\ heap[nf].kind = "romfs" /\ IsArchive(e)
      /\ HeldIn(heap, nf, e.name) = {}
  BY DEF StoresNew, NszFile, NszFinds
<1>2. /\ HeapOk(h1) /\ Frame(heap, h1) /\ y \in DOMAIN h1 \ DOMAIN heap
      /\ h2 = [h1 EXCEPT ![nf].parts = Append(@, y)]
      /\ h1[y].dir = nf /\ h1[y].live /\ h1[y].kind \in {"offset", "mem"} /\ h1[y].path = e.name
      /\ h1[y].base \in {None, bs}
      /\ \A i \in DOMAIN h1 \ DOMAIN heap : h1[i].kind \in {"offset", "mem"}
  BY DEF StoresNew, WithFile
<1>3. FileStored(heap, h1, h2, nf, y)
  <2>1. Stores(heap, h1, h2, nf, y)
    BY <1>1, <1>2 DEF Stores
  <2> QED BY <2>1, Storing
<1>4. /\ HeapOk(h2) /\ Steady(heap, h2) /\ Stable(heap, h2) /\ DOMAIN h2 = DOMAIN h1
      /\ \A i \in DOMAIN h1 : i # nf => h2[i] = h1[i]
      /\ \A name : HeldIn(h2, nf, name) = HeldIn(heap, nf,
           name) \cup IF name = h1[y].path THEN {y} ELSE {}
  BY <1>3 DEF FileStored, Steady
<1>5. GamesOk(h2, games)
  BY <1>1, <1>4, ListsStay
<1>6. l \in DOMAIN heap
  BY <1>1, LoaderFacts
<1>7. h2[l].base = nf /\ h2[l].dir = pfs /\ h2[pfs].kind = "pfs" /\ h2[pfs].base = bs
        /\ pfs \in DOMAIN h2 /\ nf \in DOMAIN h2
  BY <1>1, <1>4, <1>6 DEF Stable
<1>8. y \in DOMAIN h2 /\ h2[y] = h1[y]
  BY <1>1, <1>2, <1>4
<1>9. HeldIn(h2, nf, e.name) = {y}
  BY <1>1, <1>2, <1>4
<1>10. Unowned(h2, y)
  <2>1. ASSUME NEW o \in DOMAIN h2 PROVE y \notin Owned(h2, o)
    <3>1. CASE o \in DOMAIN heap
      <4>1. Owned(h2, o) = Owned(heap, o)
        BY <1>1, <1>4, <3>1, SteadyFacts
      <4>2. Owned(heap, o) \subseteq DOMAIN heap
        BY <1>1, <3>1, OwnedFacts
      <4> QED BY <1>2, <4>1, <4>2
    <3>2. CASE o \notin DOMAIN heap
      <4>1. h2[o].kind \in {"offset", "mem"}
        BY <1>1, <1>2, <1>4, <3>2
      <4> QED BY <1>4, <4>1, OwnedFacts
    <3> QED BY <3>1, <3>2
  <2> QED BY <2>1 DEF Unowned
<1>11. KeepsFor(h2, games, C, l, e, y)
  BY <1>1, <1>2, <1>4, <1>5, <1>7, <1>8, <1>9, <1>10 DEF KeepsFor
<1>12. Assured(h2, games, tickets, services, C, h2[l].dir)
         /\ Assured(h2, games, tickets, services, C, h2[h2[l].dir].base)
  <2>1. HeapOk(h2) /\ GamesOk(h2, games) /\ Later(C, "nx_sys_destroy") /\ l \in Loaders(games)
    BY <1>1, <1>4, <1>5
  <2> QED BY ONLY <2>1, PackageFileAssured
<1> QED BY <1>3, <1>4, <1>7, <1>11, <1>12 DEF NewStored

\* An archive that is not compressed
LEMMA NszPlain ==
  ASSUME Ok, SameLists, NEW n, NEW C, NEW l, NEW pfs, NEW bs, NEW nf, NEW e,
         NszFile(n, C, l, pfs, bs, nf, e),
         NszFinds(n, C, l, pfs, bs, nf, e), e.kind = "nca",
         NEW file, file = Named(e.name, Offset(bs)), NEW a,
         a = CallWith("content_archive_create", l, nf, e),
         heap' = WithFile(nf, Append(heap, Inside(nf, file))), Then(<<a>>)
  PROVE  Ok'
<1>a. n = Len(todo) /\ C = After(todo, n) /\ nf = heap[Head(todo).owner].base /\ e = Head(todo).e
  BY DEF NszFile
<1>b. PICK o, h1, h2, y : o = Inside(nf, file) /\ h1 = Append(heap, o) /\ h2 = heap'
        /\ y = Len(heap) + 1
  OBVIOUS
<1>1. /\ HeapOk(heap) /\ todo # <<>> /\ Head(todo).op = "nsz_addfile"
      /\ bs \in DOMAIN heap /\ bs # None /\ heap[bs].kind # "loader" /\ nf \in DOMAIN heap
  BY DEF NszFinds, NszFile
<1>2. PackageFiled(heap, h1, bs, e.name, nf, o)
  <2>1. PICK name : name = e.name
    OBVIOUS
  <2>2. PackageFile(heap, h1, bs, name, nf, o)
    BY <1>1, <1>b, <2>1 DEF PackageFile
  <2> QED BY <2>1, <2>2, NewPackageFile
<1>3. /\ HeapOk(h1) /\ Frame(heap, h1) /\ Live(h1) = Live(heap) \cup {y} /\ h1[y] = o /\ Len(h1) = y
      /\ y \notin DOMAIN heap /\ y \in DOMAIN h1 /\ DOMAIN h1 = DOMAIN heap \cup {y}
      /\ o.kind = "offset" /\ o.base = bs /\ o.dir = nf /\ o.path = e.name /\ o.live
  BY <1>2, <1>b DEF PackageFiled, Came
<1>4. StoresNew(n, C, l, pfs, bs, nf, e, h1, h2, y)
  BY <1>b, <1>3 DEF StoresNew
<1>5. NewStored(C, l, pfs, bs, nf, e, h1, h2, y)
  BY <1>4, StoringNew
<1>6. FileStored(heap, h1, h2, nf, y) /\ KeepsFor(h2, games, C, l, e, y) /\ h2[l].base = nf
        /\ Live(h2) = Live(h1)
  BY <1>5 DEF NewStored, FileStored
<1>7. KeptFits(session, h2, games, tickets, services, C, y, a)
  BY <1>6, FitsKept
<1>8. PICK q : q = <<a>>
  OBVIOUS
<1>9. Takes(session, h2, games, tickets, services, C, q)
        /\ Entrusted(h2, games, tickets, services, q) = {y}
  BY <1>7, <1>8, TakesOne DEF KeptFits
<1>10. IsQuiet(Head(todo), q) /\ Rises(Head(todo), q)
  <2>1. Level(Head(todo).op) = 9
    BY <1>1, Levels DEF OpsOfPackages
  <2> QED BY <1>1, <1>7, <1>8, <2>1, QuietOne DEF KeptFits
<1>11. StoresFile(session, todo, heap, games, tickets, services, q, todo', n, h1, h2, nf, y, {y})
  BY <1>a, <1>1, <1>3, <1>6, <1>8, <1>9, <1>10 DEF StoresFile, Ok, Then
<1>12. StateOk(session, todo', h2, games, tickets, services)
  BY <1>11, StoreStep
<1> QED BY <1>b, <1>12 DEF Ok, SameLists, Same

\* A compressed one
LEMMA NszPacked ==
  ASSUME Ok, SameLists, NEW n, NEW C, NEW l, NEW pfs, NEW bs, NEW nf, NEW e,
         NszFile(n, C, l, pfs, bs, nf, e),
         NszFinds(n, C, l, pfs, bs, nf, e), e.kind = "ncz", NEW x, x = Len(heap) + 1,
         NEW file, file = Named(e.name, Offset(bs)), NEW a,
         a = CallWith("content_archive_create", l, nf, e),
         NEW c, c = CallOn("close_file", pfs, x),
         heap' = WithFile(nf, heap \o <<file, Inside(nf, Unpacked(e))>>), Then(<<a, c>>)
  PROVE  Ok'
<1>a. n = Len(todo) /\ C = After(todo, n) /\ nf = heap[Head(todo).owner].base /\ e = Head(todo).e
  BY DEF NszFile
<1>b. PICK m, h0, h1, h2, y : /\ m = Inside(nf, Unpacked(e)) /\ h0 = Append(heap, file)
                              /\ h1 = Append(h0, m) /\ h2 = heap'
                              /\ y = Len(heap) + 2
  OBVIOUS
<1>1. /\ HeapOk(heap) /\ todo # <<>> /\ Head(todo).op = "nsz_addfile" /\ Len(heap) \in Nat
      /\ bs \in DOMAIN heap /\ bs # None /\ heap[bs].kind # "loader" /\ nf \in DOMAIN heap
      /\ Assured(heap, games, tickets, services, C, pfs)
      /\ Assured(heap, games, tickets, services, C, bs)
  BY DEF NszFinds, NszFile
<1>2. Comes(heap, h0, file) /\ Came(heap, h0, file) /\ file.kind = "offset" /\ file.base = bs
        /\ file.dir = None
  <2>1. PICK name, dir : name = e.name /\ dir = None
    OBVIOUS
  <2>2. PackageFile(heap, h0, bs, name, dir, file)
    BY <1>1, <1>b, <2>1 DEF PackageFile
  <2>3. PackageFiled(heap, h0, bs, name, dir, file)
    BY <2>2, NewPackageFile
  <2> QED BY <2>1, <2>3 DEF PackageFiled
<1>3. Comes(h0, h1, m) /\ m.kind = "mem" /\ m.base = None /\ m.dir = nf /\ m.path = e.name /\ m.live
  <2>1. PICK kd, pt, bb : kd = "mem" /\ pt = e.name /\ bb = None
    OBVIOUS
  <2>2. m = Inside(nf, Named(pt, Object(kd, bb)))
    BY <1>b, <2>1 DEF Unpacked, Memory
  <2>3. /\ m = [kind |-> m.kind, base |-> m.base, dir |-> m.dir, parts |-> <<>>,
                pfs_list |-> <<>>, romfs_list |-> <<>>, path |-> m.path, live |-> TRUE]
        /\ m.kind = kd /\ m.base = bb /\ m.dir = nf /\ m.path = pt
    BY <2>2, Made
  <2>4. HeapOk(h0) /\ nf \in DOMAIN h0
    BY <1>1, <1>2 DEF Came
  <2>5. FileMade(h0, h1, m)
    BY <1>b, <2>1, <2>3, <2>4 DEF FileMade
  <2>6. Comes(h0, h1, m)
    BY <2>5, FileComes
  <2>7. m.live = TRUE
    BY <2>3
  <2> QED BY <2>1, <2>3, <2>6, <2>7
<1>4. /\ HeapOk(h1) /\ Frame(heap, h1) /\ Live(h1) = Live(heap) \cup {x, y} /\ h1[x] = file
      /\ h1[y] = m
      /\ x \notin DOMAIN heap /\ y \notin DOMAIN heap /\ x # y /\ x \in DOMAIN h1 /\ y \in DOMAIN h1
      /\ DOMAIN h1 = DOMAIN heap \cup {x, y}
  <2>1. CameTwo(heap, h1, file, m, x, y)
    BY <1>2, <1>3, <1>b, ComingTwo DEF ComeTwo
  <2> QED BY <2>1 DEF CameTwo
<1>5. Len(h1) = y
  <2>1. Len(h0) = Len(heap) + 1 /\ HeapOk(h0)
    BY <1>2 DEF Came
  <2>2. Came(h0, h1, m)
    BY <1>3, Coming
  <2> QED BY <1>1, <1>b, <2>1, <2>2 DEF Came
<1>6. h2 = WithFile(nf, h1)
  <2>1. heap \o <<file, m>> = h1
    BY <1>1, <1>b, BehindTwo DEF HeapOk
  <2> QED BY <1>b, <2>1
<1>7. NewStored(C, l, pfs, bs, nf, e, h1, h2, y)
  <2>1. StoresNew(n, C, l, pfs, bs, nf, e, h1, h2, y)
    BY <1>2, <1>3, <1>4, <1>5, <1>6 DEF StoresNew
  <2> QED BY <2>1, StoringNew
<1>8. /\ FileStored(heap, h1, h2, nf, y) /\ KeepsFor(h2, games, C, l, e, y) /\ h2[l].base = nf
      /\ Live(h2) = Live(h1)
      /\ DOMAIN h2 = DOMAIN h1 /\ \A i \in DOMAIN h1 : i # nf => h2[i] = h1[i]
      /\ pfs \in DOMAIN h2 /\ h2[pfs].kind = "pfs" /\ h2[pfs].base = bs
      /\ Assured(h2, games, tickets, services, C, pfs)
      /\ Assured(h2, games, tickets, services, C, bs)
  BY <1>7 DEF NewStored, FileStored
<1>9. /\ Fits(session, h2, games, tickets, services, C, c)
      /\ Trust(h2, games, tickets, services, c) = {x}
      /\ c.op = "close_file" /\ Level(c.op) = 0
  <2>1. h2[x] = file
    BY <1>1, <1>4, <1>8
  <2>2. ClosesNew(h2, games, tickets, services, C, pfs, bs, x, c)
    BY <1>1, <1>2, <1>4, <1>8, <2>1 DEF ClosesNew
  <2>3. NewClosed(session, h2, games, tickets, services, C, x, c)
    BY <2>2, ClosingNew
  <2> QED BY <2>3 DEF NewClosed
<1>10. /\ Fits(session, h2, games, tickets, services, C \cup {c}, a)
       /\ Trust(h2, games, tickets, services, a) = {y}
       /\ a.op = "content_archive_create" /\ Level(a.op) = 11
  <2>1. PICK D : D = C \cup {c}
    OBVIOUS
  <2>2. KeepsFor(h2, games, D, l, e, y)
    BY <1>8, <2>1 DEF KeepsFor, Later
  <2>3. KeptFits(session, h2, games, tickets, services, D, y, a)
    BY <1>8, <2>2, FitsKept
  <2> QED BY <2>1, <2>3 DEF KeptFits
<1>11. Paired(session, h2, games, tickets, services, C, a, c)
  <2>1. Pair(session, h2, games, tickets, services, C, a, c)
    BY <1>4, <1>9, <1>10 DEF Pair, Above
  <2> QED BY <2>1, TakesTwo
<1>12. PICK q : q = <<a, c>>
  OBVIOUS
<1>13. IsQuiet(Head(todo), q) /\ Rises(Head(todo), q)
  <2>1. Level(Head(todo).op) = 9
    BY <1>1, Levels DEF OpsOfPackages
  <2>2. Head(todo).op \notin {"nsp", "nsz", "get_file"}
          /\ {a.op, c.op} \cap {"nsp", "nsz", "nsz_addfile", "service"} = {}
    BY <1>1, <1>9, <1>10
  <2>3. Level(a.op) # 0 => Level(Head(todo).op) # 0 /\ Level(Head(todo).op) <= Level(a.op)
    BY <1>10, <2>1
  <2>4. Level(c.op) # 0 => Level(Head(todo).op) # 0 /\ Level(Head(todo).op) <= Level(c.op)
    BY <1>9
  <2> QED BY ONLY <1>12, <2>2, <2>3, <2>4, QuietTwo
<1>14. Takes(session, h2, games, tickets, services, C, q)
         /\ Entrusted(h2, games, tickets, services, q) = {x, y}
  BY <1>9, <1>10, <1>11, <1>12 DEF Paired
<1>15. StoresFile(session, todo, heap, games, tickets, services, q, todo', n, h1, h2, nf, y, {x, y})
  BY <1>a, <1>1, <1>3, <1>4, <1>8, <1>12, <1>13, <1>14 DEF StoresFile, Ok, Then
<1>16. StateOk(session, todo', h2, games, tickets, services)
  BY <1>15, StoreStep
<1> QED BY <1>b, <1>16 DEF Ok, SameLists, Same

\* NszAddFile keeps the invariant, and uses and closes only what is live.
LEMMA NszAddFileStep ==
  ASSUME Ok, NszAddFile
  PROVE  Ok' /\ fault' = fault
<1>1. PICK n, l, pfs, e, bs, nf, C : NszFile(n, C, l, pfs, bs, nf, e)
  BY DEF NszFile
<1>2. Calling("nsz_addfile")
  BY DEF NszAddFile
<1>3. NszFinds(n, C, l, pfs, bs, nf, e)
  BY <1>1, <1>2, NszFinding
<1>4. Len(heap) \in Nat /\ {pfs} \cup Chain(bs) \subseteq Live(heap)
  BY <1>3 DEF NszFinds
<1>5. PICK x, y, file : x = Len(heap) + 1 /\ y = Len(heap) + 2 /\ file = Named(e.name, Offset(bs))
  OBVIOUS
<1>6. PICK a, b, c : /\ c = CallOn("close_file", pfs, x)
                     /\ a = CallWith("content_archive_create", l, nf, e)
                     /\ b = Call("keys_db_add_ticket", y)
  OBVIOUS
<1>7. /\ Use({pfs} \cup Chain(bs)) /\ SameLists
      /\ e.kind = "nca" => heap' = WithFile(nf, Append(heap, Inside(nf, file))) /\ Then(<<a>>)
      /\ e.kind = "ncz" => heap' = WithFile(nf, heap \o <<file, Inside(nf, Unpacked(e))>>)
           /\ Then(<<a, c>>)
      /\ e.kind = "tik" => heap' = heap \o <<file, Ticket(e)>> /\ Then(<<b, c>>)
      /\ e.kind \notin {"nca", "ncz", "tik"} => heap' = Append(heap, file) /\ Then(<<c>>)
  <2>1. NszMakes(n, C, l, pfs, bs, nf, e, x, y, file, a, b, c)
    BY <1>1, <1>4, <1>5, <1>6 DEF NszMakes
  <2> QED BY <2>1, NszDoes
<1>8. fault' = fault
  BY <1>4, <1>7, Unused
<1>9. CASE e.kind = "nca"
  BY <1>1, <1>3, <1>5, <1>6, <1>7, <1>8, <1>9, NszPlain
<1>10. CASE e.kind = "ncz"
  BY <1>1, <1>3, <1>5, <1>6, <1>7, <1>8, <1>10, NszPacked
<1>11. CASE e.kind = "tik"
  BY <1>1, <1>3, <1>5, <1>6, <1>7, <1>8, <1>11, NszTicket
<1>12. CASE e.kind \notin {"nca", "ncz", "tik"}
  BY <1>1, <1>3, <1>5, <1>6, <1>7, <1>8, <1>12, NszOther
<1> QED BY <1>9, <1>10, <1>11, <1>12

----------------------------------------------------------------------------
(* Archives *)

\* An archive over a file f of a directory, or over the wrapper w of the file
MakesArchive(h, h1, h2, dir, f, w, x) ==
  /\ HeapOk(h) /\ HeapOk(h1) /\ Frame(h, h1) /\ dir \in DOMAIN h /\ {f, w} \subseteq DOMAIN h1
  /\ IsFileOf(h1, f, dir) /\ Unowned(h1, f) /\ Unowned(h1, w)
  /\ w = f \/ (h1[w].kind = "aes" /\ h1[w].base = f /\ h1[w].dir = None)
  /\ x = Len(h1) + 1 /\ h2 = Append(h1, Inside(dir, Object("nca", w)))

\* What follows from it.
ArchiveMade(h, h1, h2, dir, f, w, x) ==
  /\ HeapOk(h2) /\ Steady(h, h2) /\ DOMAIN h2 = DOMAIN h1 \cup {x} /\ x \notin DOMAIN h1
  /\ x \notin DOMAIN h
  /\ \A i \in DOMAIN h1 : h2[i] = h1[i]
  /\ Live(h2) = Live(h1) \cup {x} /\ h2[x].kind = "nca" /\ Archive(h2, x) = {x, w, f}
  /\ Over(h2, x) = {w, dir}
  /\ \A i \in DOMAIN h : h[i].kind = "romfs" => h2[i].parts = h[i].parts
  /\ \A o \in DOMAIN h2 \ DOMAIN h : Owned(h2, o) \cap DOMAIN h \subseteq {f, w}
  /\ Unowned(h2, x)

\* content_archive_create makes an archive over the file it opened.
LEMMA MakingArchive ==
  ASSUME NEW h, NEW h1, NEW h2, NEW dir, NEW f, NEW w, NEW x, MakesArchive(h, h1, h2, dir, f, w, x)
  PROVE  ArchiveMade(h, h1, h2, dir, f, w, x)
<1>1. /\ HeapOk(h) /\ HeapOk(h1) /\ Frame(h, h1) /\ dir \in DOMAIN h /\ {f, w} \subseteq DOMAIN h1
      /\ IsFileOf(h1, f, dir) /\ Unowned(h1, f) /\ Unowned(h1, w)
      /\ w = f \/ (h1[w].kind = "aes" /\ h1[w].base = f /\ h1[w].dir = None)
      /\ x = Len(h1) + 1
  BY DEF MakesArchive
<1>2. PICK o, kd : kd = "nca" /\ o = Inside(dir, Object(kd, w))
  OBVIOUS
<1>3. /\ o = [kind |-> o.kind, base |-> o.base, dir |-> o.dir, parts |-> <<>>,
              pfs_list |-> <<>>, romfs_list |-> <<>>, path |-> o.path, live |-> TRUE]
      /\ o.kind = kd /\ o.base = w /\ o.dir = dir
  BY <1>2, Made
<1>4. h2 = Append(h1, o)
  BY <1>2 DEF MakesArchive
<1>5. Steady(h, h1) /\ DOMAIN h \subseteq DOMAIN h1
  BY <1>1 DEF Frame, Steady, Stable
<1>6. IsNew(h1, o)
  BY <1>1, <1>3, <1>5 DEF IsNew
<1>7. /\ DOMAIN h2 = DOMAIN h1 \cup {x} /\ x \notin DOMAIN h1 /\ x \in Nat
      /\ h2[x] = o /\ \A i \in DOMAIN h1 : h2[i] = h1[i]
      /\ Steady(h1, h2) /\ Live(h2) = Live(h1) \cup {x}
      /\ IsLayered(h2, x) /\ IsLoader(h2, x) /\ IsNca(h2, x)
           /\ (\A i \in Owned(h2, x) : Unowned(h1, i))
           => HeapOk(h2)
  BY <1>1, <1>4, <1>6, NewObject
<1>8. h2[f] = h1[f] /\ h2[w] = h1[w] /\ h2[dir] = h1[dir]
  BY <1>1, <1>5, <1>7
<1>9. /\ h1[f].kind \in FileKinds /\ h1[dir].kind \in DirKinds /\ h1[f].dir \in {None, dir}
      /\ h1[f].kind = "zipfile" => h1[dir].kind = "zip"
      /\ h1[dir].base # None /\ h1[f].kind = "offset" => h1[f].base = h1[dir].base
  BY <1>1 DEF IsFileOf
<1>10. Below(h2, x) = f
  BY <1>1, <1>3, <1>7, <1>8, <1>9 DEF Below, FileKinds
<1>11. h2[x].kind = "nca" /\ h2[x].pfs_list = <<>> /\ h2[x].romfs_list = <<>> /\ h2[x].base = w
         /\ h2[x].dir = dir
  BY <1>2, <1>3, <1>7
<1>12. Owned(h2, x) = {w, f}
  <2>1. Items(h2, x) = {}
    BY <1>11, Nothing DEF Items
  <2>2. SectionObjects(h2, x) = {}
    BY <2>1 DEF SectionObjects
  <2> QED BY <1>10, <1>11, <2>2 DEF Owned
<1>13. f # None /\ w # None /\ dir # None
  BY <1>1, <1>5, SequenceIs DEF HeapOk, None
<1>14. IsLayered(h2, x)
  <2>1. h1[w].kind # "loader"
    BY <1>1, <1>9 DEF FileKinds
  <2> QED BY <1>8, <1>11, <1>13, <2>1 DEF IsLayered
<1>15. IsLoader(h2, x)
  BY <1>11 DEF IsLoader
<1>16. IsNca(h2, x)
  <2>1. IsSectionList(h2, x, h2[x].pfs_list, "pfs")
          /\ IsSectionList(h2, x, h2[x].romfs_list, "romfs")
    BY <1>11 DEF IsSectionList
  <2>2. h2[w].kind \in FileKinds \cup {"aes"} /\ (h2[w].kind = "aes" => h2[w].dir = None)
    BY <1>1, <1>8, <1>9 DEF FileKinds
  <2> QED BY <1>8, <1>9, <1>10, <1>11, <1>13, <2>1, <2>2 DEF IsNca
<1>17. HeapOk(h2)
  BY <1>1, <1>7, <1>12, <1>14, <1>15, <1>16
<1>18. Steady(h, h2)
  BY <1>5, <1>7, Zenon DEF Steady, Stable
<1>19. \A i \in DOMAIN h : h[i].kind = "romfs" => h2[i].parts = h[i].parts
  BY <1>1, <1>5, <1>7 DEF Frame
<1>20. ASSUME NEW b \in DOMAIN h2 \ DOMAIN h PROVE Owned(h2, b) \cap DOMAIN h \subseteq {f, w}
  <2>1. CASE b = x
    BY <1>12, <2>1
  <2>2. CASE b # x
    <3>1. b \in DOMAIN h1
      BY <1>7, <2>2
    <3>2. Owned(h2, b) = Owned(h1, b)
      BY <1>1, <1>7, <3>1, SteadyFacts
    <3> QED BY <1>1, <1>20, <3>1, <3>2 DEF Frame
  <2> QED BY <2>1, <2>2
<1>21. Unowned(h2, x)
  <2>1. ASSUME NEW b \in DOMAIN h2 PROVE x \notin Owned(h2, b)
    <3>1. CASE b = x
      BY <1>1, <1>7, <1>12, <3>1
    <3>2. CASE b # x
      <4>1. b \in DOMAIN h1
        BY <1>7, <3>2
      <4>2. Owned(h2, b) = Owned(h1, b) /\ Owned(h1, b) \subseteq DOMAIN h1
        BY <1>1, <1>7, <4>1, SteadyFacts, OwnedFacts
      <4> QED BY <1>7, <4>2
    <3> QED BY <3>1, <3>2
  <2> QED BY <2>1 DEF Unowned
<1>22. Archive(h2, x) = {x, w, f}
  BY <1>12 DEF Archive
<1>23. Over(h2, x) = {w, dir}
  BY <1>11, <1>13 DEF Over
<1> QED BY <1>5, <1>7, <1>11, <1>17, <1>18, <1>19, <1>20, <1>21, <1>22, <1>23 DEF ArchiveMade

\* The other calls ask for other files.
MakesFor(ses, t, h, g, k, s, n, h1, h2, dir, f, w, x) ==
  /\ StateOk(ses, t, h, g, k, s) /\ t # <<>> /\ n = Len(t) /\ ArchiveMade(h, h1, h2, dir, f, w, x)
  /\ {f, w} \cap DOMAIN h \subseteq Trust(h, g, k, s, Head(t))

\* The calls that follow find what they ask for as it was ...
LEMMA MadeHeld ==
  ASSUME NEW ses, NEW t, NEW h, NEW g, NEW k, NEW s, NEW n, NEW h1, NEW h2, NEW dir, NEW f, NEW w,
         NEW x,
         MakesFor(ses, t, h, g, k, s, n, h1, h2, dir, f, w, x), NEW c \in After(t, n)
  PROVE  SameAsked(h, h2, g, k, s, c)
<1>1. /\ StateOk(ses, t, h, g, k, s) /\ t # <<>> /\ n = Len(t)
      /\ ArchiveMade(h, h1, h2, dir, f, w, x)
      /\ {f, w} \cap DOMAIN h \subseteq Trust(h, g, k, s, Head(t))
  BY DEF MakesFor
<1>2. /\ IsCall(ses, h, g, c) /\ IsReady(h, k, c)
      /\ Trust(h, g, k, s, c) \cap Trust(h, g, k, s, Head(t)) = {}
  BY <1>1, HeadFacts
<1>3. HeapOk(h) /\ GamesOk(h, g)
  BY <1>1 DEF StateOk, ListsOk
<1>4. /\ Steady(h, h2) /\ Stable(h, h2)
      /\ \A i \in DOMAIN h : h[i].kind = "romfs" => h2[i].parts = h[i].parts
      /\ \A o \in DOMAIN h2 \ DOMAIN h : Owned(h2, o) \cap DOMAIN h \subseteq {f, w}
  BY <1>1 DEF ArchiveMade, Steady
<1>5. ASSUME c.op = "content_archive_create", h[c.dir].kind = "romfs"
      PROVE  HeldIn(h2, c.dir, c.e.name) = HeldIn(h, c.dir, c.e.name)
  <2>1. PICK b, name : b = c.dir /\ name = c.e.name
    OBVIOUS
  <2>2. b \in DOMAIN h /\ h2[b].parts = h[b].parts
    BY <1>2, <1>4, <1>5, <2>1 DEF IsCall
  <2>3. HeldIn(h2, b, name) = HeldIn(h, b, name)
    BY <1>3, <1>4, <2>2, HeldStays
  <2> QED BY <2>1, <2>3
<1>6. ASSUME c.op = "nsz_addfile", c.e.kind \in {"nca", "ncz"}
      PROVE  HeldIn(h2, h[c.owner].base, c.e.name) = HeldIn(h, h[c.owner].base, c.e.name)
  <2>1. PICK b, name : b = h[c.owner].base /\ name = c.e.name
    OBVIOUS
  <2>2. c.owner \in Loaders(g) /\ h[c.owner].base # None
    BY <1>2, <1>6 DEF IsCall, OpsOfPackages
  <2>3. b \in DOMAIN h /\ h[b].kind = "romfs"
    BY <1>3, <2>1, <2>2, LoaderFacts
  <2>4. HeldIn(h2, b, name) = HeldIn(h, b, name)
    BY <1>3, <1>4, <2>3, HeldStays
  <2> QED BY <2>1, <2>4
<1>7. ASSUME NEW i \in Trust(h, g, k, s, c) \cap DOMAIN h, Unowned(h, i) PROVE Unowned(h2, i)
  <2>1. \A b \in DOMAIN h : Owned(h2, b) = Owned(h, b)
    BY <1>3, <1>4, SteadyFacts
  <2>2. i \notin {f, w}
    BY <1>1, <1>2, <1>7
  <2> QED BY <1>4, <1>7, <2>1, <2>2 DEF Unowned
<1> QED BY <1>5, <1>6, <1>7 DEF SameAsked, SameHeld

\* They find what they did, and are trusted with what they were.
MadeStays(ses, t, h, g, k, s, n, h2) ==
  /\ \A c \in After(t, n) : IsReady(h2, k, c) /\ Trust(h2, g, k, s, c) = Trust(h, g, k, s, c)
  /\ \A i : Assured(h, g, k, s, After(t, n), i) => Assured(h2, g, k, s, After(t, n), i)
  /\ ListsOk(h2, g, k, s) /\ GamesOk(h2, g) /\ Growing(h, h2, g, g)
  /\ \A i \in Live(h) : Dropped(h, k, i) => Dropped(h2, k, i)
  /\ \A i \in DOMAIN h : h[i].kind = "nca" /\ h[i].romfs_list # <<>> => h2[i].romfs_list # <<>>

\* ... and stay as they were.
LEMMA MadeOthers ==
  ASSUME NEW ses, NEW t, NEW h, NEW g, NEW k, NEW s, NEW n, NEW h1, NEW h2, NEW dir, NEW f, NEW w,
         NEW x,
         MakesFor(ses, t, h, g, k, s, n, h1, h2, dir, f, w, x)
  PROVE  MadeStays(ses, t, h, g, k, s, n, h2)
<1>1. StateOk(ses, t, h, g, k, s) /\ t # <<>> /\ n = Len(t) /\ ArchiveMade(h, h1, h2, dir, f, w, x)
  BY DEF MakesFor
<1>2. PICK C : C = After(t, n)
  OBVIOUS
<1>3. \A c \in C : IsCall(ses, h, g, c) /\ IsReady(h, k, c)
  BY <1>1, <1>2, HeadFacts
<1>4. HeapOk(h) /\ GamesOk(h, g) /\ ListOk(h, k, "tik") /\ ListOk(h, s, "service")
  BY <1>1 DEF StateOk, ListsOk
<1>5. HeapOk(h2) /\ Steady(h, h2) /\ Stable(h, h2)
  BY <1>1 DEF ArchiveMade, Steady
<1>6. \A c \in C : SameAsked(h, h2, g, k, s, c)
  BY <1>2, MadeHeld
<1>7. ASSUME NEW c \in C PROVE IsReady(h2, k, c)
  <2>1. IsCall(ses, h, g, c) /\ IsReady(h, k, c) /\ SameAsked(h, h2, g, k, s, c)
    BY <1>3, <1>6
  <2> QED BY ONLY <1>4, <1>5, <2>1, ReadyHeld
<1>8. ASSUME NEW c \in C PROVE Trust(h2, g, k, s, c) = Trust(h, g, k, s, c)
  <2>1. IsCall(ses, h, g, c) /\ SameHeld(h, h2, c)
    BY <1>3, <1>6 DEF SameAsked
  <2> QED BY ONLY <1>4, <1>5, <2>1, TrustHeld
<1>9. ListsOk(h2, g, k, s) /\ GamesOk(h2, g)
  BY <1>4, <1>5, ListsStay DEF ListsOk
<1>10. Growing(h, h2, g, g)
  BY <1>4, <1>5, SteadyFacts DEF Growing
<1>11. \A i \in Live(h) : Dropped(h, k, i) => Dropped(h2, k, i)
  BY <1>4, <1>5, DroppedStays DEF Live
<1>12. ASSUME NEW i, Assured(h, g, k, s, C, i) PROVE Assured(h2, g, k, s, C, i)
  <2>1. PICK b \in C : Whole(h, g, k, s, b, i)
    BY <1>12 DEF Assured
  <2>2. i \in DOMAIN h
    BY <1>1, <1>2, <1>12, AssuredFacts
  <2>3. h2[i].kind = h[i].kind
    BY <1>5, <2>2 DEF Stable
  <2>4. Whole(h2, g, k, s, b, i)
    BY <1>8, <2>1, <2>3 DEF Whole
  <2> QED BY <2>4 DEF Assured
<1>13. \A i \in DOMAIN h : h[i].kind = "nca" /\ h[i].romfs_list # <<>> => h2[i].romfs_list # <<>>
  BY <1>5 DEF Steady
<1> QED BY <1>2, <1>7, <1>8, <1>9, <1>10, <1>11, <1>12, <1>13 DEF MadeStays

\* The calls that read the directories of an archive
Gets(x, e) ==
  [i \in DOMAIN e.sections |-> [op |-> "get_file", nca |-> x, e |-> e, section |-> e.sections[i]]]

\* Calls q fetch the sections of e for archive x.
GetsFor(h, C, x, e, q) ==
  /\ IsArchive(e) /\ x \in DOMAIN h /\ h[x].kind = "nca" /\ q = Gets(x, e)
  /\ \E b \in C : b.op \in {"list_push", "content_archive_destroy"} /\ b.x = x

\* What follows from it.
GetsTaken(ses, h, g, k, s, C, x, e, q) ==
  /\ Takes(ses, h, g, k, s, C, q) /\ Entrusted(h, g, k, s, q) = {} /\ IsSequence(q)
  /\ DOMAIN q = DOMAIN e.sections
  /\ \A a \in DOMAIN q : q[a].op = "get_file" /\ q[a].nca = x /\ q[a].section = e.sections[a]
       /\ Level(q[a].op) = 0

\* The calls that fetch the sections fit.
LEMMA TakingGets ==
  ASSUME NEW ses, NEW h, NEW g, NEW k, NEW s, NEW C, NEW x, NEW e, NEW q, GetsFor(h, C, x, e, q)
  PROVE  GetsTaken(ses, h, g, k, s, C, x, e, q)
<1>1. /\ IsArchive(e) /\ x \in DOMAIN h /\ h[x].kind = "nca" /\ q = Gets(x, e)
      /\ \E b \in C : b.op \in {"list_push", "content_archive_destroy"} /\ b.x = x
  BY DEF GetsFor
<1>2. IsSequence(e.sections) /\ \A i \in DOMAIN e.sections : e.sections[i].fs \in {"pfs", "romfs"}
  BY <1>1 DEF IsArchive
<1>3. DOMAIN e.sections = 1 .. Len(e.sections) /\ Len(e.sections) \in Nat
  BY <1>2, SequenceIs
<1>4. DOMAIN q = DOMAIN e.sections /\ \A a \in DOMAIN q : q[a].op = "get_file" /\ q[a].nca = x
        /\ q[a].section = e.sections[a]
  BY <1>1 DEF Gets
<1>5. IsSequence(q)
  <2>1. q = [i \in 1 .. Len(e.sections) |-> q[i]]
    BY <1>1, <1>3 DEF Gets
  <2> QED BY <1>3, <1>4, <2>1, SequenceBy
<1>6. Level("get_file") = 0
  BY Levels
<1>7. ASSUME NEW a \in DOMAIN q PROVE Fits(ses, h, g, k, s, C, q[a])
             /\ Trust(h, g, k, s, q[a]) = {} /\ q[a].op = "get_file"
  <2>1. PICK c : c = q[a]
    OBVIOUS
  <2>2. c.op = "get_file" /\ c.nca = x /\ c.section.fs \in {"pfs", "romfs"}
    BY <1>2, <1>4, <2>1
  <2>3. Trust(h, g, k, s, c) = {}
    BY <2>2 DEF Trust
  <2>4. IsCall(ses, h, g, c)
    BY <1>1, <2>2 DEF IsCall, Ops, OpsOfPackages
  <2>5. IsReady(h, k, c)
    BY <2>2 DEF IsReady
  <2>6. IsPlaced(h, g, k, s, c, C)
    BY <1>1, <2>2 DEF IsPlaced, OpsOfPackages
  <2>7. Fits(ses, h, g, k, s, C, c)
    BY <2>3, <2>4, <2>5, <2>6 DEF Fits, Whole
  <2> QED BY <2>1, <2>2, <2>3, <2>7
<1>8. Takes(ses, h, g, k, s, C, q) /\ Entrusted(h, g, k, s, q) = {}
  <2>1. PICK op : op = "get_file"
    OBVIOUS
  <2>2. op \notin {"nsp", "nsz"} /\ Level(op) \notin Once
    BY <1>6, <2>1 DEF Once
  <2>3. \A a \in DOMAIN q : Fits(ses, h, g, k, s, C, q[a]) /\ Trust(h, g, k, s, q[a]) = {}
          /\ q[a].op = op
    BY <1>7, <2>1
  <2> QED BY ONLY <1>5, <2>2, <2>3, TakesIdle
<1> QED BY <1>4, <1>5, <1>6, <1>8 DEF GetsTaken

\* What an archive and its file lie over is assured.
Rests(h, g, k, s, C, x, f, w, G) ==
  /\ HeapOk(h) /\ x \in DOMAIN h /\ h[x].kind = "nca" /\ Archive(h, x) = {x, w, f}
  /\ \A i \in {x, w, f} : Over(h, i) \subseteq {x, w, f} \cup G
  /\ \A j \in G \ {None} : Assured(h, g, k, s, C, j)

\* Call c is trusted with a new archive, its wrapper and its file.
Handles(ses, h, g, k, s, C, x, f, w, c) ==
  /\ Fits(ses, h, g, k, s, C, c) /\ Trust(h, g, k, s, c) = {x, w, f} /\ Level(c.op) = 0 /\ c.x = x
  /\ c.op \in {"list_push", "content_archive_destroy"}

\* What an archive lies over is trusted with it, or assured.
LEMMA RestsOver ==
  ASSUME NEW h, NEW g, NEW k, NEW s, NEW C, NEW x, NEW f, NEW w, NEW G,
         Rests(h, g, k, s, C, x, f, w, G),
         NEW c, Trust(h, g, k, s, c) = {x, w, f}, c.op # "free", NEW i, Whole(h, g, k, s, c, i),
         NEW j \in Over(h, i)
  PROVE  Whole(h, g, k, s, c, j) \/ Assured(h, g, k, s, C, j)
<1>1. i \in {x, w, f}
  BY DEF Whole
<1>2. j # None
  BY DEF Over
<1>3. j \in {x, w, f} \cup (G \ {None})
  BY <1>1, <1>2 DEF Rests
<1> QED BY <1>3 DEF Rests, Whole

\* The call that destroys a new archive is trusted with it ...
LEMMA DestroyingArchive ==
  ASSUME NEW ses, NEW h, NEW g, NEW k, NEW s, NEW C, NEW x, NEW f, NEW w, NEW G,
         Rests(h, g, k, s, C, x, f, w, G),
         NEW c, c = Call("content_archive_destroy", x)
  PROVE  Handles(ses, h, g, k, s, C, x, f, w, c) /\ c.op = "content_archive_destroy"
<1>1. c.op = "content_archive_destroy" /\ c.x = x
  BY CallParts
<1>2. x \in DOMAIN h /\ h[x].kind = "nca" /\ Archive(h, x) = {x, w, f}
  BY DEF Rests
<1>3. Trust(h, g, k, s, c) = {x, w, f}
  BY <1>1, <1>2 DEF Trust
<1>4. IsCall(ses, h, g, c)
  BY <1>1, <1>2 DEF IsCall, Ops, OpsOfPackages
<1>5. IsReady(h, k, c)
  BY <1>1 DEF IsReady
<1>6. IsPlaced(h, g, k, s, c, C)
  BY <1>1 DEF IsPlaced, OpsOfPackages
<1>7. \A i \in DOMAIN h : Whole(h, g, k, s, c, i)
        => \A j \in Over(h, i) : Whole(h, g, k, s, c, j) \/ Assured(h, g, k, s, C, j)
  BY <1>1, <1>3, RestsOver
<1> QED BY <1>1, <1>3, <1>4, <1>5, <1>6, <1>7, Levels DEF Handles, Fits

\* ... and so is the one that puts it on the list of its package.
LEMMA PushingArchive ==
  ASSUME NEW ses, NEW h, NEW g, NEW k, NEW s, NEW C, NEW x, NEW f, NEW w, NEW l,
         Rests(h, g, k, s, C, x, f, w, Ground(h, l)),
         l \in Loaders(g), Unowned(h, x), Later(C, "nx_sys_destroy"), GamesOk(h, g), NEW c,
         c = CallOn("list_push", l, x)
  PROVE  Handles(ses, h, g, k, s, C, x, f, w, c)
<1>1. c.op = "list_push" /\ c.x = x /\ c.dir = l
  BY CallParts
<1>2. HeapOk(h) /\ x \in DOMAIN h /\ h[x].kind = "nca" /\ Archive(h, x) = {x, w, f}
  BY DEF Rests
<1>3. Trust(h, g, k, s, c) = {x, w, f}
  BY <1>1, <1>2 DEF Trust
<1>4. l \in DOMAIN h
  BY <1>2, LoaderFacts
<1>5. IsCall(ses, h, g, c)
  BY <1>1, <1>2, <1>4 DEF IsCall, Ops, OpsOfPackages
<1>6. IsReady(h, k, c)
  <2>1. Grounded(h, l, x)
    BY <1>2 DEF Grounded, Rests
  <2> QED BY <1>1, <2>1 DEF IsReady
<1>7. IsPlaced(h, g, k, s, c, C)
  BY <1>1 DEF IsPlaced, OpsOfPackages
<1>8. \A i \in DOMAIN h : Whole(h, g, k, s, c, i)
        => \A j \in Over(h, i) : Whole(h, g, k, s, c, j) \/ Assured(h, g, k, s, C, j)
  BY <1>1, <1>3, RestsOver
<1> QED BY <1>1, <1>3, <1>5, <1>6, <1>7, <1>8, Levels DEF Handles, Fits

\* The call for the service of an archive that is then destroyed
Serves(h, C, x, e, c) ==
  /\ x \in DOMAIN h /\ h[x].kind = "nca" /\ Later(C, "hos_disable")
  /\ c = [op |-> "service", nca |-> x, e |-> e]
  /\ \E b \in C : b.op \in {"list_push", "content_archive_destroy"} /\ b.x = x

\* What follows from it.
ServesFits(ses, h, g, k, s, C, x, e, c) ==
  /\ Fits(ses, h, g, k, s, C, c) /\ Trust(h, g, k, s, c) = {} /\ Level(c.op) = 0
  /\ c.op = "service" /\ c.nca = x /\ c.e = e

\* The call that serves a new archive fits.
LEMMA FitsService ==
  ASSUME NEW ses, NEW h, NEW g, NEW k, NEW s, NEW C, NEW x, NEW e, NEW c, Serves(h, C, x, e, c)
  PROVE  ServesFits(ses, h, g, k, s, C, x, e, c)
<1>1. /\ x \in DOMAIN h /\ h[x].kind = "nca" /\ Later(C, "hos_disable") /\ c.op = "service"
      /\ c.nca = x /\ c.e = e
      /\ \E b \in C : b.op \in {"list_push", "content_archive_destroy"} /\ b.x = x
  BY DEF Serves
<1>2. Trust(h, g, k, s, c) = {}
  BY <1>1 DEF Trust
<1>3. IsCall(ses, h, g, c)
  BY <1>1 DEF IsCall, Ops, OpsOfPackages
<1>4. IsReady(h, k, c)
  BY <1>1 DEF IsReady
<1>5. IsPlaced(h, g, k, s, c, C)
  BY <1>1 DEF IsPlaced, OpsOfPackages
<1> QED BY <1>1, <1>2, <1>3, <1>4, <1>5, Levels DEF ServesFits, Fits, Whole

\* A service is asked for when the directories of its archive have been read.
LEMMA ServingArchive ==
  ASSUME NEW t, NEW q, NEW R, NEW n, NEW m, Puts(t, q, R, n, m), NEW h, Serving(t, h), NEW ses,
         NEW g,
         \A d \in Turns(t) : IsCall(ses, h, g, At(t, d)), n = Len(t),
         NEW h2, \A i \in DOMAIN h : h[i].kind = "nca" /\ h[i].romfs_list # <<>>
           => h2[i].romfs_list # <<>>,
         Head(t).op # "get_file",
         \A a \in 1 .. m : q[a].op = "service" /\ q[a].e.svt =>
           \E b \in 1 .. a - 1 : q[b].op = "get_file" /\ q[b].nca = q[a].nca
             /\ q[b].section.fs = "romfs"
  PROVE  Serving(R, h2)
<1>1. /\ n \in Nat \ {0} /\ m \in Nat /\ At(t, n) = Head(t) /\ Turns(t) = 1 .. n
      /\ Turns(R) = 1 .. n - 1 + m /\ Len(R) = n - 1 + m
      /\ \A d \in 1 .. n - 1 : At(R, d) = At(t, d)
      /\ \A a \in 1 .. m : n + m - a \in n .. n - 1 + m /\ At(R, n + m - a) = q[a]
      /\ \A d \in n .. n - 1 + m : n + m - d \in 1 .. m /\ At(R, d) = q[n + m - d]
  BY DEF Puts
<1>2. ASSUME NEW d \in Turns(R), At(R, d).op = "service" /\ At(R, d).e.svt
      PROVE  h2[At(R, d).nca].romfs_list # <<>> \/
             \E e \in d + 1 .. Len(R) : At(R, e).op = "get_file" /\ At(R, e).nca = At(R, d).nca
               /\ At(R, e).section.fs = "romfs"
  <2>1. CASE d \in 1 .. n - 1
    <3>1. PICK c : c = At(t, d)
      OBVIOUS
    <3>2. At(R, d) = c /\ d \in Turns(t) /\ c.op = "service" /\ c.e.svt
      BY <1>1, <1>2, <2>1, <3>1
    <3>3. CASE h[c.nca].romfs_list # <<>>
      <4>1. c.nca \in DOMAIN h /\ h[c.nca].kind = "nca"
        BY <3>1, <3>2 DEF IsCall
      <4> QED BY <3>2, <3>3, <4>1
    <3>4. CASE h[c.nca].romfs_list = <<>>
      <4>1. PICK e \in d + 1 .. Len(t) : At(t, e).op = "get_file" /\ At(t, e).nca = c.nca
              /\ At(t, e).section.fs = "romfs"
        BY <3>1, <3>2, <3>4 DEF Serving
      <4>2. Len(t) = n
        OBVIOUS
      <4>3. e # n
        BY <1>1, <4>1
      <4>4. e \in d + 1 .. Len(R) /\ e \in 1 .. n - 1
        BY <1>1, <2>1, <4>1, <4>2, <4>3
      <4> QED BY <1>1, <3>2, <4>1, <4>4
    <3> QED BY <3>3, <3>4
  <2>2. CASE d \in n .. n - 1 + m
    <3>1. PICK a : a = n + m - d
      OBVIOUS
    <3>2. a \in 1 .. m /\ At(R, d) = q[a]
      BY <1>1, <2>2, <3>1
    <3>3. PICK b \in 1 .. a - 1 : q[b].op = "get_file" /\ q[b].nca = q[a].nca
            /\ q[b].section.fs = "romfs"
      BY <1>2, <3>2
    <3>4. b \in 1 .. m /\ n + m - b \in d + 1 .. Len(R)
      BY <1>1, <2>2, <3>1, <3>2, <3>3
    <3>5. At(R, n + m - b) = q[b]
      BY <1>1, <3>4
    <3> QED BY <3>2, <3>3, <3>4, <3>5
  <2> QED BY <1>1, <1>2, <2>1, <2>2
<1> QED BY <1>2 DEF Serving

\* What is done with an archive once its directories have been read
TailOk(ses, h, g, k, s, C, x, f, w, e, q) ==
  /\ Takes(ses, h, g, k, s, C, q) /\ Entrusted(h, g, k, s, q) = {x, w, f} /\ IsSequence(q)
  /\ \E b \in Range(q) : b.op \in {"list_push", "content_archive_destroy"} /\ b.x = x
  /\ \A a \in DOMAIN q : /\ q[a].op \in {"list_push", "content_archive_destroy", "service"}
                         /\ Level(q[a].op) = 0
                         /\ q[a].op = "service" => q[a].nca = x /\ q[a].e = e

\* The archive of a package goes on a list ...
LEMMA TailPush ==
  ASSUME NEW ses, NEW h, NEW g, NEW k, NEW s, NEW C, NEW x, NEW f, NEW w, NEW e, NEW l,
         Rests(h, g, k, s, C, x, f, w, Ground(h, l)),
         l \in Loaders(g), Unowned(h, x), Later(C, "nx_sys_destroy"), GamesOk(h, g), NEW q,
         q = <<CallOn("list_push", l, x)>>
  PROVE  TailOk(ses, h, g, k, s, C, x, f, w, e, q)
<1>1. PICK c : c = CallOn("list_push", l, x)
  OBVIOUS
<1>2. Handles(ses, h, g, k, s, C, x, f, w, c)
  BY <1>1, PushingArchive
<1>3. /\ Fits(ses, h, g, k, s, C, c) /\ Trust(h, g, k, s, c) = {x, w, f} /\ Level(c.op) = 0
      /\ c.x = x
      /\ c.op = "list_push"
  BY <1>1, <1>2, CallParts DEF Handles
<1>4. /\ Takes(ses, h, g, k, s, C, <<c>>) /\ Entrusted(h, g, k, s, <<c>>) = {x, w, f}
      /\ Range(<<c>>) = {c} /\ DOMAIN <<c>> = {1} /\ <<c>>[1] = c
  BY <1>3, TakesOne
<1>5. IsSequence(<<c>>) /\ q = <<c>>
  BY <1>1, Small
<1> QED BY <1>3, <1>4, <1>5 DEF TailOk

\* ... and that of the firmware is served and destroyed.
LEMMA TailServe ==
  ASSUME NEW ses, NEW h, NEW g, NEW k, NEW s, NEW C, NEW x, NEW f, NEW w, NEW e, NEW G,
         Rests(h, g, k, s, C, x, f, w, G),
         Later(C, "hos_disable"),
         NEW q, q = <<[op |-> "service", nca |-> x, e |-> e], Call("content_archive_destroy", x)>>
  PROVE  TailOk(ses, h, g, k, s, C, x, f, w, e, q)
<1>1. PICK a, b : a = [op |-> "service", nca |-> x, e |-> e]
        /\ b = Call("content_archive_destroy", x)
  OBVIOUS
<1>2. Handles(ses, h, g, k, s, C, x, f, w, b) /\ b.op = "content_archive_destroy"
  BY <1>1, DestroyingArchive
<1>3. /\ Fits(ses, h, g, k, s, C, b) /\ Trust(h, g, k, s, b) = {x, w, f} /\ Level(b.op) = 0
      /\ b.x = x
  BY <1>2 DEF Handles
<1>4. PICK D : D = C \cup {b}
  OBVIOUS
<1>5. Serves(h, D, x, e, a)
  <2>1. Later(D, "hos_disable")
    BY <1>4 DEF Later
  <2>2. b \in D
    BY <1>4
  <2>3. x \in DOMAIN h /\ h[x].kind = "nca"
    BY DEF Rests
  <2> QED BY <1>1, <1>2, <1>3, <2>1, <2>2, <2>3 DEF Serves
<1>6. /\ Fits(ses, h, g, k, s, D, a) /\ Trust(h, g, k, s, a) = {} /\ Level(a.op) = 0
      /\ a.op = "service" /\ a.nca = x /\ a.e = e
  <2>1. ServesFits(ses, h, g, k, s, D, x, e, a)
    BY <1>5, FitsService
  <2> QED BY <2>1 DEF ServesFits
<1>7. Paired(ses, h, g, k, s, C, a, b)
  <2>1. Pair(ses, h, g, k, s, C, a, b)
    BY <1>3, <1>4, <1>6 DEF Pair, Above
  <2> QED BY <2>1, TakesTwo
<1>8. q = <<a, b>> /\ IsSequence(<<a, b>>)
  BY <1>1, Small
<1> QED BY <1>2, <1>3, <1>6, <1>7, <1>8 DEF TailOk, Paired

\* All the calls made
AllOk(ses, h, g, k, s, C, x, f, w, e, q) ==
  /\ Takes(ses, h, g, k, s, C, q) /\ Entrusted(h, g, k, s, q) = {x, w, f} /\ IsSequence(q)
  /\ \A a \in DOMAIN q : /\ q[a].op \in {"list_push", "content_archive_destroy", "service",
                              "get_file"} /\ Level(q[a].op) = 0
                         /\ q[a].op = "service" /\ q[a].e.svt =>
                              \E b \in 1 .. a - 1 : q[b].op = "get_file" /\ q[b].nca = q[a].nca
                                /\ q[b].section.fs = "romfs"

\* All the calls a new archive gives rise to.
LEMMA AllTaken ==
  ASSUME NEW ses, NEW h, NEW g, NEW k, NEW s, NEW C, NEW x, NEW f, NEW w, NEW e, NEW p,
         TailOk(ses, h, g, k, s, C, x, f, w, e, p),
         IsArchive(e), x \in DOMAIN h, h[x].kind = "nca", NEW q, q = Gets(x, e) \o p
  PROVE  AllOk(ses, h, g, k, s, C, x, f, w, e, q)
<1>1. PICK r : r = Gets(x, e)
  OBVIOUS
<1>2. /\ Takes(ses, h, g, k, s, C, p) /\ Entrusted(h, g, k, s, p) = {x, w, f} /\ IsSequence(p)
      /\ \E b \in Range(p) : b.op \in {"list_push", "content_archive_destroy"} /\ b.x = x
      /\ \A a \in DOMAIN p : /\ p[a].op \in {"list_push", "content_archive_destroy", "service"}
                             /\ Level(p[a].op) = 0
                             /\ p[a].op = "service" => p[a].nca = x /\ p[a].e = e
  BY DEF TailOk
<1>3. GetsTaken(ses, h, g, k, s, C \cup Range(p), x, e, r)
  <2>1. PICK D : D = C \cup Range(p)
    OBVIOUS
  <2>2. GetsFor(h, D, x, e, r)
    BY <1>1, <1>2, <2>1 DEF GetsFor
  <2> QED BY <2>1, <2>2, TakingGets
<1>4. /\ Takes(ses, h, g, k, s, C \cup Range(p), r) /\ Entrusted(h, g, k, s, r) = {}
      /\ IsSequence(r) /\ DOMAIN r = DOMAIN e.sections
      /\ \A a \in DOMAIN r : r[a].op = "get_file" /\ r[a].nca = x
           /\ r[a].section = e.sections[a] /\ Level(r[a].op) = 0
  BY <1>3 DEF GetsTaken
<1>5. Joins(ses, h, g, k, s, C, r, p)
  BY <1>2, <1>4 DEF Joins, Above
<1>6. Joined(ses, h, g, k, s, C, r, p)
  BY <1>5, TakesJoin
<1>7. q = r \o p
  BY <1>1
<1>8. /\ Takes(ses, h, g, k, s, C, q) /\ IsSequence(q) /\ Entrusted(h, g, k, s, q) = {x, w, f}
      /\ \A a \in DOMAIN q : (\E i \in DOMAIN r : q[a] = r[i]) \/ (\E i \in DOMAIN p : q[a] = p[i])
  BY <1>2, <1>4, <1>6, <1>7 DEF Joined
<1>9. \A a \in DOMAIN q : q[a].op \in {"list_push", "content_archive_destroy", "service",
        "get_file"} /\ Level(q[a].op) = 0
  BY <1>2, <1>4, <1>8
<1>10. ASSUME NEW a \in DOMAIN q, q[a].op = "service", q[a].e.svt
       PROVE  \E b \in 1 .. a - 1 : q[b].op = "get_file" /\ q[b].nca = q[a].nca
              /\ q[b].section.fs = "romfs"
  <2>1. /\ Len(r) \in Nat /\ DOMAIN r = 1 .. Len(r) /\ Len(p) \in Nat /\ DOMAIN p = 1 .. Len(p)
        /\ Len(q) = Len(r) + Len(p) /\ DOMAIN q = 1 .. Len(q)
        /\ \A i \in 1 .. Len(r) + Len(p) : q[i] = IF i <= Len(r) THEN r[i] ELSE p[i - Len(r)]
    BY <1>2, <1>4, <1>7, <1>8, SequenceIs, Joining
  <2>2. a \in 1 .. Len(r) + Len(p) /\ ~(a <= Len(r))
    BY <1>4, <1>10, <2>1
  <2>3. PICK i : i = a - Len(r)
    OBVIOUS
  <2>4. i \in DOMAIN p /\ q[a] = p[i]
    BY <2>1, <2>2, <2>3
  <2>5. q[a].nca = x /\ e.svt
    BY <1>2, <1>10, <2>4
  <2>6. PICK b \in DOMAIN r : e.sections[b].fs = "romfs"
    BY <1>4, <2>5 DEF IsArchive
  <2>7. b \in 1 .. a - 1 /\ q[b] = r[b]
    BY <2>1, <2>2, <2>6
  <2> QED BY <1>4, <2>5, <2>6, <2>7
<1> QED BY <1>8, <1>9, <1>10 DEF AllOk

\* The step
CreateIs(ses, t, h, g, k, s, q, R, n, h1, h2, dir, f, w, x, e) ==
  /\ MakesFor(ses, t, h, g, k, s, n, h1, h2, dir, f, w, x)
  /\ Head(t).op = "content_archive_create" /\ R = q \o Tail(t)
  /\ AllOk(ses, h2, g, k, s, After(t, n), x, f, w, e, q)
  /\ Trust(h, g, k, s, Head(t)) \subseteq {f} /\ DOMAIN h2 = DOMAIN h \cup {x, w, f}
  /\ Live(h2) = Live(h) \cup {x, w, f}

\* The step of content_archive_create.
LEMMA CreateStep ==
  ASSUME NEW ses, NEW t, NEW h, NEW g, NEW k, NEW s, NEW q, NEW R, NEW n, NEW h1, NEW h2, NEW dir,
         NEW f, NEW w, NEW x, NEW e,
         CreateIs(ses, t, h, g, k, s, q, R, n, h1, h2, dir, f, w, x, e)
  PROVE  StateOk(ses, R, h2, g, k, s)
<1>1. /\ MakesFor(ses, t, h, g, k, s, n, h1, h2, dir, f, w, x)
      /\ Head(t).op = "content_archive_create" /\ R = q \o Tail(t)
      /\ AllOk(ses, h2, g, k, s, After(t, n), x, f, w, e, q)
      /\ Trust(h, g, k, s, Head(t)) \subseteq {f} /\ DOMAIN h2 = DOMAIN h \cup {x, w, f}
      /\ Live(h2) = Live(h) \cup {x, w, f}
  BY DEF CreateIs
<1>2. /\ StateOk(ses, t, h, g, k, s) /\ t # <<>> /\ n = Len(t)
      /\ ArchiveMade(h, h1, h2, dir, f, w, x)
      /\ {f, w} \cap DOMAIN h \subseteq Trust(h, g, k, s, Head(t)) /\ HeapOk(h2)
      /\ x \notin DOMAIN h
  BY <1>1 DEF MakesFor, ArchiveMade
<1>3. /\ \A c \in After(t, n) : IsReady(h2, k, c) /\ Trust(h2, g, k, s, c) = Trust(h, g, k, s, c)
      /\ ListsOk(h2, g, k, s) /\ Growing(h, h2, g, g)
      /\ \A i \in Live(h) : Dropped(h, k, i) => Dropped(h2, k, i)
      /\ \A i \in DOMAIN h : h[i].kind = "nca" /\ h[i].romfs_list # <<>> => h2[i].romfs_list # <<>>
  BY <1>1, MadeOthers DEF MadeStays
<1>4. /\ Takes(ses, h2, g, k, s, After(t, n), q) /\ Entrusted(h2, g, k, s, q) = {x, w, f}
      /\ IsSequence(q)
      /\ \A a \in DOMAIN q : q[a].op \in {"list_push", "content_archive_destroy", "service",
           "get_file"} /\ Level(q[a].op) = 0
      /\ \A a \in DOMAIN q : q[a].op = "service" /\ q[a].e.svt =>
           \E b \in 1 .. a - 1 : q[b].op = "get_file" /\ q[b].nca = q[a].nca
             /\ q[b].section.fs = "romfs"
  BY <1>1 DEF AllOk
<1>5. /\ n \in Nat \ {0} /\ Turns(t) = 1 .. n /\ IsSequence(t)
           /\ \A d \in 1 .. n - 1 : At(t, d) \in After(t, n)
  BY <1>2, HeadFacts
<1>6. PICK m : m = Len(q)
  OBVIOUS
<1>7. m \in Nat /\ DOMAIN q = 1 .. m
  BY <1>4, <1>6, SequenceIs
<1>8. Puts(t, q, R, n, m)
  BY <1>1, <1>2, <1>4, <1>5, <1>6, Pushing
<1>9. Opening(t, g) /\ Apart(t) /\ Serving(t, h) /\ \A d \in Turns(t) : IsCall(ses, h, g, At(t, d))
  BY <1>2 DEF StateOk, CallsOk
<1>10. Opening(R, g)
  <2>1. Head(t).op \notin {"nsp", "nsz"} /\ \A a \in 1 .. m : q[a].op \notin {"nsp", "nsz"}
    BY <1>1, <1>4, <1>7
  <2> QED BY <1>8, <1>9, <2>1, OpeningStays
<1>11. Apart(R)
  <2>1. \A a \in 1 .. m : q[a].op # "nsz_addfile"
    BY <1>4, <1>7
  <2> QED BY <1>8, <1>9, <2>1, ApartStays
<1>12. Serving(R, h2)
  <2>1. \A a \in 1 .. m : q[a].op = "service" /\ q[a].e.svt =>
           \E b \in 1 .. a - 1 : q[b].op = "get_file" /\ q[b].nca = q[a].nca
             /\ q[b].section.fs = "romfs"
    BY <1>4, <1>7
  <2>2. Head(t).op # "get_file"
    BY <1>1
  <2> QED BY ONLY <1>2, <1>3, <1>8, <1>9, <2>1, <2>2, ServingArchive
<1>13. Rises(Head(t), q)
  BY <1>4 DEF Rises
<1>14. PICK F : F = DOMAIN h2 \ DOMAIN h
  OBVIOUS
<1>15. Handed(t, h, g, k, s, q, n, h2, g, k, s, F, 0, {})
  <2>1. 0 \in 0 .. n - 1 /\ F \cap DOMAIN h = {}
    BY <1>5, <1>14
  <2>2. \A d \in 1 .. n - 1 : Trust(h2, g, k, s, At(t, d)) = Trust(h, g, k, s,
          At(t, d)) \cup IF d = 0 THEN {} ELSE {}
    BY <1>3, <1>5
  <2>3. Trust(h, g, k, s, Head(t)) \cup F = {x, w, f}
    BY <1>1, <1>2, <1>14
  <2>4. /\ Live(h) \ Trust(h, g, k, s, Head(t)) \subseteq Live(h2)
        /\ Live(h2) \subseteq Live(h) \cup F
    <3>1. Live(h2) \subseteq DOMAIN h2 /\ Live(h) \subseteq DOMAIN h
      BY DEF Live
    <3>2. Trust(h, g, k, s, Head(t)) \subseteq Live(h)
      BY <1>2, HeadFacts
    <3> QED BY <1>1, <2>3, <3>2
  <2>5. /\ {} \cup Entrusted(h2, g, k, s,
             q) \subseteq (Trust(h, g, k, s, Head(t)) \cup F) \cap Live(h2)
        /\ \A i \in (Trust(h, g, k, s, Head(t)) \cup F) \cap Live(h2) : i \in Entrusted(h2, g, k,
             s, q)
    BY <1>1, <1>4, <2>3
  <2> QED BY <1>3, <2>1, <2>2, <2>4, <2>5 DEF Handed
<1>16. StepIs(ses, t, h, g, k, s, q, R, n, h2, g, k, s)
  BY <1>1, <1>2, <1>3, <1>4, <1>10, <1>11, <1>12, <1>13 DEF StepIs
<1> QED BY <1>15, <1>16, AnyStep

\* A heap is in a frame with itself.
LEMMA FrameNone ==
  ASSUME NEW h, HeapOk(h)
  PROVE  Frame(h, h)
<1>1. IsSequence(h)
  BY DEF HeapOk
<1> QED BY <1>1 DEF Frame, Steady, Stable

\* The file of an archive: f, of directory dir and over the objects of B; T is what the
\* call was trusted with.
OpensFile(h, h0, dir, f, T, B) ==
  /\ HeapOk(h) /\ HeapOk(h0) /\ Frame(h, h0) /\ DOMAIN h0 = DOMAIN h \cup {f}
  /\ Live(h0) = Live(h) \cup {f}
  /\ dir \in DOMAIN h /\ IsFileOf(h0, f, dir) /\ Unowned(h0, f)
  /\ {f} \cap DOMAIN h \subseteq T /\ T \subseteq {f} /\ Over(h0, f) \subseteq B
\* A new one
OpensNew(h, h0, dir, f, kd, b) ==
  /\ HeapOk(h) /\ dir \in DOMAIN h /\ b \in DOMAIN h /\ h[b].kind # "loader"
  /\ f = Len(h) + 1 /\ h0 = Append(h, Object(kd, b))
  /\ \/ kd = "zipfile" /\ h[dir].kind = "zip"
     \/ kd = "offset" /\ h[dir].kind = "pfs" /\ b = h[dir].base

\* A file that pfs and zip directories make.
LEMMA OpeningNew ==
  ASSUME NEW h, NEW h0, NEW dir, NEW f, NEW kd, NEW b, OpensNew(h, h0, dir, f, kd, b)
  PROVE  OpensFile(h, h0, dir, f, {}, {b})
<1>1. /\ HeapOk(h) /\ dir \in DOMAIN h /\ b \in DOMAIN h /\ h[b].kind # "loader" /\ f = Len(h) + 1
      /\ kd \in {"offset", "zipfile"}
      /\ kd = "zipfile" => h[dir].kind = "zip"
      /\ kd = "offset" => h[dir].kind = "pfs" /\ b = h[dir].base
  BY DEF OpensNew
<1>2. PICK o : o = Object(kd, b)
  OBVIOUS
<1>3. Laid(h, h0, o, kd, b)
  <2>1. Lays(h, h0, o, kd, b)
    BY <1>1, <1>2 DEF Lays, OpensNew
  <2> QED BY <2>1, Laying
<1>4. /\ Came(h, h0, o) /\ o.kind = kd /\ o.base = b /\ o.dir = None /\ b # None
  BY <1>3 DEF Laid
<1>5. /\ HeapOk(h0) /\ Frame(h, h0) /\ DOMAIN h0 = DOMAIN h \cup {f}
      /\ f \notin DOMAIN h /\ h0[f] = o /\ (\A i \in DOMAIN h : h0[i] = h[i])
      /\ Live(h0) = Live(h) \cup {f}
  BY <1>1, <1>4 DEF Came
<1>a. h0[f].kind = kd /\ h0[f].base = b /\ h0[f].dir = None /\ b # None /\ h0[dir] = h[dir]
  BY <1>1, <1>4, <1>5
<1>6. IsFileOf(h0, f, dir)
  BY <1>1, <1>a DEF IsFileOf, FileKinds, DirKinds
<1>7. Over(h0, f) = {b}
  <2>1. Over(h0, f) = {h0[f].base, h0[f].dir} \ {None}
    BY <1>1, <1>a DEF Over
  <2> QED BY <1>a, <2>1
<1>8. Unowned(h0, f)
  <2>1. ASSUME NEW p \in DOMAIN h0 PROVE f \notin Owned(h0, p)
    <3>1. CASE p = f
      BY <1>5, <3>1, OwnedFacts
    <3>2. CASE p # f
      <4>1. p \in DOMAIN h /\ Steady(h, h0)
        BY <1>5, <3>2 DEF Frame
      <4>2. Owned(h0, p) = Owned(h, p) /\ Owned(h, p) \subseteq DOMAIN h
        BY <1>1, <4>1, SteadyFacts, OwnedFacts
      <4> QED BY <1>5, <4>2
    <3> QED BY <3>1, <3>2
  <2> QED BY <2>1 DEF Unowned
<1> QED BY <1>1, <1>5, <1>6, <1>7, <1>8 DEF OpensFile

\* One that is there
OpensKept(h, dir, f, b) ==
  /\ HeapOk(h) /\ dir \in DOMAIN h /\ h[dir].kind = "romfs" /\ h[dir].base = None
  /\ f \in Range(h[dir].parts) /\ Unowned(h, f)
  /\ f \in DOMAIN h /\ f \in Live(h) /\ h[f].base \in {None, b}

\* A file that nca_files holds.
LEMMA OpeningKept ==
  ASSUME NEW h, NEW dir, NEW f, NEW b, OpensKept(h, dir, f, b)
  PROVE  OpensFile(h, h, dir, f, {f}, {dir, b})
<1>1. /\ HeapOk(h) /\ dir \in DOMAIN h /\ h[dir].kind = "romfs" /\ h[dir].base = None
      /\ f \in Range(h[dir].parts) /\ Unowned(h, f)
      /\ f \in DOMAIN h /\ f \in Live(h) /\ h[f].base \in {None, b}
  BY DEF OpensKept
<1>2. Frame(h, h)
  BY <1>1, FrameNone
<1>3. HoldsFiles(h, dir)
  BY <1>1 DEF HeapOk
<1>4. h[f].dir = dir /\ h[f].kind \in {"offset", "mem"}
  BY <1>1, <1>3 DEF HoldsFiles
<1>5. IsFileOf(h, f, dir)
  BY <1>1, <1>4 DEF IsFileOf, FileKinds, DirKinds
<1>6. Over(h, f) \subseteq {dir, b}
  BY <1>1, <1>4 DEF Over
<1> QED BY <1>1, <1>2, <1>5, <1>6 DEF OpensFile

\* The wrapper, if there is one
Wraps(h, h0, h1, dir, f, w, T, B) ==
  /\ OpensFile(h, h0, dir, f, T, B)
  /\ \/ h1 = h0 /\ w = f
     \/ h1 = Append(h0, Aes(f)) /\ w = Len(h0) + 1

\* What follows from it.
Wrapped(h, h1, dir, f, w, T, B) ==
  /\ HeapOk(h) /\ HeapOk(h1) /\ Frame(h, h1) /\ DOMAIN h1 = DOMAIN h \cup {f, w}
  /\ Live(h1) = Live(h) \cup {f, w}
  /\ dir \in DOMAIN h /\ IsFileOf(h1, f, dir) /\ Unowned(h1, f) /\ Unowned(h1, w)
  /\ {f, w} \cap DOMAIN h \subseteq T /\ T \subseteq {f} /\ Over(h1, f) \subseteq B
  /\ Over(h1, w) \subseteq B \cup {f}
  /\ w = f \/ (h1[w].kind = "aes" /\ h1[w].base = f /\ h1[w].dir = None)

\* The file as it was opened, or with a wrapper.
LEMMA Wrapping ==
  ASSUME NEW h, NEW h0, NEW h1, NEW dir, NEW f, NEW w, NEW T, NEW B,
         Wraps(h, h0, h1, dir, f, w, T, B)
  PROVE  Wrapped(h, h1, dir, f, w, T, B)
<1>1. /\ HeapOk(h) /\ HeapOk(h0) /\ Frame(h, h0) /\ DOMAIN h0 = DOMAIN h \cup {f}
      /\ Live(h0) = Live(h) \cup {f}
      /\ dir \in DOMAIN h /\ IsFileOf(h0, f, dir) /\ Unowned(h0, f)
      /\ {f} \cap DOMAIN h \subseteq T /\ T \subseteq {f} /\ Over(h0, f) \subseteq B
  BY DEF Wraps, OpensFile
<1>2. CASE h1 = h0 /\ w = f
  BY <1>1, <1>2 DEF Wrapped
<1>3. CASE h1 = Append(h0, Aes(f)) /\ w = Len(h0) + 1
  <2>1. PICK kd, o : kd = "aes" /\ o = Object(kd, f)
    OBVIOUS
  <2>2. Laid(h0, h1, o, kd, f)
    <3>1. h0[f].kind # "loader"
      BY <1>1 DEF IsFileOf, FileKinds
    <3>2. Lays(h0, h1, o, kd, f)
      BY <1>1, <1>3, <2>1, <3>1 DEF Lays, Aes
    <3> QED BY <3>2, Laying
  <2>3. Came(h0, h1, o) /\ o.kind = "aes" /\ o.base = f /\ o.dir = None /\ f # None
    BY <2>1, <2>2 DEF Laid
  <2>4. /\ HeapOk(h1) /\ Frame(h0, h1) /\ DOMAIN h1 = DOMAIN h0 \cup {w}
        /\ w \notin DOMAIN h0 /\ h1[w] = o /\ (\A i \in DOMAIN h0 : h1[i] = h0[i])
        /\ Live(h1) = Live(h0) \cup {w}
    BY <1>3, <2>3 DEF Came
  <2>5. Frame(h, h1)
    BY <1>1, <2>4, FrameOn
  <2>6. Stable(h0, h1)
    BY <2>4 DEF Frame, Steady
  <2>7. IsFileOf(h1, f, dir)
    BY <1>1, <2>6, FileOfStays
  <2>8. Unowned(h1, f)
    BY <1>1, <2>4, UnownedStays
  <2>9. Unowned(h1, w)
    <3>1. ASSUME NEW p \in DOMAIN h1 PROVE w \notin Owned(h1, p)
      <4>1. CASE p = w
        BY <2>4, <4>1, OwnedFacts
      <4>2. CASE p # w
        <5>1. p \in DOMAIN h0 /\ Steady(h0, h1)
          BY <2>4, <4>2 DEF Frame
        <5>2. Owned(h1, p) = Owned(h0, p) /\ Owned(h0, p) \subseteq DOMAIN h0
          BY <1>1, <5>1, SteadyFacts, OwnedFacts
        <5> QED BY <2>4, <5>2
      <4> QED BY <4>1, <4>2
    <3> QED BY <3>1 DEF Unowned
  <2>10. Over(h1, w) = {f}
    BY <2>3, <2>4 DEF Over
  <2>11. Over(h1, f) = Over(h0, f)
    BY <1>1, <2>4 DEF Over
  <2> QED BY <1>1, <2>3, <2>4, <2>5, <2>7, <2>8, <2>9, <2>10, <2>11 DEF Wrapped
<1> QED BY <1>2, <1>3 DEF Wraps

\* The archive to be opened, and its file: in a package, in the directory of an nsz, or in
\* the firmware
Creates(n, C, l, dir, e) ==
  /\ n = Len(todo) /\ C = After(todo, n) /\ l = Head(todo).owner /\ dir = Head(todo).dir
  /\ e = Head(todo).e

\* A call of content_archive_create, the next one, in directory dir.
CreatesIn(n, C, l, dir, e) ==
  /\ Ok /\ Creates(n, C, l, dir, e) /\ todo # <<>> /\ Head(todo).op = "content_archive_create"
  /\ HeapOk(heap) /\ GamesOk(heap, games)
  /\ IsArchive(e) /\ dir \in DOMAIN heap

\* The file an archive is made from has been opened, and is trusted or new.
OpensFileFor(C, l, dir, f, h0, T, B, G) ==
  /\ OpensFile(heap, h0, dir, f, T, B) /\ h0 = WithArchiveFile(dir)
  /\ T = Trust(heap, games, tickets, services, Head(todo)) /\ B \subseteq G /\ dir \in G
  /\ \A j \in G \ {None} : Assured(heap, games, tickets, services, C, j)
  /\ {dir} \cup (IF f \in Objects THEN Chain(f) ELSE Chain(heap[dir].base)) \subseteq Live(heap)

\* The directory is the zip of the firmware.
OfFirmware(C, l, dir) == l = None /\ heap[dir].kind = "zip" /\ Later(C, "hos_disable")

\* The directory is of a package, whose ground is G.
OfPackage(C, l, dir, G) ==
  l # None /\ heap[dir].kind # "zip" /\ l \in Loaders(games) /\ G = Ground(heap, l)
    /\ Later(C, "nx_sys_destroy")

\* Where archives are created: in the zip of the firmware, in an nsp or in nca_files.
LEMMA CreatesFacts ==
  ASSUME Ok, Calling("content_archive_create"), NEW n, NEW C, NEW l, NEW dir, NEW e,
         Creates(n, C, l, dir, e)
  PROVE  /\ CreatesIn(n, C, l, dir, e)
         /\ \/ OfFirmware(C, l, dir) /\ Assured(heap, games, tickets, services, C, dir)
            \/ /\ l \in Loaders(games) /\ l # None /\ Later(C, "nx_sys_destroy")
               /\ heap[l].base = None /\ dir = heap[l].dir
            \/ /\ l \in Loaders(games) /\ l # None /\ Later(C, "nx_sys_destroy")
               /\ heap[l].base # None /\ dir = heap[l].base
               /\ \E i \in DOMAIN heap : /\ HeldIn(heap, dir, e.name) = {i} /\ Unowned(heap, i)
                                         /\ heap[i].base \in {None, heap[heap[l].dir].base}
<1>a. n = Len(todo) /\ C = After(todo, n) /\ l = Head(todo).owner /\ dir = Head(todo).dir
        /\ e = Head(todo).e
  BY DEF Creates
<1>1. /\ HeapOk(heap) /\ GamesOk(heap, games) /\ Head(todo).op = "content_archive_create"
      /\ todo # <<>>
      /\ IsCall(session, heap, games, Head(todo)) /\ IsReady(heap, tickets, Head(todo))
      /\ IsPlaced(heap, games, tickets, services, Head(todo), After(todo, n))
  BY <1>a, OkFacts
<1>2. /\ IsArchive(e) /\ dir \in DOMAIN heap /\ l = None => heap[dir].kind = "zip"
      /\ l # None => l \in Loaders(games)
           /\ dir = IF heap[l].base = None THEN heap[l].dir ELSE heap[l].base
  BY <1>a, <1>1 DEF IsCall
<1>2a. IsArchive(e) /\ dir \in DOMAIN heap
  BY <1>a, <1>1 DEF IsCall
<1>3. CreatesIn(n, C, l, dir, e)
  BY <1>1, <1>2a DEF CreatesIn
<1>4. CASE l = None
  <2>1. OfFirmware(C, l, dir) /\ Assured(heap, games, tickets, services, C, dir)
    BY <1>a, <1>1, <1>4 DEF IsPlaced, IsCall, OfFirmware
  <2> QED BY <1>3, <2>1
<1>5. CASE l # None
  <2>1. l \in Loaders(games) /\ dir = IF heap[l].base = None THEN heap[l].dir ELSE heap[l].base
    BY <1>a, <1>1, <1>5 DEF IsCall
  <2>2. Later(C, "nx_sys_destroy")
    BY <1>a, <1>1, <1>5 DEF IsPlaced
  <2>3. heap[l].base # None => \E i \in DOMAIN heap : HeldIn(heap, dir, e.name) = {i}
          /\ Unowned(heap, i)
                                                       /\ heap[i].base \in {None,
                                                            heap[heap[l].dir].base}
    BY <1>a, <1>1, <1>5 DEF IsReady
  <2> QED BY <1>3, <1>5, <2>1, <2>2, <2>3
<1> QED BY <1>4, <1>5

\* The file opened in a zip ...
LEMMA ZipOpens ==
  ASSUME NEW n, NEW C, NEW l, NEW dir, NEW e, CreatesIn(n, C, l, dir, e), OfFirmware(C, l, dir),
         Assured(heap, games, tickets, services, C, dir), NEW f, f = ArchiveFile(dir, e.name),
         NEW h0, h0 = WithArchiveFile(dir)
  PROVE  OpensFileFor(C, l, dir, f, h0, {}, {dir}, {dir})
<1>1. /\ Ok /\ n = Len(todo) /\ C = After(todo, n) /\ dir = Head(todo).dir /\ todo # <<>>
      /\ HeapOk(heap) /\ dir \in DOMAIN heap
      /\ Head(todo).op = "content_archive_create" /\ heap[dir].kind = "zip"
  BY DEF CreatesIn, Creates, OfFirmware
<1>2. heap[dir].base # None
  BY <1>1 DEF HeapOk, IsLayered
<1>3. Chain(heap[dir].base) \subseteq Live(heap) /\ dir \in Live(heap)
  BY <1>1, <1>2, DirectoryOpen
<1>4. f = Len(heap) + 1 /\ h0 = Append(heap, Object("zipfile", dir))
  BY <1>1 DEF ArchiveFile, WithArchiveFile, ZipFile, New
<1>5. PICK kd : kd = "zipfile"
  OBVIOUS
<1>6. OpensNew(heap, h0, dir, f, kd, dir)
  BY <1>1, <1>4, <1>5 DEF OpensNew
<1>7. OpensFile(heap, h0, dir, f, {}, {dir})
  BY <1>6, OpeningNew
<1>8. f \notin Objects
  BY <1>1, <1>4, SequenceIs DEF Objects, HeapOk
<1>9. Trust(heap, games, tickets, services, Head(todo)) = {}
  BY <1>1 DEF Trust
<1> QED BY <1>1, <1>3, <1>7, <1>8, <1>9 DEF OpensFileFor

\* ... in an nsp ...
LEMMA PfsOpens ==
  ASSUME NEW n, NEW C, NEW l, NEW dir, NEW e, CreatesIn(n, C, l, dir, e), l \in Loaders(games),
         l # None,
         Later(C, "nx_sys_destroy"), heap[l].base = None, dir = heap[l].dir,
         NEW f, f = ArchiveFile(dir, e.name), NEW h0, h0 = WithArchiveFile(dir)
  PROVE  /\ OpensFileFor(C, l, dir, f, h0, {}, {heap[dir].base}, Ground(heap, l))
         /\ OfPackage(C, l, dir, Ground(heap, l))
<1>1. /\ Ok /\ n = Len(todo) /\ C = After(todo, n) /\ dir = Head(todo).dir /\ todo # <<>>
      /\ HeapOk(heap) /\ dir \in DOMAIN heap
      /\ Head(todo).op = "content_archive_create" /\ GamesOk(heap, games)
  BY DEF CreatesIn, Creates
<1>2. heap[dir].kind = "pfs" /\ heap[dir].base \in DOMAIN heap
  <2>1. HeapOk(heap) /\ GamesOk(heap, games) /\ l \in Loaders(games)
    BY <1>1
  <2>2. heap[heap[l].dir].kind = "pfs" /\ heap[heap[l].dir].base \in DOMAIN heap
    BY ONLY <2>1, LoaderFacts
  <2> QED BY <2>2
<1>3. heap[dir].base # None
  BY <1>1, <1>2 DEF HeapOk, IsLayered
<1>4. Assured(heap, games, tickets, services, C, dir)
        /\ Assured(heap, games, tickets, services, C, heap[dir].base)
  BY <1>1, PackageFileAssured
<1>5. Chain(heap[dir].base) \subseteq Live(heap) /\ dir \in Live(heap)
        /\ heap[heap[dir].base].kind # "loader"
  BY <1>1, <1>2, <1>3, <1>4, DirectoryOpen
<1>6. PICK b, kd : b = heap[dir].base /\ kd = "offset"
  OBVIOUS
<1>7. f = Len(heap) + 1 /\ h0 = Append(heap, Object(kd, b))
  BY <1>2, <1>6 DEF ArchiveFile, WithArchiveFile, Offset, New
<1>8. OpensNew(heap, h0, dir, f, kd, b)
  BY <1>1, <1>2, <1>5, <1>6, <1>7 DEF OpensNew
<1>9. OpensFile(heap, h0, dir, f, {}, {b})
  BY <1>8, OpeningNew
<1>10. f \notin Objects
  BY <1>1, <1>7, SequenceIs DEF Objects, HeapOk
<1>11. Trust(heap, games, tickets, services, Head(todo)) = {}
  BY <1>1, <1>2 DEF Trust
<1>12. Ground(heap, l) = {dir, None, b}
  BY <1>6 DEF Ground
<1>13. \A j \in Ground(heap, l) \ {None} : Assured(heap, games, tickets, services, C, j)
  BY <1>4, <1>6, <1>12
<1>14. OpensFileFor(C, l, dir, f, h0, {}, {heap[dir].base}, Ground(heap, l))
  BY <1>5, <1>6, <1>9, <1>10, <1>11, <1>12, <1>13 DEF OpensFileFor
<1> QED BY <1>2, <1>14 DEF OfPackage

\* ... in nca_files ...
LEMMA RomfsOpens ==
  ASSUME NEW n, NEW C, NEW l, NEW dir, NEW e, CreatesIn(n, C, l, dir, e), l \in Loaders(games),
         l # None,
         Later(C, "nx_sys_destroy"), heap[l].base # None, dir = heap[l].base,
         NEW i \in DOMAIN heap, HeldIn(heap, dir, e.name) = {i}, Unowned(heap, i),
         heap[i].base \in {None, heap[heap[l].dir].base},
         NEW f, f = ArchiveFile(dir, e.name), NEW h0, h0 = WithArchiveFile(dir)
  PROVE  /\ OpensFileFor(C, l, dir, f, h0, {f}, {dir, heap[heap[l].dir].base}, Ground(heap, l))
         /\ OfPackage(C, l, dir, Ground(heap, l))
<1>1. /\ Ok /\ n = Len(todo) /\ C = After(todo, n) /\ dir = Head(todo).dir /\ e = Head(todo).e
      /\ todo # <<>> /\ HeapOk(heap)
      /\ dir \in DOMAIN heap /\ Head(todo).op = "content_archive_create" /\ GamesOk(heap, games)
  BY DEF CreatesIn, Creates
<1>2. heap[dir].kind = "romfs" /\ heap[dir].base = None /\ l \in DOMAIN heap
        /\ heap[l].kind = "loader"
  <2>1. HeapOk(heap) /\ GamesOk(heap, games) /\ l \in Loaders(games) /\ heap[l].base # None
    BY <1>1
  <2>2. heap[heap[l].base].kind = "romfs" /\ heap[heap[l].base].base = None /\ l \in DOMAIN heap
          /\ heap[l].kind = "loader"
    BY ONLY <2>1, LoaderFacts
  <2> QED BY <2>2
<1>3. f = i
  <2>1. Held(dir, e.name) = {i}
    BY DEF Held, HeldIn
  <2> QED BY <1>2, <2>1 DEF ArchiveFile
<1>4. h0 = heap
  BY <1>2 DEF WithArchiveFile
<1>5. Trust(heap, games, tickets, services, Head(todo)) = {f}
  BY <1>1, <1>2, <1>3 DEF Trust
<1>6. /\ Trust(heap, games, tickets, services, Head(todo)) \subseteq Live(heap)
      /\ n \in Turns(todo) /\ At(todo, n) = Head(todo)
      /\ TrustOk(todo, heap, games, tickets, services)
  <2>1. TrustOk(todo, heap, games, tickets, services)
    BY <1>1 DEF Ok, StateOk
  <2> QED BY <1>1, <2>1, HeadFacts DEF Ok
<1>7. f \in Live(heap) /\ f \in Range(heap[dir].parts)
  BY <1>3, <1>5, <1>6 DEF HeldIn
<1>8. heap[f].kind # "loader"
  <2>1. HoldsFiles(heap, dir)
    BY <1>1 DEF HeapOk
  <2> QED BY <1>2, <1>7, <2>1 DEF HoldsFiles
<1>9. Whole(heap, games, tickets, services, At(todo, n), f)
  BY <1>1, <1>5, <1>6 DEF Whole
<1>10. Chain(f) \subseteq Live(heap)
  BY <1>1, <1>6, <1>8, <1>9, ChainLive
<1>11. PICK b : b = heap[heap[l].dir].base
  OBVIOUS
<1>12. OpensKept(heap, dir, f, b)
  BY <1>1, <1>2, <1>3, <1>7, <1>11 DEF OpensKept
<1>13. OpensFile(heap, h0, dir, f, {f}, {dir, b})
  BY <1>4, <1>12, OpeningKept
<1>14. Assured(heap, games, tickets, services, C, dir)
  <2>1. dir \in Package(heap, l)
    BY <1>1, <1>2 DEF Package, Owned
  <2> QED BY <2>1, PackageAssured
<1>15. Assured(heap, games, tickets, services, C, heap[l].dir)
         /\ Assured(heap, games, tickets, services, C, b)
  BY <1>1, <1>11, PackageFileAssured
<1>16. dir \in Live(heap)
  BY <1>1, <1>14, AssuredFacts DEF Ok
<1>17. Ground(heap, l) = {heap[l].dir, dir, b}
  BY <1>11 DEF Ground
<1>18. \A j \in Ground(heap, l) \ {None} : Assured(heap, games, tickets, services, C, j)
  BY <1>14, <1>15, <1>17
<1>19. f \in Objects
  BY <1>3 DEF Objects
<1>20. OpensFileFor(C, l, dir, f, h0, {f}, {dir, heap[heap[l].dir].base}, Ground(heap, l))
  BY <1>4, <1>5, <1>10, <1>11, <1>13, <1>16, <1>17, <1>18, <1>19 DEF OpensFileFor
<1> QED BY <1>2, <1>20 DEF OfPackage

\* The file opened, whoever it is for.
OpensSo(C, l, dir, f, h0, T, B, G) ==
  OpensFileFor(C, l, dir, f, h0, T, B, G)
    /\ ((OfFirmware(C, l, dir) /\ G = {dir}) \/ OfPackage(C, l, dir, G))

\* ... and so in any.
LEMMA CreatesOpen ==
  ASSUME Ok, Calling("content_archive_create"), NEW n, NEW C, NEW l, NEW dir, NEW e,
         Creates(n, C, l, dir, e),
         NEW f, f = ArchiveFile(dir, e.name), NEW h0, h0 = WithArchiveFile(dir)
  PROVE  CreatesIn(n, C, l, dir, e) /\ \E T, B, G : OpensSo(C, l, dir, f, h0, T, B, G)
<1>1. /\ CreatesIn(n, C, l, dir, e)
      /\ \/ OfFirmware(C, l, dir) /\ Assured(heap, games, tickets, services, C, dir)
         \/ /\ l \in Loaders(games) /\ l # None /\ Later(C, "nx_sys_destroy")
            /\ heap[l].base = None /\ dir = heap[l].dir
         \/ /\ l \in Loaders(games) /\ l # None /\ Later(C, "nx_sys_destroy")
            /\ heap[l].base # None /\ dir = heap[l].base
            /\ \E i \in DOMAIN heap : /\ HeldIn(heap, dir, e.name) = {i} /\ Unowned(heap, i)
                                      /\ heap[i].base \in {None, heap[heap[l].dir].base}
  BY CreatesFacts
<1>2. CASE OfFirmware(C, l, dir) /\ Assured(heap, games, tickets, services, C, dir)
  <2>1. OpensFileFor(C, l, dir, f, h0, {}, {dir}, {dir})
    BY <1>1, <1>2, ZipOpens
  <2> QED BY <1>1, <1>2, <2>1 DEF OpensSo
<1>3. CASE /\ l \in Loaders(games) /\ l # None /\ Later(C, "nx_sys_destroy")
           /\ heap[l].base = None /\ dir = heap[l].dir
  <2>1. OpensFileFor(C, l, dir, f, h0, {}, {heap[dir].base}, Ground(heap, l))
          /\ OfPackage(C, l, dir, Ground(heap, l))
    BY <1>1, <1>3, PfsOpens
  <2> QED BY <1>1, <2>1 DEF OpensSo
<1>4. CASE /\ l \in Loaders(games) /\ l # None /\ Later(C, "nx_sys_destroy")
           /\ heap[l].base # None /\ dir = heap[l].base
           /\ \E i \in DOMAIN heap : /\ HeldIn(heap, dir, e.name) = {i} /\ Unowned(heap, i)
                                     /\ heap[i].base \in {None, heap[heap[l].dir].base}
  <2>1. PICK i \in DOMAIN heap : /\ HeldIn(heap, dir, e.name) = {i} /\ Unowned(heap, i)
                                 /\ heap[i].base \in {None, heap[heap[l].dir].base}
    BY <1>4
  <2>2. /\ OpensFileFor(C, l, dir, f, h0, {f}, {dir, heap[heap[l].dir].base}, Ground(heap, l))
        /\ OfPackage(C, l, dir, Ground(heap, l))
    BY <1>1, <1>4, <2>1, RomfsOpens
  <2> QED BY <1>1, <2>2 DEF OpensSo
<1> QED BY <1>1, <1>2, <1>3, <1>4

\* What is made of the file
Makes(C, l, dir, e, f, h0, T, B, G, w, h1, h2, x, p, q, R) ==
  /\ OpensSo(C, l, dir, f, h0, T, B, G)
  /\ \/ h1 = h0 /\ w = f
     \/ h1 = Append(h0, Aes(f)) /\ w = Len(h0) + 1
  /\ x = Len(h1) + 1 /\ h2 = Append(h1, Inside(dir, Object("nca", w)))
  /\ l # None => p = <<CallOn("list_push", l, x)>>
  /\ l = None => p = <<[op |-> "service", nca |-> x, e |-> e], Call("content_archive_destroy", x)>>
  /\ q = Gets(x, e) \o p /\ R = q \o Tail(todo)

\* The archive made rests upon it.
LEMMA MakesRests ==
  ASSUME NEW n, NEW C, NEW l, NEW dir, NEW e, CreatesIn(n, C, l, dir, e),
         NEW f, NEW h0, NEW T, NEW B, NEW G, NEW w, NEW h1, NEW h2, NEW x, NEW p, NEW q, NEW R,
         Makes(C, l, dir, e, f, h0, T, B, G, w, h1, h2, x, p, q, R)
  PROVE  /\ MakesFor(session, todo, heap, games, tickets, services, n, h1, h2, dir, f, w, x)
         /\ MadeStays(session, todo, heap, games, tickets, services, n, h2)
         /\ Wrapped(heap, h1, dir, f, w, T, B)
         /\ Rests(h2, games, tickets, services, C, x, f, w, G)
<1>1. /\ Ok /\ n = Len(todo) /\ C = After(todo, n) /\ todo # <<>> /\ HeapOk(heap)
      /\ dir \in DOMAIN heap
      /\ Head(todo).op = "content_archive_create" /\ GamesOk(heap, games)
  BY DEF CreatesIn, Creates
<1>2. /\ OpensFile(heap, h0, dir, f, T, B) /\ T = Trust(heap, games, tickets, services, Head(todo))
      /\ B \subseteq G /\ dir \in G /\ \A j \in G \ {None} : Assured(heap, games, tickets,
           services, C, j)
  BY DEF Makes, OpensSo, OpensFileFor
<1>3. Wrapped(heap, h1, dir, f, w, T, B)
  <2>1. Wraps(heap, h0, h1, dir, f, w, T, B)
    BY <1>2 DEF Makes, Wraps
  <2> QED BY <2>1, Wrapping
<1>4. /\ HeapOk(h1) /\ Frame(heap, h1) /\ DOMAIN h1 = DOMAIN heap \cup {f, w}
      /\ IsFileOf(h1, f, dir) /\ Unowned(h1, f) /\ Unowned(h1, w)
      /\ {f, w} \cap DOMAIN heap \subseteq T /\ T \subseteq {f} /\ Over(h1, f) \subseteq B
      /\ Over(h1, w) \subseteq B \cup {f}
      /\ w = f \/ (h1[w].kind = "aes" /\ h1[w].base = f /\ h1[w].dir = None)
  BY <1>3 DEF Wrapped
<1>5. ArchiveMade(heap, h1, h2, dir, f, w, x)
  <2>1. x = Len(h1) + 1 /\ h2 = Append(h1, Inside(dir, Object("nca", w)))
    BY DEF Makes
  <2>2. MakesArchive(heap, h1, h2, dir, f, w, x)
    BY <1>1, <1>4, <2>1 DEF MakesArchive
  <2> QED BY <2>2, MakingArchive
<1>6. MakesFor(session, todo, heap, games, tickets, services, n, h1, h2, dir, f, w, x)
  BY <1>1, <1>2, <1>4, <1>5 DEF MakesFor, Ok
<1>7. MadeStays(session, todo, heap, games, tickets, services, n, h2)
  BY <1>6, MadeOthers
<1>8. \A j \in G \ {None} : Assured(h2, games, tickets, services, C, j)
  BY <1>1, <1>2, <1>7 DEF MadeStays
<1>9. /\ HeapOk(h2) /\ x \in DOMAIN h2 /\ h2[x].kind = "nca" /\ Archive(h2, x) = {x, w, f}
      /\ Over(h2, x) = {w, dir}
      /\ \A i \in DOMAIN h1 : h2[i] = h1[i]
  BY <1>5 DEF ArchiveMade
<1>10. \A i \in {x, w, f} : Over(h2, i) \subseteq {x, w, f} \cup G
  <2>1. Over(h2, f) = Over(h1, f) /\ Over(h2, w) = Over(h1, w)
    BY <1>4, <1>9 DEF Over
  <2> QED BY <1>2, <1>4, <1>9, <2>1
<1>11. Rests(h2, games, tickets, services, C, x, f, w, G)
  BY <1>8, <1>9, <1>10 DEF Rests
<1> QED BY <1>3, <1>6, <1>7, <1>11

\* All of it keeps the invariant.
LEMMA MakesOk ==
  ASSUME NEW n, NEW C, NEW l, NEW dir, NEW e, CreatesIn(n, C, l, dir, e),
         NEW f, NEW h0, NEW T, NEW B, NEW G, NEW w, NEW h1, NEW h2, NEW x, NEW p, NEW q, NEW R,
         Makes(C, l, dir, e, f, h0, T, B, G, w, h1, h2, x, p, q, R)
  PROVE  StateOk(session, R, h2, games, tickets, services)
<1>1. /\ Ok /\ n = Len(todo) /\ C = After(todo, n) /\ todo # <<>> /\ HeapOk(heap) /\ IsArchive(e)
      /\ Head(todo).op = "content_archive_create" /\ GamesOk(heap, games)
  BY DEF CreatesIn, Creates
<1>2. /\ MakesFor(session, todo, heap, games, tickets, services, n, h1, h2, dir, f, w, x)
      /\ MadeStays(session, todo, heap, games, tickets, services, n, h2)
      /\ Wrapped(heap, h1, dir, f, w, T, B)
      /\ Rests(h2, games, tickets, services, C, x, f, w, G)
  BY MakesRests
<1>3. ArchiveMade(heap, h1, h2, dir, f, w, x)
  BY <1>2 DEF MakesFor
<1>4. /\ DOMAIN h2 = DOMAIN h1 \cup {x} /\ Live(h2) = Live(h1) \cup {x} /\ Steady(heap, h2)
      /\ h2[x].kind = "nca" /\ Unowned(h2, x) /\ x \in DOMAIN h2
  BY <1>3 DEF ArchiveMade
<1>5. /\ DOMAIN h1 = DOMAIN heap \cup {f, w} /\ Live(h1) = Live(heap) \cup {f, w} /\ T \subseteq {f}
  BY <1>2 DEF Wrapped
<1>6. T = Trust(heap, games, tickets, services, Head(todo))
  BY DEF Makes, OpensSo, OpensFileFor
<1>7. TailOk(session, h2, games, tickets, services, C, x, f, w, e, p)
  <2>1. CASE OfFirmware(C, l, dir)
    <3>1. Later(C, "hos_disable") /\ p = <<[op |-> "service", nca |-> x, e |-> e],
            Call("content_archive_destroy", x)>>
      BY <2>1 DEF OfFirmware, Makes
    <3> QED BY <1>2, <3>1, TailServe
  <2>2. CASE OfPackage(C, l, dir, G)
    <3>1. /\ l \in Loaders(games) /\ G = Ground(heap, l) /\ Later(C, "nx_sys_destroy")
          /\ p = <<CallOn("list_push", l, x)>>
      BY <2>2 DEF OfPackage, Makes
    <3>2. Ground(h2, l) = G
      <4>1. l \in DOMAIN heap /\ heap[l].kind = "loader"
        BY ONLY <1>1, <3>1, LoaderFacts
      <4>2. Stable(heap, h2)
        BY <1>4 DEF Steady
      <4> QED BY <1>1, <3>1, <4>1, <4>2, GroundStays
    <3>3. GamesOk(h2, games)
      BY <1>2 DEF MadeStays
    <3>4. Rests(h2, games, tickets, services, C, x, f, w, Ground(h2, l))
      BY <1>2, <3>2
    <3>5. Later(C, "nx_sys_destroy") /\ l \in Loaders(games) /\ Unowned(h2, x)
      BY <1>4, <3>1
    <3> QED BY ONLY <3>1, <3>3, <3>4, <3>5, TailPush
  <2> QED BY <2>1, <2>2 DEF Makes, OpensSo
<1>8. q = Gets(x, e) \o p /\ R = q \o Tail(todo)
  BY DEF Makes
<1>9. AllOk(session, h2, games, tickets, services, C, x, f, w, e, q)
  BY ONLY <1>1, <1>4, <1>7, <1>8, AllTaken
<1>10. CreateIs(session, todo, heap, games, tickets, services, q, R, n, h1, h2, dir, f, w, x, e)
  BY <1>1, <1>2, <1>4, <1>5, <1>6, <1>8, <1>9 DEF CreateIs
<1> QED BY <1>10, CreateStep

\* ContentArchiveCreate keeps the invariant, and uses and closes only what is live.
LEMMA ContentArchiveCreateStep ==
  ASSUME Ok, ContentArchiveCreate
  PROVE  Ok' /\ fault' = fault
<1>1. PICK n, C, l, dir, e : Creates(n, C, l, dir, e)
  BY DEF Creates
<1>2. n = Len(todo) /\ C = After(todo, n) /\ l = Head(todo).owner /\ dir = Head(todo).dir
        /\ e = Head(todo).e
  BY <1>1 DEF Creates
<1>3. PICK f, h0 : f = ArchiveFile(dir, e.name) /\ h0 = WithArchiveFile(dir)
  OBVIOUS
<1>4. Calling("content_archive_create")
  BY DEF ContentArchiveCreate
<1>5. CreatesIn(n, C, l, dir, e) /\ \E T, B, G : OpensSo(C, l, dir, f, h0, T, B, G)
  BY <1>1, <1>3, <1>4, CreatesOpen
<1>6. PICK T, B, G : OpensSo(C, l, dir, f, h0, T, B, G)
  BY <1>5
<1>7. IsSequence(h0) /\ Len(h0) \in Nat
  <2>1. HeapOk(h0)
    BY <1>6 DEF OpensSo, OpensFileFor, OpensFile
  <2> QED BY <2>1, SequenceIs DEF HeapOk
<1>8. PICK h1 : h1 = IF e.encrypted THEN Append(h0, Aes(f)) ELSE h0
  OBVIOUS
<1>9. PICK x, w : x = Len(h1) + 1 /\ w = IF e.encrypted THEN x - 1 ELSE f
  OBVIOUS
<1>10. \/ h1 = h0 /\ w = f
       \/ h1 = Append(h0, Aes(f)) /\ w = Len(h0) + 1
  <2>1. CASE e.encrypted
    <3>1. Len(h1) = Len(h0) + 1
      BY <1>7, <1>8, <2>1, Behind
    <3> QED BY <1>7, <1>8, <1>9, <2>1, <3>1
  <2>2. CASE ~e.encrypted
    BY <1>8, <1>9, <2>2
  <2> QED BY <2>1, <2>2
<1>11. PICK p : p = IF l # None THEN <<CallOn("list_push", l, x)>>
                    ELSE <<[op |-> "service", nca |-> x, e |-> e],
                      Call("content_archive_destroy", x)>>
  OBVIOUS
<1>12. PICK q, R, h2 : q = Gets(x, e) \o p /\ R = q \o Tail(todo)
         /\ h2 = Append(h1, Inside(dir, Object("nca", w)))
  OBVIOUS
<1>13. \/ Quit
       \/ /\ heap' = h2 /\ Then(q) /\ SameLists
          /\ Use({dir} \cup IF f \in Objects THEN Chain(f) ELSE Chain(heap[dir].base))
  BY <1>2, <1>3, <1>8, <1>9, <1>11, <1>12 DEF ContentArchiveCreate, Arg, Gets
<1>14. CASE Quit
  BY <1>14, QuitStep
<1>15. CASE /\ heap' = h2 /\ Then(q) /\ SameLists
            /\ Use({dir} \cup IF f \in Objects THEN Chain(f) ELSE Chain(heap[dir].base))
  <2>1. Makes(C, l, dir, e, f, h0, T, B, G, w, h1, h2, x, p, q, R)
    BY <1>6, <1>9, <1>10, <1>11, <1>12 DEF Makes
  <2>2. StateOk(session, R, h2, games, tickets, services)
    BY <1>5, <2>1, MakesOk
  <2>3. session' = session /\ games' = games /\ tickets' = tickets /\ services' = services
          /\ todo' = R
    BY <1>12, <1>15 DEF SameLists, Same, Then
  <2>4. Ok'
    BY <1>15, <2>2, <2>3 DEF Ok
  <2>5. {dir} \cup (IF f \in Objects THEN Chain(f) ELSE Chain(heap[dir].base)) \subseteq Live(heap)
    BY <1>6 DEF OpensSo, OpensFileFor
  <2> QED BY <1>15, <2>4, <2>5, Unused
<1> QED BY <1>13, <1>14, <1>15

----------------------------------------------------------------------------
(* Services are freed *)

\* A step that puts calls before the others, and registers no service
Proceeds == services' = services /\ \E q : IsSequence(q) /\ Then(q)

\* Services stay to be freed if a call proceeds to others and adds none.
LEMMA EnabledStays ==
  ASSUME Ok, Enabled, NEW name, Calling(name), name # "hos_disable", Proceeds
  PROVE  Enabled'
<1>1. PICK q : IsSequence(q) /\ Then(q)
  BY DEF Proceeds
<1>2. PICK n : n = Len(todo)
  OBVIOUS
<1>3. todo # <<>> /\ Head(todo).op = name /\ IsSequence(todo) /\ n \in Nat \ {0}
        /\ At(todo, n) = Head(todo)
  BY <1>2, OkFacts
<1>4. PICK R : R = todo'
  OBVIOUS
<1>5. Puts(todo, q, R, n, Len(q))
  BY <1>1, <1>2, <1>3, <1>4, Pushing DEF Then
<1>6. SUFFICES ASSUME services # <<>> PROVE \E d \in Turns(R) : At(R, d).op = "hos_disable"
  BY <1>4 DEF Enabled, Proceeds
<1>7. PICK d \in Turns(todo) : At(todo, d).op = "hos_disable"
  BY <1>6 DEF Enabled
<1>8. d \in 1 .. n - 1
  BY <1>3, <1>5, <1>7 DEF Puts
<1>9. d \in Turns(R) /\ At(R, d) = At(todo, d)
  BY <1>3, <1>5, <1>8 DEF Puts
<1> QED BY <1>7, <1>9

\* The calls of an action are a sequence.
LEMMA SeqJoin ==
  ASSUME NEW p, NEW q, IsSequence(p), IsSequence(q)
  PROVE  IsSequence(p \o q)
BY Joining

\* A function over the places of a sequence is one.
LEMMA SeqEach ==
  ASSUME NEW s, IsSequence(s), NEW f, f = [i \in DOMAIN s |-> f[i]]
  PROVE  IsSequence(f)
<1>1. Len(s) \in Nat /\ DOMAIN s = 1 .. Len(s)
  BY SequenceIs
<1>2. DOMAIN f = 1 .. Len(s) /\ f = [i \in 1 .. Len(s) |-> f[i]]
  BY <1>1
<1> QED BY <1>1, <1>2, SequenceBy

\* So is every second element of one.
LEMMA SeqEverySecond ==
  ASSUME NEW s, IsSequence(s)
  PROVE  IsSequence(EverySecond(s))
<1>1. Len(s) \in Nat
  BY SequenceIs
<1>2. PICK n, f : n = (Len(s) + 1) \div 2 /\ f = EverySecond(s)
  OBVIOUS
<1>3. n \in Nat
  BY <1>1, <1>2
<1>4. f = [k \in 1 .. n |-> s[2 * k - 1]]
  BY <1>2 DEF EverySecond
<1>5. DOMAIN f = 1 .. n /\ f = [k \in 1 .. n |-> f[k]]
  BY <1>4
<1>6. IsSequence(f)
  BY <1>3, <1>5, SequenceBy
<1> QED BY <1>2, <1>6

\* The actions that make no calls ...
LEMMA NoCalls ==
  ASSUME Free \/ DirCloseFile \/ AddTicket \/ PushArchive
  PROVE  Proceeds
<1>1. Then(<<>>) /\ services' = services
  BY DEF Free, DirCloseFile, AddTicket, PushArchive, SameLists
<1> QED BY <1>1, Small DEF Proceeds

\* ... those that make a given number ...
LEMMA FewCalls ==
  ASSUME \/ FindKeys \/ HosCreate \/ LoadGame \/ NspAddFile \/ LoadTik \/ CloseWrapped
         \/ LoadFirstOne
  PROVE  Proceeds
<1>1. CASE FindKeys
  BY <1>1, Small DEF Proceeds, FindKeys, SameLists
<1>2. CASE HosCreate
  BY <1>2, Small DEF Proceeds, HosCreate, SameLists
<1>3. CASE LoadGame
  BY <1>3, Small DEF Proceeds, LoadGame
<1>4. CASE NspAddFile
  BY <1>4, Small DEF Proceeds, NspAddFile, SameLists
<1>5. CASE LoadTik
  BY <1>5, Small DEF Proceeds, LoadTik, SameLists
<1>6. CASE CloseWrapped
  BY <1>6, Small DEF Proceeds, CloseWrapped, SameLists
<1>7. CASE LoadFirstOne
  <2>1. PICK b, c, d : b = Call("hos_firmware_load", New) /\ c = Call("dir_close", New)
          /\ d = Op("hos_disable")
    OBVIOUS
  <2>2. Then(<<>>) \/ Then(<<>> \o <<c, d>>) \/ Then(<<b>> \o <<c, d>>)
    BY <1>7, <2>1 DEF LoadFirstOne
  <2>3. IsSequence(<<>>) /\ IsSequence(<<>> \o <<c, d>>) /\ IsSequence(<<b>> \o <<c, d>>)
    BY Small, SeqJoin
  <2> QED BY <1>7, <2>2, <2>3 DEF Proceeds, LoadFirstOne, SameLists
<1> QED BY <1>1, <1>2, <1>3, <1>4, <1>5, <1>6, <1>7

\* ... those that make some depending on what they find ...
LEMMA MoreCalls ==
  ASSUME Ok, NszAddFile \/ CloseArchive
  PROVE  Proceeds
<1>1. CASE NszAddFile
  <2>1. PICK n, l, pfs, e, bs, nf, C : NszFile(n, C, l, pfs, bs, nf, e)
    BY DEF NszFile
  <2>2. Calling("nsz_addfile")
    BY <1>1 DEF NszAddFile
  <2>3. NszFinds(n, C, l, pfs, bs, nf, e)
    BY <2>1, <2>2, NszFinding
  <2>4. Len(heap) \in Nat
    BY <2>3 DEF NszFinds
  <2>5. PICK x, y, file : x = Len(heap) + 1 /\ y = Len(heap) + 2 /\ file = Named(e.name, Offset(bs))
    OBVIOUS
  <2>6. PICK a, b, c : /\ c = CallOn("close_file", pfs, x)
                       /\ a = CallWith("content_archive_create", l, nf, e)
                       /\ b = Call("keys_db_add_ticket", y)
    OBVIOUS
  <2>7. NszMakes(n, C, l, pfs, bs, nf, e, x, y, file, a, b, c)
    BY <2>1, <2>4, <2>5, <2>6 DEF NszMakes
  <2>8. Then(<<a>>) \/ Then(<<a, c>>) \/ Then(<<b, c>>) \/ Then(<<c>>)
    BY <1>1, <2>7, NszDoes
  <2>9. \E q : IsSequence(q) /\ Then(q)
    BY <2>8, Small
  <2> QED BY <1>1, <2>9 DEF Proceeds, NszAddFile, SameLists
<1>2. CASE CloseArchive
  <2>1. PICK p, c : p = CloseOrder(Arg.x) /\ c = Call("free", Arg.x)
    OBVIOUS
  <2>2. IsSequence(p)
    BY <2>1, Small DEF CloseOrder
  <2>3. IsSequence(p \o <<c>>) /\ Then(p \o <<c>>)
    BY <1>2, <2>1, <2>2, Small, SeqJoin DEF CloseArchive
  <2> QED BY <1>2, <2>3 DEF Proceeds, CloseArchive, SameLists
<1> QED BY <1>1, <1>2

\* A process that quits keeps its services.
LEMMA QuitKeeps ==
  ASSUME Enabled, Quit
  PROVE  Enabled'
BY DEF Enabled, Quit

\* ... those that may quit ...
LEMMA OneMayQuit ==
  ASSUME GetFile \/ DestroyFile \/ CloseFile \/ GetLogo
  PROVE  Quit \/ Proceeds
<1>1. CASE GetFile
  <2>1. Quit \/ (Then(<<>>) /\ SameLists)
    BY <1>1 DEF GetFile
  <2> QED BY <2>1, Small DEF Proceeds, SameLists
<1>2. CASE DestroyFile
  <2>1. Quit \/ (Then(<<>>) /\ SameLists)
    BY <1>2 DEF DestroyFile
  <2> QED BY <2>1, Small DEF Proceeds, SameLists
<1>3. CASE CloseFile
  <2>1. Quit \/ (Then(<<>>) /\ SameLists)
    BY <1>3 DEF CloseFile
  <2> QED BY <2>1, Small DEF Proceeds, SameLists
<1>4. CASE GetLogo
  <2>1. Quit \/ (SameLists /\ \E a, b : Then(<<a, b>>))
    BY <1>4 DEF GetLogo
  <2> QED BY <2>1, Small DEF Proceeds, SameLists
<1> QED BY <1>1, <1>2, <1>3, <1>4

\* Calls made for each element of a sequence are one.
LEMMA SeqEachOf ==
  ASSUME NEW s, IsSequence(s), NEW name, NEW dir, NEW owner
  PROVE  IsSequence(Each(name, s)) /\ IsSequence(EachOn(name, dir, s))
         /\ IsSequence(EachWith(name, owner, dir, s))
BY EachFacts

\* ... those that make a call for each element of a list ...
LEMMA ListCalls ==
  ASSUME Ok, DirClose \/ ContentArchiveDestroy \/ LoaderDestroy
  PROVE  Proceeds
<1>1. CASE DirClose
  <2>1. Calling("dir_close")
    BY <1>1 DEF DirClose
  <2>2. HeapOk(heap) /\ IsCall(session, heap, games, Head(todo)) /\ Head(todo).op = "dir_close"
    BY <2>1, OkFacts
  <2>3. Head(todo).x \in DOMAIN heap
    BY <2>2 DEF IsCall
  <2>4. PICK s, c : s = heap[Head(todo).x].parts /\ c = Call("free", Head(todo).x)
    OBVIOUS
  <2>5. IsSequence(EverySecond(s))
    BY <2>2, <2>3, <2>4, ObjectFacts, SeqEverySecond
  <2>6. PICK q : q = EachOn("dir_close_file", Head(todo).x, EverySecond(s)) \o <<c>>
    OBVIOUS
  <2>7. IsSequence(q)
    BY <2>5, <2>6, SeqEachOf, Small, SeqJoin
  <2>8. Then(q) /\ services' = services
    BY <1>1, <2>4, <2>6 DEF DirClose, Arg, SameLists
  <2> QED BY <2>7, <2>8 DEF Proceeds
<1>2. CASE ContentArchiveDestroy
  <2>1. Calling("content_archive_destroy")
    BY <1>2 DEF ContentArchiveDestroy
  <2>2. HeapOk(heap) /\ IsCall(session, heap, games, Head(todo))
          /\ Head(todo).op = "content_archive_destroy"
    BY <2>1, OkFacts
  <2>3. PICK x : x = Head(todo).x
    OBVIOUS
  <2>4. x \in DOMAIN heap
    BY <2>2, <2>3 DEF IsCall
  <2>5. PICK p, q, c : /\ p = EachOn("destroy_file", x, heap[x].pfs_list)
                       /\ q = EachOn("destroy_file", x, heap[x].romfs_list)
                       /\ c = Call("close_archive", x)
    OBVIOUS
  <2>6. IsSequence(p) /\ IsSequence(q)
    BY <2>2, <2>4, <2>5, ObjectFacts, SeqEachOf
  <2>7. IsSequence((p \o q) \o <<c>>)
    BY <2>6, Small, SeqJoin
  <2>8. Then((p \o q) \o <<c>>) /\ services' = services
    BY <1>2, <2>3, <2>5 DEF ContentArchiveDestroy, Arg, SameLists
  <2> QED BY <2>7, <2>8 DEF Proceeds
<1>3. CASE LoaderDestroy
  <2>1. Calling("loader_destroy")
    BY <1>3 DEF LoaderDestroy
  <2>2. HeapOk(heap) /\ IsCall(session, heap, games, Head(todo)) /\ Head(todo).op = "loader_destroy"
    BY <2>1, OkFacts
  <2>3. PICK x, b, c : x = Head(todo).x /\ b = Call("destroy_package", x)
          /\ c = Call("free", Head(todo).dir)
    OBVIOUS
  <2>4. x \in DOMAIN heap
    BY <2>2, <2>3 DEF IsCall
  <2>5. PICK p : p = Each("content_archive_destroy", heap[x].parts)
    OBVIOUS
  <2>6. IsSequence(p)
    BY <2>2, <2>4, <2>5, ObjectFacts, SeqEachOf
  <2>7. IsSequence((p \o <<b>>) \o <<c>>)
    BY <2>6, Small, SeqJoin
  <2>8. Then((p \o <<b>>) \o <<c>>) /\ services' = services
    BY <1>3, <2>3, <2>5 DEF LoaderDestroy, DestroyOrder, Arg, SameLists
  <2> QED BY <2>7, <2>8 DEF Proceeds
<1> QED BY <1>1, <1>2, <1>3

\* ... for each file of a package ...
LEMMA PackageCalls ==
  ASSUME Ok, OnDisk, NspCreate \/ NszCreate
  PROVE  Proceeds
<1>1. CASE NspCreate
  <2>1. Calling("nsp")
    BY <1>1 DEF NspCreate
  <2>2. HeapOk(heap) /\ IsCall(session, heap, games, Head(todo)) /\ Head(todo).op = "nsp"
    BY <2>1, OkFacts
  <2>3. Head(todo).x \in DOMAIN session.games
    BY <2>2 DEF IsCall
  <2>4. PICK files, p, q : /\ files = session.games[Head(todo).x].files
                           /\ p = EachWith("load_tik", New + 1, New, files)
                           /\ q = EachWith("nsp_addfile", New + 1, New, files)
    OBVIOUS
  <2>5. IsSequence(files)
    BY <2>3, <2>4, FilesAre
  <2>6. IsSequence(p \o q)
    BY <2>4, <2>5, SeqEachOf, SeqJoin
  <2>7. Then(p \o q) /\ services' = services
    BY <1>1, <2>4 DEF NspCreate, NspOrder, Arg
  <2> QED BY <2>6, <2>7 DEF Proceeds
<1>2. CASE NszCreate
  <2>1. Calling("nsz")
    BY <1>2 DEF NszCreate
  <2>2. HeapOk(heap) /\ IsCall(session, heap, games, Head(todo)) /\ Head(todo).op = "nsz"
    BY <2>1, OkFacts
  <2>3. Head(todo).x \in DOMAIN session.games
    BY <2>2 DEF IsCall
  <2>4. PICK files, p : /\ files = session.games[Head(todo).x].files
                        /\ p = EachWith("nsz_addfile", New + 2, New, files)
    OBVIOUS
  <2>5. IsSequence(files)
    BY <2>3, <2>4, FilesAre
  <2>6. IsSequence(p)
    BY <2>4, <2>5, SeqEachOf
  <2>7. Then(p) /\ services' = services
    BY <1>2, <2>4 DEF NszCreate, Arg
  <2> QED BY <2>6, <2>7 DEF Proceeds
<1> QED BY <1>1, <1>2

\* ... for each game and each archive of the firmware ...
LEMMA LoadCalls ==
  ASSUME Ok, OnDisk, GetAllLoaders \/ HosFirmwareLoad
  PROVE  Proceeds
<1>1. CASE GetAllLoaders
  <2>1. PICK d, s, c : d = New /\ s = session.games /\ c = Call("dir_close", d)
    OBVIOUS
  <2>2. IsSequence(s)
    BY <2>1, SessionsAssumption DEF OnDisk
  <2>3. PICK p : p = [i \in DOMAIN s |-> CallOn("load_game", d, i)]
    OBVIOUS
  <2>4. p = [i \in DOMAIN s |-> p[i]]
    BY <2>3
  <2>5. IsSequence(p)
    BY <2>2, <2>4, SeqEach
  <2>6. IsSequence(p \o <<c>>)
    BY <2>5, Small, SeqJoin
  <2>7. Then(p \o <<c>>) /\ services' = services
    BY <1>1, <2>1, <2>3 DEF GetAllLoaders, SameLists
  <2> QED BY <2>6, <2>7 DEF Proceeds
<1>2. CASE HosFirmwareLoad
  <2>1. Calling("hos_firmware_load")
    BY <1>2 DEF HosFirmwareLoad
  <2>2. IsCall(session, heap, games, Head(todo)) /\ Head(todo).op = "hos_firmware_load"
    BY <2>1, OkFacts
  <2>3. session.firmware # <<>>
    BY <2>2 DEF IsCall
  <2>4. PICK s : s = session.firmware[1]
    OBVIOUS
  <2>5. IsSequence(s)
    BY <2>3, <2>4, FirmwareIs
  <2>6. PICK zip, f : zip = Len(WithHostFile(Head(todo).x, "firmware.zip")) + 1
          /\ f = HostFile(Head(todo).x, "firmware.zip")
    OBVIOUS
  <2>7. PICK p, b, c : /\ p = EachWith("content_archive_create", None, zip, s)
                       /\ b = Call("free", zip)
                       /\ c = CallOn("dir_close_file", Head(todo).x, f)
    OBVIOUS
  <2>8. IsSequence(p \o <<b, c>>)
    BY <2>5, <2>7, SeqEachOf, Small, SeqJoin
  <2>9. Then(p \o <<b, c>>) /\ services' = services
    BY <1>2, <2>4, <2>6, <2>7 DEF HosFirmwareLoad, Arg, SameLists
  <2> QED BY <2>8, <2>9 DEF Proceeds
<1> QED BY <1>1, <1>2

\* ... and for all there is.
LEMMA EndCalls ==
  ASSUME Ok, Logos \/ DestroyPackage \/ NxSysDestroy
  PROVE  Proceeds
<1>0. IsSequence(games) /\ IsSequence(tickets) /\ HeapOk(heap)
  BY DEF Ok, StateOk, ListsOk, GamesOk, ListOk
<1>1. CASE Logos
  <2>1. PICK p : p = [i \in DOMAIN games |-> Call("loader_get_logo", games[i].loader)]
    OBVIOUS
  <2>2. p = [i \in DOMAIN games |-> p[i]]
    BY <2>1
  <2>3. IsSequence(p)
    BY <1>0, <2>2, SeqEach
  <2>4. Then(p) /\ services' = services
    BY <1>1, <2>1 DEF Logos, SameLists
  <2> QED BY <2>3, <2>4 DEF Proceeds
<1>2. CASE NxSysDestroy
  <2>1. PICK p, q : /\ p = [i \in DOMAIN games |-> CallOn("loader_destroy", games[i].file,
                         games[i].loader)]
                    /\ q = Each("free", tickets)
    OBVIOUS
  <2>2. p = [i \in DOMAIN games |-> p[i]]
    BY <2>1
  <2>3. IsSequence(p) /\ IsSequence(q)
    BY <1>0, <2>1, <2>2, SeqEach, SeqEachOf
  <2>4. Then(p \o q) /\ services' = services
    BY <1>2, <2>1 DEF NxSysDestroy, SameLists
  <2> QED BY <2>3, <2>4, SeqJoin DEF Proceeds
<1>3. CASE DestroyPackage
  <2>1. Calling("destroy_package")
    BY <1>3 DEF DestroyPackage
  <2>2. IsCall(session, heap, games, Head(todo)) /\ Head(todo).op = "destroy_package"
    BY <2>1, OkFacts
  <2>3. PICK x, y : x = Head(todo).x /\ y = heap[x].base
    OBVIOUS
  <2>4. x \in DOMAIN heap /\ heap[x].kind = "loader"
    BY <2>2, <2>3 DEF IsCall
  <2>5. PICK a, b, c : a = Call("free", heap[x].dir) /\ b = Call("free", x) /\ c = Call("free", y)
    OBVIOUS
  <2>6. CASE y = None
    <3>1. Then(<<>> \o <<a, b>>) /\ services' = services
      BY <1>3, <2>3, <2>5, <2>6 DEF DestroyPackage, Arg, SameLists
    <3> QED BY <3>1, Small, SeqJoin DEF Proceeds
  <2>7. CASE y # None
    <3>1. y \in DOMAIN heap
      BY <1>0, <2>3, <2>4, <2>7, LoaderParts
    <3>2. PICK p : p = EachOn("close_file", y, EverySecond(heap[y].parts))
      OBVIOUS
    <3>3. IsSequence(EverySecond(heap[y].parts))
      BY <1>0, <3>1, ObjectFacts, SeqEverySecond
    <3>4. IsSequence(p)
      BY <3>2, <3>3, SeqEachOf
    <3>5. IsSequence((p \o <<c>>) \o <<a, b>>)
      BY <3>4, Small, SeqJoin
    <3>6. Then((p \o <<c>>) \o <<a, b>>) /\ services' = services
      BY <1>3, <2>3, <2>5, <2>7, <3>2 DEF DestroyPackage, Arg, SameLists
    <3> QED BY <3>5, <3>6 DEF Proceeds
  <2> QED BY <2>6, <2>7
<1> QED BY <1>1, <1>2, <1>3

\* content_archive_create quits, or makes calls.
LEMMA CreateCalls ==
  ASSUME Ok, ContentArchiveCreate
  PROVE  Quit \/ Proceeds
<1>1. Calling("content_archive_create")
  BY DEF ContentArchiveCreate
<1>2. IsCall(session, heap, games, Head(todo)) /\ Head(todo).op = "content_archive_create"
  BY <1>1, OkFacts
<1>3. PICK e, l : e = Head(todo).e /\ l = Head(todo).owner
  OBVIOUS
<1>4. IsSequence(e.sections)
  BY <1>2, <1>3 DEF IsCall, IsArchive
<1>5. Quit \/ \E x : /\ services' = services
                     /\ Then(Gets(x, e) \o (IF l # None THEN <<CallOn("list_push", l, x)>>
                             ELSE <<[op |-> "service", nca |-> x, e |-> e],
                               Call("content_archive_destroy", x)>>))
  BY <1>3 DEF ContentArchiveCreate, Arg, SameLists, Gets
<1>6. ASSUME NEW x, services' = services,
             Then(Gets(x, e) \o (IF l # None THEN <<CallOn("list_push", l, x)>>
                    ELSE <<[op |-> "service", nca |-> x, e |-> e],
                      Call("content_archive_destroy", x)>>))
      PROVE  Proceeds
  <2>1. PICK p, q : p = Gets(x, e) /\ q = IF l # None THEN <<CallOn("list_push", l, x)>>
                    ELSE <<[op |-> "service", nca |-> x, e |-> e],
                      Call("content_archive_destroy", x)>>
    OBVIOUS
  <2>2. p = [i \in DOMAIN e.sections |-> p[i]]
    BY <2>1 DEF Gets
  <2>3. IsSequence(p)
    BY <1>4, <2>2, SeqEach
  <2>4. IsSequence(q)
    <3>1. CASE l # None
      BY <2>1, <3>1, Small
    <3>2. CASE l = None
      BY <2>1, <3>2, Small
    <3> QED BY <3>1, <3>2
  <2>5. Then(p \o q)
    BY <1>6, <2>1
  <2> QED BY <1>6, <2>3, <2>4, <2>5, SeqJoin DEF Proceeds
<1> QED BY <1>5, <1>6

\* Service adds one when hos_disable is still to come.
LEMMA ServiceEnabled ==
  ASSUME Ok, Service
  PROVE  Enabled'
<1>1. Calling("service")
  BY DEF Service
<1>2. PICK n : n = Len(todo)
  OBVIOUS
<1>3. /\ IsPlaced(heap, games, tickets, services, Head(todo), After(todo, n))
      /\ Head(todo).op = "service"
      /\ todo # <<>> /\ IsSequence(todo) /\ n \in Nat \ {0}
  BY <1>1, <1>2, OkFacts
<1>4. PICK d \in 1 .. n - 1 : At(todo, d).op = "hos_disable"
  BY <1>3 DEF IsPlaced, Later, After
<1>5. PICK q : IsSequence(q) /\ Then(q)
  BY Small DEF Service
<1>6. PICK R : R = todo'
  OBVIOUS
<1>7. Puts(todo, q, R, n, Len(q))
  BY <1>2, <1>3, <1>5, <1>6, Pushing DEF Then
<1>8. d \in Turns(R) /\ At(R, d) = At(todo, d)
  BY <1>3, <1>4, <1>7 DEF Puts
<1> QED BY <1>4, <1>6, <1>8 DEF Enabled

\* Every step keeps services to be freed.
LEMMA EnabledStep ==
  ASSUME Ok, Enabled, OnDisk, Next
  PROVE  Enabled'
<1>1. CASE Service
  BY <1>1, ServiceEnabled
<1>2. CASE HosDisable
  BY <1>2 DEF HosDisable, Enabled
<1>3. CASE Quit
  BY <1>3, QuitKeeps
<1>4. ASSUME NEW name, Calling(name), name # "hos_disable", Proceeds PROVE Enabled'
  BY <1>4, EnabledStays
<1>5. CASE Free \/ DirCloseFile \/ AddTicket \/ PushArchive
  <2>1. Proceeds
    BY <1>5, NoCalls
  <2> QED BY <1>4, <1>5, <2>1 DEF Free, DirCloseFile, AddTicket, PushArchive
<1>6. CASE FindKeys \/ HosCreate \/ LoadGame \/ NspAddFile \/ LoadTik \/ CloseWrapped
           \/ LoadFirstOne
  <2>1. Proceeds
    BY <1>6, FewCalls
  <2> QED BY <1>4, <1>6, <2>1 DEF FindKeys, HosCreate, LoadGame, NspAddFile, LoadTik,
             CloseWrapped, LoadFirstOne
<1>7. CASE NszAddFile \/ CloseArchive
  <2>1. Proceeds
    BY <1>7, MoreCalls
  <2> QED BY <1>4, <1>7, <2>1 DEF NszAddFile, CloseArchive
<1>8. CASE GetFile \/ DestroyFile \/ CloseFile \/ GetLogo
  <2>1. Quit \/ Proceeds
    BY <1>8, OneMayQuit
  <2> QED BY <1>3, <1>4, <1>8, <2>1 DEF GetFile, DestroyFile, CloseFile, GetLogo
<1>9. CASE DirClose \/ ContentArchiveDestroy \/ LoaderDestroy
  <2>1. Proceeds
    BY <1>9, ListCalls
  <2> QED BY <1>4, <1>9, <2>1 DEF DirClose, ContentArchiveDestroy, LoaderDestroy
<1>10. CASE NspCreate \/ NszCreate
  <2>1. Proceeds
    BY <1>10, PackageCalls
  <2> QED BY <1>4, <1>10, <2>1 DEF NspCreate, NszCreate
<1>11. CASE GetAllLoaders \/ HosFirmwareLoad
  <2>1. Proceeds
    BY <1>11, LoadCalls
  <2> QED BY <1>4, <1>11, <2>1 DEF GetAllLoaders, HosFirmwareLoad
<1>12. CASE Logos \/ DestroyPackage \/ NxSysDestroy
  <2>1. Proceeds
    BY <1>12, EndCalls
  <2> QED BY <1>4, <1>12, <2>1 DEF Logos, DestroyPackage, NxSysDestroy
<1>13. CASE ContentArchiveCreate
  <2>1. Quit \/ Proceeds
    BY <1>13, CreateCalls
  <2> QED BY <1>3, <1>4, <1>13, <2>1 DEF ContentArchiveCreate
<1> QED BY <1>1, <1>2, <1>5, <1>6, <1>7, <1>8, <1>9, <1>10, <1>11, <1>12, <1>13 DEF Next

----------------------------------------------------------------------------
(* The invariant *)

\* The inductive invariant.
SessionInv == Ok /\ Enabled /\ OnDisk /\ fault = {}

\* The first calls
LEMMA FiveCalls ==
  ASSUME NEW a, NEW b, NEW c, NEW d, NEW e, NEW t, t = <<a, b, c, d, e>>
  PROVE  /\ IsSequence(t) /\ Turns(t) = 1 .. 5
         /\ At(t, 5) = a /\ At(t, 4) = b /\ At(t, 3) = c /\ At(t, 2) = d /\ At(t, 1) = e
<1>1. t \in Seq({a, b, c, d, e}) /\ Len(t) = 5
  OBVIOUS
<1>2. IsSequence(t)
  BY <1>1, SequenceOf
<1>3. t[1] = a /\ t[2] = b /\ t[3] = c /\ t[4] = d /\ t[5] = e
  OBVIOUS
<1>4. 5 + 1 - 5 = 1 /\ 5 + 1 - 4 = 2 /\ 5 + 1 - 3 = 3 /\ 5 + 1 - 2 = 4 /\ 5 + 1 - 1 = 5
  OBVIOUS
<1> QED BY <1>1, <1>2, <1>3, <1>4 DEF Turns, At

\* The calls of Init.
Begins(t) ==
  t = <<Op("hos_create"), Op("nx_get_all_loaders"), Op("nx_load_first_one"), Op("logos"),
    Op("nx_sys_destroy")>>

\* One by one.
Beginning(t) ==
  /\ IsSequence(t) /\ Turns(t) = 1 .. 5
  /\ At(t, 5).op = "hos_create" /\ At(t, 4).op = "nx_get_all_loaders"
  /\ At(t, 3).op = "nx_load_first_one"
  /\ At(t, 2).op = "logos" /\ At(t, 1).op = "nx_sys_destroy"

\* The five calls the program begins with ...
LEMMA BeginningIs ==
  ASSUME NEW t, Begins(t)
  PROVE  Beginning(t)
<1>1. PICK a, b, c, d, e : /\ a = Op("hos_create") /\ b = Op("nx_get_all_loaders")
                           /\ c = Op("nx_load_first_one")
                           /\ d = Op("logos") /\ e = Op("nx_sys_destroy")
  OBVIOUS
<1>2. t = <<a, b, c, d, e>>
  BY <1>1 DEF Begins
<1>3. /\ IsSequence(t) /\ Turns(t) = 1 .. 5
      /\ At(t, 5) = a /\ At(t, 4) = b /\ At(t, 3) = c /\ At(t, 2) = d /\ At(t, 1) = e
  BY <1>2, FiveCalls
<1>4. a.op = "hos_create" /\ b.op = "nx_get_all_loaders" /\ c.op = "nx_load_first_one"
        /\ d.op = "logos" /\ e.op = "nx_sys_destroy"
  BY <1>1 DEF Op
<1> QED BY <1>3, <1>4 DEF Beginning

\* ... are in order, in their places and trusted with nothing.
LEMMA FirstCalls ==
  ASSUME NEW t, Beginning(t), NEW ses, NEW h, NEW g, NEW k, NEW s, h = <<>>, g = <<>>, k = <<>>,
         s = <<>>
  PROVE  CallsOk(ses, t, h, g, k, s) /\ \A d \in Turns(t) : Trust(h, g, k, s, At(t, d)) = {}
<1>1. \A d \in Turns(t) : At(t, d).op \in {"hos_create", "nx_get_all_loaders",
        "nx_load_first_one", "logos", "nx_sys_destroy"}
  BY DEF Beginning
<1>2. Range(<<>>) = {} /\ DOMAIN <<>> = {}
  BY Nothing, TakesNone
<1>3. ASSUME NEW d \in Turns(t) PROVE IsCall(ses, h, g, At(t, d)) /\ IsReady(h, k, At(t, d))
  BY <1>1 DEF IsCall, IsReady, Ops, OpsOfPackages
<1>4. ASSUME NEW d \in Turns(t) PROVE Trust(h, g, k, s, At(t, d)) = {}
  <2>1. CASE At(t, d).op = "nx_sys_destroy"
    BY <1>2, <2>1 DEF Trust
  <2>2. CASE At(t, d).op # "nx_sys_destroy"
    BY <1>1, <2>2 DEF Trust
  <2> QED BY <2>1, <2>2
<1>5. ASSUME NEW d \in Turns(t) PROVE IsPlaced(h, g, k, s, At(t, d), After(t, d))
  <2>1. d \in 1 .. 5
    BY DEF Beginning
  <2>2. d # 1 => 1 \in 1 .. d - 1
    BY <2>1
  <2>3. d # 1 => Later(After(t, d), "nx_sys_destroy")
    BY <2>2 DEF Later, After, Beginning
  <2>4. d = 1 => At(t, d).op = "nx_sys_destroy"
    BY DEF Beginning
  <2>5. CASE At(t, d).op \in {"nx_get_all_loaders", "logos"}
    BY <2>3, <2>4, <2>5 DEF IsPlaced, OpsOfPackages
  <2>6. CASE At(t, d).op \notin {"nx_get_all_loaders", "logos"}
    BY <1>1, <2>6 DEF IsPlaced, OpsOfPackages
  <2> QED BY <2>5, <2>6
<1>6. InOrder(t)
  <2>1. \A d \in 1 .. 5 : Level(At(t, d).op) = d
    BY Levels DEF Beginning
  <2>2. ASSUME NEW e \in Turns(t), NEW d \in 1 .. e - 1 PROVE Above(At(t, d).op, At(t, e).op)
    <3>1. e \in 1 .. 5 /\ d \in 1 .. 5 /\ d < e
      BY DEF Beginning
    <3> QED BY <2>1, <3>1 DEF Above
  <2> QED BY <2>2 DEF InOrder
<1>7. Opening(t, g)
  BY <1>1, <1>2 DEF Opening
<1>8. Apart(t)
  <2>1. ASSUME NEW e \in Turns(t), NEW d \in 1 .. e - 1 PROVE Differ(At(t, d), At(t, e))
    BY <1>1 DEF Differ
  <2> QED BY <2>1 DEF Apart
<1>9. Serving(t, h)
  BY <1>1 DEF Serving
<1>10. IsSequence(t)
  BY DEF Beginning
<1> QED BY <1>3, <1>4, <1>5, <1>6, <1>7, <1>8, <1>9, <1>10 DEF CallsOk

\* The invariant holds at first ...
LEMMA InitOk ==
  ASSUME Init
  PROVE  SessionInv
<1>1. Begins(todo) /\ heap = <<>> /\ games = <<>> /\ tickets = <<>> /\ services = <<>>
        /\ session \in Sessions /\ fault = {}
  BY DEF Init, Begins
<1>2. Beginning(todo)
  BY <1>1, BeginningIs
<1>3. /\ CallsOk(session, todo, heap, games, tickets, services)
      /\ \A d \in Turns(todo) : Trust(heap, games, tickets, services, At(todo, d)) = {}
  BY <1>1, <1>2, FirstCalls
<1>4. Range(<<>>) = {} /\ DOMAIN <<>> = {} /\ IsSequence(<<>>) /\ IsInjective(<<>>)
  BY Nothing, TakesNone
<1>5. HeapOk(heap)
  BY <1>1, <1>4 DEF HeapOk, OwnedOnce
<1>6. ListsOk(heap, games, tickets, services)
  BY <1>1, <1>4 DEF ListsOk, GamesOk, ListOk
<1>7. Live(heap) = {}
  BY <1>1, <1>4 DEF Live
<1>8. TrustOk(todo, heap, games, tickets, services)
  <2>1. \A e \in Turns(todo) : \A d \in 1 .. e - 1 : d \in Turns(todo)
    BY <1>2 DEF Beginning
  <2> QED BY <1>1, <1>3, <1>4, <1>7, <2>1 DEF TrustOk
<1> QED BY <1>1, <1>3, <1>5, <1>6, <1>8 DEF SessionInv, Ok, StateOk, Enabled, OnDisk

\* ... its main part is kept by every action ...
LEMMA NextOk ==
  ASSUME Ok, Enabled, OnDisk, Next
  PROVE  Ok' /\ fault' = fault
BY FreeStep, DirCloseFileStep, DirCloseStep, FindKeysStep, HosCreateStep, GetAllLoadersStep,
   LoadGameStep, NspCreateStep,
   NszCreateStep, LoadTikStep, NspAddFileStep, AddTicketStep, NszAddFileStep,
   ContentArchiveCreateStep, PushArchiveStep,
   GetFileStep, ContentArchiveDestroyStep, DestroyFileStep, CloseArchiveStep, CloseWrappedStep,
   CloseFileStep,
   LoadFirstOneStep, HosFirmwareLoadStep, ServiceStep, HosDisableStep, LogosStep, GetLogoStep,
   LoaderDestroyStep,
   DestroyPackageStep, NxSysDestroyStep DEF Next

\* ... none of which changes what is on disk ...
LEMMA DiskSame ==
  ASSUME Next
  PROVE  session' = session
BY DEF Next, Free, DirCloseFile, DirClose, FindKeys, HosCreate, GetAllLoaders, LoadGame,
   NspCreate, NszCreate, LoadTik,
   NspAddFile, AddTicket, NszAddFile, ContentArchiveCreate, PushArchive, GetFile,
   ContentArchiveDestroy, DestroyFile,
   CloseArchive, CloseWrapped, CloseFile, LoadFirstOne, HosFirmwareLoad, Service, HosDisable,
   Logos, GetLogo,
   LoaderDestroy, DestroyPackage, NxSysDestroy, Quit, SameLists, Same

\* ... so that it is kept by every step.
LEMMA StepOk ==
  ASSUME SessionInv, [Next]_vars
  PROVE  SessionInv'
<1>1. CASE Next
  <2>1. Ok' /\ fault' = fault
    BY <1>1, NextOk DEF SessionInv
  <2>2. Enabled'
    BY <1>1, EnabledStep DEF SessionInv
  <2>3. OnDisk'
    BY <1>1, DiskSame DEF SessionInv, OnDisk
  <2> QED BY <2>1, <2>2, <2>3 DEF SessionInv
<1>2. CASE UNCHANGED vars
  BY <1>2 DEF vars, SessionInv, Ok, Enabled, OnDisk
<1> QED BY <1>1, <1>2

\* What the invariant says of the properties
LEMMA ReadableIs ==
  ASSUME Ok
  PROVE  DirectoriesReadable
<1>1. HeapOk(heap) /\ TrustOk(todo, heap, games, tickets, services) /\ IsSequence(todo)
  BY DEF Ok, StateOk, CallsOk
<1>2. SUFFICES ASSUME NEW i \in Objects, heap[i].live, heap[i].kind \in {"pfs", "romfs", "zip"}
               PROVE  \A j \in Chain(i) : heap[j].live
  BY DEF DirectoriesReadable
<1>3. i \in Live(heap)
  BY <1>2 DEF Live, Objects
<1>4. ~Dropped(heap, tickets, i)
  BY <1>2 DEF Dropped
<1>5. PICK d \in Turns(todo) : i \in Trust(heap, games, tickets, services, At(todo, d))
  BY <1>1, <1>3, <1>4 DEF TrustOk
<1>6. Whole(heap, games, tickets, services, At(todo, d), i)
  BY <1>2, <1>5 DEF Whole
<1>7. Chain(i) \subseteq Live(heap)
  BY <1>1, <1>2, <1>6, ChainLive
<1> QED BY <1>7 DEF Live

\* With no call to be made nothing is trusted to one: all is closed but dropped tickets.
LEMMA NothingLeftIs ==
  ASSUME Ok
  PROVE  NothingLeftOpen
<1>1. HeapOk(heap) /\ TrustOk(todo, heap, games, tickets, services) /\ ListOk(heap, tickets, "tik")
  BY DEF Ok, StateOk, ListsOk
<1>2. SUFFICES ASSUME todo = <<>>, NEW i \in Objects, heap[i].live
               PROVE  /\ heap[i].kind = "tik"
                      /\ \E j \in 1 .. i - 1 : heap[j].kind = "tik" /\ heap[j].path = heap[i].path
  BY DEF NothingLeftOpen
<1>3. i \in Live(heap) /\ i \in DOMAIN heap
  BY <1>2 DEF Live, Objects
<1>4. Turns(todo) = {}
  BY <1>2 DEF Turns
<1>5. Dropped(heap, tickets, i)
  BY <1>1, <1>3, <1>4 DEF TrustOk
<1>6. PICK j \in Range(tickets) : j < i /\ heap[j].path = heap[i].path
  BY <1>5 DEF Dropped
<1>7. j \in DOMAIN heap /\ heap[j].kind = "tik"
  BY <1>1, <1>6 DEF ListOk, IsAlone
<1>8. i \in Nat /\ j \in Nat /\ DOMAIN heap = 1 .. Len(heap) /\ Len(heap) \in Nat
  BY <1>1, <1>3, <1>7, ObjectFacts
<1>9. j \in 1 .. i - 1
  BY <1>6, <1>7, <1>8
<1> QED BY <1>5, <1>6, <1>7, <1>9 DEF Dropped

\* The inductive invariant holds in every state.
THEOREM SessionInvariant == Spec => []SessionInv
<1>1. Init => SessionInv
  BY InitOk
<1>2. SessionInv /\ [Next]_vars => SessionInv'
  BY StepOk
<1> QED BY <1>1, <1>2, PTL DEF Spec

\* No session, whatever its packages and firmware, reads, closes or frees an object that was
\* closed: archives go before their directories, files below wrappers before the wrappers, and
\* no handle twice.
THEOREM NothingUsedAfterClose == Spec => []NoUseAfterClose
<1>1. SessionInv => NoUseAfterClose
  BY DEF SessionInv, NoUseAfterClose
<1> QED BY <1>1, SessionInvariant, PTL

\* Every directory that is open can be read, down to the mapped game or the host file: what a
\* live object lies over is in the trust of a call that is made no sooner.
THEOREM DirectoriesStayReadable == Spec => []DirectoriesReadable
<1>1. SessionInv => DirectoriesReadable
  BY ReadableIs DEF SessionInv
<1> QED BY <1>1, SessionInvariant, PTL

\* A session that ends by itself has closed all it opened, but for tickets that were known when
\* they were loaded.
THEOREM EverythingIsClosed == Spec => []NothingLeftOpen
<1>1. SessionInv => NothingLeftOpen
  BY NothingLeftIs DEF SessionInv
<1> QED BY <1>1, SessionInvariant, PTL
==============================================================================
