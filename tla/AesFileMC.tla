----------------------------- MODULE AesFileMC -----------------------------
(* Blocks of four bytes, sectors of eight.  Three header sectors and a body of *)
(* three, which is encrypted in two sections of different length; file systems *)
(* that start at a sector, at a block and inside one; files in them that start *)
(* at several places of a block, and reads over up to four blocks.             *)
EXTENDS AesFile

SectionsMC == << [offset |-> 24, size |-> 8], [offset |-> 32, size |-> 16] >>
BasesMC == { [sector_offset |-> 3, sector_pad |-> pad] : pad \in {0, 2, 4} }
ViewsMC == { [start |-> 0, size |-> 13] } \cup { [start |-> s, size |-> 9] : s \in {1, 6} }
=============================================================================
