----------------------------- MODULE ArchivesMC -----------------------------
EXTENDS Archives

Section(fs, ctr, icon) == [fs |-> fs, ctr |-> ctr, icon |-> icon]
Logo == Section("pfs", FALSE, FALSE)
Code == Section("pfs", TRUE, FALSE)
Data == Section("romfs", TRUE, FALSE)
Icon(ctr) == Section("romfs", ctr, TRUE)

Tik(t) == [kind |-> "tik", name |-> "tik", ticket |-> t]
Other == [kind |-> "other", name |-> "cert"]
Nca(kind, name, encrypted, rights, sections) ==
  [kind |-> kind, name |-> name, encrypted |-> encrypted, rights |-> rights,
   sections |-> sections, svt |-> FALSE]

Program(kind, rights) == Nca(kind, "program", TRUE, rights, <<Logo, Code, Data>>)
Control(kind, encrypted) == Nca(kind, "control", encrypted, NoName, <<Icon(encrypted), Logo>>)
Meta == Nca("cnmt", "meta", FALSE, NoName, <<Logo>>)

Packages(kinds) ==
  { <<Tik("t1"), Program(k, "t1"), Control(l, TRUE), Meta>> : k \in kinds, l \in kinds }
  \cup { <<Program(k, r), Other, Control(l, FALSE), Tik("t1")>> : k \in kinds, l \in {"nca"}, r \in {"t1", "t2", NoName} }
  \cup { <<Meta, Program(k, NoName)>> : k \in kinds }
  \cup { <<Tik("t2"), Control(k, TRUE), Tik("t1"), Program(k, "t2")>> : k \in kinds }

Games == [type : {"nsp"}, files : Packages({"nca"})] \cup [type : {"nsz"}, files : Packages({"nca", "ncz"})]

Version(encrypted) ==
  [Nca("nca", "version", encrypted, NoName, <<Section("romfs", FALSE, FALSE)>>) EXCEPT !.svt = TRUE]
Firmwares == {<<>>, << <<Meta, Version(FALSE)>> >>, << <<Version(TRUE)>> >>}

SessionsMC ==
  [games : {<<>>} \cup { <<g>> : g \in Games } \cup { <<g, h>> : g \in Games, h \in Games },
   firmware : Firmwares]
=============================================================================
