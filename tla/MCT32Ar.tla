------------------------------ MODULE MCT32Ar -------------------------------
(***************************************************************************)
(* Two paths of one base name and a third; an object that exports a text   *)
(* and an absolute symbol next to a local and an undefined one, one that   *)
(* exports a data symbol of the same name, and one that has the magic      *)
(* bytes and nothing t32-ar can index.                                     *)
(***************************************************************************)
EXTENDS T32Ar

MCPaths == {"x.o", "lib/x.o", "y.o"}
MCBase == [p \in MCPaths |-> IF p = "y.o" THEN "y.o" ELSE "x.o"]

Null == [name |-> "", section |-> 0, binding |-> 0, sound |-> TRUE]
Symbol(name, section, binding) ==
    [name |-> name, section |-> section, binding |-> binding, sound |-> TRUE]
Section(type, flags) == [type |-> type, flags |-> flags, sound |-> TRUE]
Object(symbols) ==
    [magic |-> TRUE, header |-> TRUE, major |-> 1, flags |-> 1, fits |-> Tables,
     sections |-> <<Section("NULL", {}), Section("PROGBITS", {"A", "X"}),
                    Section("PROGBITS", {"A", "W"}), Section("NOBITS", {"A", "W"})>>,
     symbols |-> <<Null>> \o symbols,
     relocations |-> <<[section |-> 1, symbol |-> 1, sound |-> TRUE]>>]

Text == Object(<<Symbol("f", 1, 1), Symbol("k", Absolute, 1),
                 Symbol("l", 1, 0), Symbol("g", 0, 1)>>)
Data == Object(<<Symbol("f", 2, 1), Symbol("b", 3, 0)>>)
Stub == [Text EXCEPT !.major = 2]
MCObjects == {Text, Data, Stub}
MCTorn == [Text EXCEPT !.header = FALSE]
=============================================================================
