------------------------------- MODULE T32Obj -------------------------------
(***************************************************************************)
(* T32OBJ files as two tools of the toolchain read them: t32-nm, which     *)
(* validates everything and classifies symbols, and t32-ar, which looks    *)
(* only at what its symbol index needs.                                    *)
(*                                                                         *)
(* An object is a record: magic, header (it has its 48 bytes), major,      *)
(* flags, fits (the tables that lie inside the file), and the sections,    *)
(* symbols and relocations the tables hold.  sound stands for the checks   *)
(* of one table entry that concern nothing else: reserved fields, a power  *)
(* of two, a data range.  A name is NoName when its offset is outside the  *)
(* string table or no NUL follows it.                                      *)
(***************************************************************************)
EXTENDS Integers, SequencesExt

CONSTANTS NoName, Absolute    \* T32OBJ_SHN_ABS

Tables == {"sections", "symbols", "relocations", "strings"}

-----------------------------------------------------------------------------
(***************************************************************************)
(* t32-nm.                                                                 *)
(***************************************************************************)
SoundSection(section, i) ==
    /\ section.sound
    /\ IF i = 1 THEN section.type = "NULL" /\ section.flags = {}
                ELSE section.type \in {"PROGBITS", "NOBITS"}

SoundSymbol(o, symbol) ==
    /\ symbol.sound
    /\ symbol.name # NoName
    /\ symbol.binding \in {0, 1}
    /\ symbol.section = Absolute \/ symbol.section \in 0 .. Len(o.sections) - 1

SoundRelocation(o, relocation) ==
    /\ relocation.sound
    /\ relocation.section \in 1 .. Len(o.sections) - 1
    /\ relocation.symbol \in 0 .. Len(o.symbols) - 1

\* parse_object: the file is listed, or nothing of it is.
Valid(o) ==
    /\ o.header /\ o.magic /\ o.major = 1 /\ o.flags = 1
    /\ o.sections # << >> /\ o.symbols # << >>
    /\ o.fits = Tables
    /\ \A i \in DOMAIN o.sections : SoundSection(o.sections[i], i)
    /\ \A i \in DOMAIN o.symbols : SoundSymbol(o, o.symbols[i])
    /\ \A i \in DOMAIN o.relocations : SoundRelocation(o, o.relocations[i])

\* symbol_letter, as a class and whether the letter is a capital.
SymbolLetter(o, symbol) ==
    LET section == o.sections[symbol.section + 1]
        class == CASE symbol.section = Absolute -> "A"
                   [] section.type = "NOBITS" -> "B"
                   [] "X" \in section.flags -> "T"
                   [] "W" \in section.flags -> "D"
                   [] OTHER -> "R"
    IN  IF symbol.section = 0 THEN [class |-> "U", capital |-> TRUE]
        ELSE [class |-> class, capital |-> symbol.binding = 1]

\* print_symbols: every symbol but the null one.
Listing(o) ==
    {[name |-> o.symbols[i].name, letter |-> SymbolLetter(o, o.symbols[i])] :
        i \in 2 .. Len(o.symbols)}

-----------------------------------------------------------------------------
(***************************************************************************)
(* t32-ar.                                                                 *)
(***************************************************************************)
\* Defect: undefined symbols are indexed too.
ExportsUndefined(symbol) == symbol.binding = 1

\* collect_symbols_from_object: local and undefined symbols are passed over.
Exports(symbol) == symbol.binding = 1 /\ symbol.section # 0

\* Its loop starts behind the null symbol.
ExportedSymbols(o) ==
    FlattenSeq([i \in 1 .. Len(o.symbols) - 1 |->
        IF Exports(o.symbols[i + 1]) THEN <<o.symbols[i + 1]>> ELSE << >>])

\* The object can be indexed: obj_string finds each exported name.
Indexable(o) ==
    /\ o.header /\ o.magic /\ o.major = 1
    /\ "symbols" \in o.fits
    /\ \A i \in DOMAIN ExportedSymbols(o) :
          "strings" \in o.fits /\ ExportedSymbols(o)[i].name \notin {NoName, ""}
=============================================================================
