------------------------------- MODULE Corpus -------------------------------
(***************************************************************************)
(* A Story Plotter export: its file format (Parse of internal/data/        *)
(* loader.go, Marshal of writer.go), its types (types.go) and its lookups  *)
(* (loader.go, internal/tools/common.go).                                  *)
(*                                                                         *)
(* A text is a member of Text; what the code asks of texts is given by     *)
(* four functions.  Letters on which strings.EqualFold and strings.ToLower *)
(* disagree are left out.  A list element's "texts" are the values of its  *)
(* fields that the search tool looks at; fields no tool reads are left out.*)
(***************************************************************************)
EXTENDS Integers, Selection, SequencesExt

CONSTANTS
    Text,
    Empty,              \* ""
    Unnamed,            \* "Unnamed Character"
    Main,               \* "main"
    Key,                \* keys of charParam, "char_name" among them
    NoParam,            \* for a key the map does not have
    Has,                \* the texts each text contains
    Under,              \* the texts that start with a text and "/"
    AsciiLower,         \* toLower of loader.go, which lowers A to Z only
    Lower,              \* strings.ToLower
    Opaque,             \* collections of what no tool looks into
    ParseError,
    Absent, Null, Bad   \* JSON in a string: no field or "", "null", malformed

Param == [name : Text, value : Text, silent : BOOLEAN, sort : Int]

ASSUME TextAssumption ==
    /\ {Empty, Unnamed, Main} \subseteq Text
    /\ Has \in [Text -> SUBSET Text] /\ Under \in [Text -> SUBSET Text]
    /\ AsciiLower \in [Text -> Text] /\ Lower \in [Text -> Text]
    /\ Unnamed # Empty
    /\ "char_name" \in Key /\ IsFiniteSet(Key) /\ NoParam \notin Param
    /\ \A s \in Text :
          /\ {Empty, s} \subseteq Has[s]
          /\ Lower[Lower[s]] = Lower[s] /\ Lower[AsciiLower[s]] = Lower[s]
          /\ \A t \in Has[s] : Has[t] \subseteq Has[s] /\ Lower[t] \in Has[Lower[s]]

-----------------------------------------------------------------------------
(* Types.                                                                  *)

Character == [priority : Text, params : [Key -> Param \cup {NoParam}]]

Item == [texts : SUBSET Text]

Plot == [title : Text, subtitle : Text, folder : Text, status : Text, tags : Seq(Text) \cup {Absent, Null, Bad},
         chars : Seq(Character),
         rels : Seq([from : Int, to : Int, texts : SUBSET Text]),
         eras : Seq([title : Text, texts : SUBSET Text]),
         events : Seq([era : Int, texts : SUBSET Text]),
         units : Seq([texts : SUBSET Text, cards : Seq(Item)]),
         areas : Seq(Item)]

\* Of the collections, no tool looks into any but the plots.
Export == [memos : Opaque \cup {Null}, tagColors : Opaque \cup {Null},
           plots : Seq(Plot) \cup {Null}, folders : Opaque \cup {Null}]

\* What a file may hold, besides Bad for one that is no object of strings.
Envelope == [memos : Opaque \cup {Absent, Null, Bad}, tagColors : Opaque \cup {Absent, Null, Bad},
             plots : Seq(Plot) \cup {Absent, Null, Bad}, folders : Opaque \cup {Absent, Null, Bad}]

ASSUME JSONAssumption ==
    /\ << >> \in Opaque
    /\ \A x \in {Absent, Null, Bad} : x \notin Opaque /\ x \notin Seq(Plot)
    /\ Absent # Null /\ Absent # Bad /\ Null # Bad
    /\ Bad \notin Envelope /\ ParseError \notin Export

\* Plot.Tags: a list that cannot be read is no list.
Tags(p) == IF p.tags \in {Absent, Null, Bad} THEN << >> ELSE p.tags

\* Go's nil slices and maps are empty ones to whoever reads them.
OrEmpty(x) == IF x = Null THEN << >> ELSE x

-----------------------------------------------------------------------------
(* The file: four collections, each JSON in a string.                      *)

\* Mutant of Decoded: an absent collection stays as it is in the file.
DecodedAsIs(f, default) == f

\* A field that is absent keeps the value Export was made with.
Decoded(f, default) == IF f = Absent THEN default ELSE f

Parse(file) ==
    IF file = Bad \/ \E k \in DOMAIN file : file[k] = Bad
      THEN ParseError
      ELSE [memos |-> Decoded(file.memos, Null),
            tagColors |-> Decoded(file.tagColors, << >>),
            plots |-> Decoded(file.plots, Null),
            folders |-> Decoded(file.folders, Null)]

\* Mutant of Marshal: the folders are not written.
MarshalWithoutFolders(e) ==
    [k \in DOMAIN e |-> IF k = "folders" THEN << >> ELSE OrEmpty(e[k])]

\* Nil collections are written as empty ones.
Marshal(e) == [k \in DOMAIN e |-> OrEmpty(e[k])]

Plots(e) == OrEmpty(e.plots)

-----------------------------------------------------------------------------
(* Characters.                                                             *)

Params(c) == {k \in Key : c.params[k] # NoParam}

\* Field of a character; the empty text when it has none of that name.
Field(c, k) == IF c.params[k] = NoParam THEN Empty ELSE c.params[k].value

Name(c) == IF Field(c, "char_name") = Empty THEN Unnamed ELSE Field(c, "char_name")

-----------------------------------------------------------------------------
(* Lookups.  They return a position, which is 0 where the code returns nil.*)

Includes(s, t) == t \in Has[s]
IncludesFold(s, q) == q = Empty \/ Includes(Lower[s], Lower[q])
EqualFold(s, t) == Lower[s] = Lower[t]

\* The positions whose element passes a test.
Where(s, Test(_)) == Kept([i \in DOMAIN s |-> i], [i \in DOMAIN s |-> Test(s[i])])

\* Mutant of FindPlot: the first title that contains the text, exact or not.
FindPlotFuzzy(e, title) ==
    SelectInSeq(Plots(e), LAMBDA p : Includes(AsciiLower[p.title], AsciiLower[title]))

FindPlot(e, title) ==
    LET exact == SelectInSeq(Plots(e), LAMBDA p : p.title = title)
    IN  IF exact # 0 THEN exact
        ELSE SelectInSeq(Plots(e), LAMBDA p : Includes(AsciiLower[p.title], AsciiLower[title]))

FindPlotsByFolder(e, folder) ==
    LET exact == Where(Plots(e), LAMBDA p : p.folder = folder)
    IN  IF folder = Empty THEN << >>
        ELSE IF exact # << >> THEN exact
        ELSE Where(Plots(e), LAMBDA p : Includes(AsciiLower[p.folder], AsciiLower[folder]))

FindCharacter(p, name) ==
    LET exact == SelectInSeq(p.chars, LAMBDA c : Name(c) = name)
    IN  IF exact # 0 THEN exact
        ELSE SelectInSeq(p.chars, LAMBDA c : Includes(Lower[Name(c)], Lower[name]))
=============================================================================
