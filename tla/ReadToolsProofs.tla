-------------------------- MODULE ReadToolsProofs ---------------------------
(***************************************************************************)
(* What is proved of the corpus and its lookups, for every set of texts    *)
(* and every corpus.                                                       *)
(***************************************************************************)
EXTENDS ReadTools, CollectionLemmas, FiniteSetTheorems

-----------------------------------------------------------------------------
(* Parse and Marshal.                                                      *)

\* What Parse returns is a corpus.
LEMMA ParseReturnsExport ==
    ASSUME NEW f \in Envelope \cup {Bad}, Parse(f) # ParseError
    PROVE  Parse(f) \in Export
<1>1. f # Bad /\ f \in Envelope /\ \A k \in DOMAIN f : f[k] # Bad
  BY DEF Parse
<1>2. /\ f.memos \in Opaque \cup {Absent, Null} /\ f.tagColors \in Opaque \cup {Absent, Null}
      /\ f.plots \in Seq(Plot) \cup {Absent, Null} /\ f.folders \in Opaque \cup {Absent, Null}
  BY <1>1 DEF Envelope
<1>3. /\ Decoded(f.memos, Null) \in Opaque \cup {Null}
      /\ Decoded(f.tagColors, << >>) \in Opaque \cup {Null}
      /\ Decoded(f.plots, Null) \in Seq(Plot) \cup {Null}
      /\ Decoded(f.folders, Null) \in Opaque \cup {Null}
  BY <1>2, JSONAssumption DEF Decoded
<1>. QED BY <1>1, <1>3 DEF Parse, Export

\* Marshal writes a well-formed file without nulls.
LEMMA MarshalWritesEnvelope ==
    ASSUME NEW e \in Export
    PROVE  /\ Marshal(e) = [memos |-> OrEmpty(e.memos), tagColors |-> OrEmpty(e.tagColors),
                            plots |-> OrEmpty(e.plots), folders |-> OrEmpty(e.folders)]
           /\ OrEmpty(e.memos) \in Opaque /\ OrEmpty(e.tagColors) \in Opaque
           /\ OrEmpty(e.plots) \in Seq(Plot) /\ OrEmpty(e.folders) \in Opaque
<1>1. DOMAIN e = {"memos", "tagColors", "plots", "folders"}
  BY DEF Export
<1>2. /\ e.memos \in Opaque \cup {Null} /\ e.tagColors \in Opaque \cup {Null}
      /\ e.plots \in Seq(Plot) \cup {Null} /\ e.folders \in Opaque \cup {Null}
  BY DEF Export
<1>3. << >> \in Opaque /\ << >> \in Seq(Plot)
  BY JSONAssumption
<1>4. /\ OrEmpty(e.memos) \in Opaque /\ OrEmpty(e.tagColors) \in Opaque
      /\ OrEmpty(e.plots) \in Seq(Plot) /\ OrEmpty(e.folders) \in Opaque
  BY <1>2, <1>3 DEF OrEmpty
<1>5. Marshal(e) = [memos |-> OrEmpty(e.memos), tagColors |-> OrEmpty(e.tagColors),
                    plots |-> OrEmpty(e.plots), folders |-> OrEmpty(e.folders)]
  <2>. DEFINE g(x) == OrEmpty(x)
  <2>1. Marshal(e) = [k \in {"memos", "tagColors", "plots", "folders"} |-> g(e[k])]
    BY <1>1 DEF Marshal
  <2>. HIDE DEF g
  <2>2. [k \in {"memos", "tagColors", "plots", "folders"} |-> g(e[k])]
          = [memos |-> g(e.memos), tagColors |-> g(e.tagColors),
             plots |-> g(e.plots), folders |-> g(e.folders)]
    OBVIOUS
  <2>. QED BY <2>1, <2>2 DEF g
<1>. QED BY <1>4, <1>5

\* Parse gives back what Marshal wrote.
LEMMA ParseOfMarshal ==
    ASSUME NEW e \in Export
    PROVE  Parse(Marshal(e)) = Marshal(e)
<1>. DEFINE a == OrEmpty(e.memos)  b == OrEmpty(e.tagColors)
            p == OrEmpty(e.plots)  d == OrEmpty(e.folders)
            f == Marshal(e)
<1>1. /\ f = [memos |-> a, tagColors |-> b, plots |-> p, folders |-> d]
      /\ a \in Opaque /\ b \in Opaque /\ p \in Seq(Plot) /\ d \in Opaque
  BY MarshalWritesEnvelope
<1>. HIDE DEF a, b, p, d, f
<1>2. \A x \in {Absent, Bad} : a # x /\ b # x /\ p # x /\ d # x
  BY <1>1, JSONAssumption
<1>3. f \in Envelope
  BY <1>1 DEF Envelope
<1>4. f # Bad /\ \A k \in DOMAIN f : f[k] # Bad
  <2>1. f # Bad
    BY <1>3, JSONAssumption
  <2>2. ASSUME NEW k \in DOMAIN f PROVE f[k] # Bad
    BY <1>1, <1>2
  <2>. QED BY <2>1, <2>2
<1>5. /\ Decoded(f.memos, Null) = a /\ Decoded(f.tagColors, << >>) = b
      /\ Decoded(f.plots, Null) = p /\ Decoded(f.folders, Null) = d
  BY <1>1, <1>2 DEF Decoded
<1>6. Parse(f) = f
  BY <1>1, <1>4, <1>5 DEF Parse
<1>. QED BY <1>6 DEF f

\* The file stays one of the files there are.
Known == file \in Envelope \cup {Bad}

LEMMA KnownAlways == Spec => []Known
<1>1. Init => Known
  BY ReadToolsAssumption DEF Init, Known
<1>2. Known /\ [Next]_vars => Known'
  <2>1. [Next]_vars => UNCHANGED file
    BY DEF Next, vars, ListPlots, GetPlot, ListCharacters, GetCharacter, ListRelationships,
           ListEras, ListEvents, Search, GenerateContext, Malformed, Return, Serve
  <2>. QED BY <2>1 DEF Known
<1>. QED BY <1>1, <1>2, PTL DEF Spec

\* Saving a corpus that was read loses none of its collections and leaves a file
\* that parses to the same again, whatever the file left out or had as null
\* (writer.go, Marshal: "Inverse of Parse").
THEOREM RoundTripHolds == Spec => []RoundTrip
<1>1. Known => RoundTrip
  <2>. SUFFICES ASSUME Known, Loaded # ParseError
                PROVE  LET again == Parse(Marshal(Loaded)) IN
                       /\ again # ParseError
                       /\ \A k \in DOMAIN Loaded : OrEmpty(again[k]) = OrEmpty(Loaded[k])
    BY DEF RoundTrip
  <2>1. Loaded \in Export
    BY ParseReturnsExport DEF Loaded, Known
  <2>. DEFINE e == Loaded
  <2>. HIDE DEF e
  <2>2. e \in Export
    BY <2>1 DEF e
  <2>3. Parse(Marshal(e)) = Marshal(e)
    BY <2>2, ParseOfMarshal
  <2>4. Marshal(e) \in Export
    BY <2>2, MarshalWritesEnvelope DEF Export
  <2>5. ASSUME NEW k \in DOMAIN e PROVE OrEmpty(Marshal(e)[k]) = OrEmpty(e[k])
    BY DEF Marshal, OrEmpty
  <2>6. Marshal(e) # ParseError
    BY <2>4, JSONAssumption
  <2>. QED BY <2>3, <2>5, <2>6 DEF e
<1>. QED BY <1>1, KnownAlways, PTL

-----------------------------------------------------------------------------
(* Lookups.                                                                *)

\* A nonempty set of positions has a first one, and Min is it.
LEMMA FirstPosition ==
    ASSUME NEW S, S \subseteq Nat, S # {}
    PROVE  Min(S) \in S /\ \A y \in S : Min(S) <= y
<1>1. PICK x \in S : \A y \in S : x <= y
  BY LeastOf
<1>. QED BY <1>1 DEF Min

\* Of positions of a sequence: either there is none, or the first is one.
LEMMA FirstOfSequence ==
    ASSUME NEW n \in Nat, NEW S, S \subseteq 1..n
    PROVE  LET x == IF S # {} THEN Min(S) ELSE 0 IN
           /\ x # 0 => x \in S
           /\ x = 0 => S = {}
           /\ \A i : S = {i} => x = i
<1>1. S \subseteq Nat /\ 0 \notin S
  OBVIOUS
<1>2. S # {} => Min(S) \in S
  BY <1>1, FirstPosition
<1>. QED BY <1>1, <1>2

LEMMA PlotsIsSeq ==
    ASSUME NEW e \in Export
    PROVE  Plots(e) \in Seq(Plot)
<1>1. e.plots \in Seq(Plot) \cup {Null}
  BY DEF Export
<1>. QED BY <1>1 DEF Plots, OrEmpty

\* FindPlot returns 0 or a position, whose plot's title contains the text when
\* both are lowered the way search lowers them (loader.go:51-64, where toLower
\* lowers ASCII letters only; common.go, containsFold).
THEOREM FoundPlotMatches ==
    ASSUME NEW e \in Export, NEW title \in Text, FindPlot(e, title) # 0
    PROVE  /\ FindPlot(e, title) \in DOMAIN Plots(e)
           /\ IncludesFold(Plots(e)[FindPlot(e, title)].title, title)
<1>. DEFINE ps == Plots(e)
            E == {i \in 1..Len(ps) : ps[i].title = title}
            F == {i \in 1..Len(ps) : Includes(AsciiLower[ps[i].title], AsciiLower[title])}
            x == IF E # {} THEN Min(E) ELSE 0
            y == IF F # {} THEN Min(F) ELSE 0
            found == FindPlot(e, title)
<1>1. found = IF x # 0 THEN x ELSE y
  BY DEF FindPlot, SelectInSeq
<1>2. ps \in Seq(Plot) /\ Len(ps) \in Nat /\ DOMAIN ps = 1..Len(ps)
  BY PlotsIsSeq
<1>. HIDE DEF ps, x, y, found
<1>3. (x # 0 => x \in E) /\ (y # 0 => y \in F)
  BY <1>2, FirstOfSequence DEF x, y
<1>4. found \in E \cup F
  <2>1. found # 0
    BY DEF found
  <2>. QED BY <1>1, <1>3, <2>1
<1>5. found \in DOMAIN ps
  BY <1>2, <1>4
<1>6. ps[found].title \in Text
  <2>1. ps[found] \in Plot
    BY <1>2, <1>5
  <2>. QED BY <2>1 DEF Plot
<1>. DEFINE t == ps[found].title
<1>. HIDE DEF t
<1>7. t \in Text /\ (t = title \/ AsciiLower[title] \in Has[AsciiLower[t]])
  BY <1>4, <1>6 DEF t, Includes
<1>8. Lower[title] \in Has[Lower[t]]
  <2>1. CASE t = title
    <3>1. Lower[t] \in Text
      BY <1>7, TextAssumption
    <3>. QED BY <3>1, <2>1, TextAssumption
  <2>2. CASE AsciiLower[title] \in Has[AsciiLower[t]]
    <3>1. AsciiLower[t] \in Text /\ AsciiLower[title] \in Text
      BY <1>7, TextAssumption
    <3>2. Lower[AsciiLower[title]] \in Has[Lower[AsciiLower[t]]]
      BY <3>1, <2>2, TextAssumption
    <3>. QED BY <3>2, <1>7, TextAssumption
  <2>. QED BY <1>7, <2>1, <2>2
<1>9. IncludesFold(t, title)
  BY <1>8 DEF IncludesFold, Includes
<1>. QED BY <1>5, <1>9 DEF ps, found, t

\* A title no other plot has is found whatever the other titles contain: the
\* exact match comes first (loader.go:52-56).
THEOREM OwnTitleFindsPlot ==
    ASSUME NEW e \in Export, NEW i \in DOMAIN Plots(e),
           \A j \in DOMAIN Plots(e) \ {i} : Plots(e)[j].title # Plots(e)[i].title
    PROVE  FindPlot(e, Plots(e)[i].title) = i
<1>. DEFINE ps == Plots(e)
            title == ps[i].title
            E == {j \in 1..Len(ps) : ps[j].title = title}
            x == IF E # {} THEN Min(E) ELSE 0
<1>1. x # 0 => FindPlot(e, title) = x
  BY DEF FindPlot, SelectInSeq
<1>2. Len(ps) \in Nat /\ DOMAIN ps = 1..Len(ps)
  BY PlotsIsSeq
<1>3. E = {i}
  BY <1>2
<1>. HIDE DEF ps, title, E
<1>4. E \subseteq 1..Len(ps)
  BY DEF E
<1>5. x = i
  BY <1>2, <1>3, <1>4, FirstOfSequence
<1>6. i # 0
  BY <1>2 DEF ps
<1>. QED BY <1>1, <1>5, <1>6 DEF title, ps

\* A name no other character of the plot has finds its character, although the
\* names of earlier ones may contain it (common.go:61-74).
THEOREM OwnNameFindsCharacter ==
    ASSUME NEW p \in Plot, NEW i \in DOMAIN p.chars,
           \A j \in DOMAIN p.chars \ {i} : Name(p.chars[j]) # Name(p.chars[i])
    PROVE  FindCharacter(p, Name(p.chars[i])) = i
<1>. DEFINE cs == p.chars
            name == Name(cs[i])
            E == {j \in 1..Len(cs) : Name(cs[j]) = name}
            x == IF E # {} THEN Min(E) ELSE 0
<1>1. x # 0 => FindCharacter(p, name) = x
  BY DEF FindCharacter, SelectInSeq
<1>2. Len(cs) \in Nat /\ DOMAIN cs = 1..Len(cs)
  <2>1. cs \in Seq(Character)
    BY DEF Plot
  <2>. QED BY <2>1
<1>3. E = {i}
  BY <1>2
<1>. HIDE DEF cs, name, E
<1>4. E \subseteq 1..Len(cs)
  BY DEF E
<1>5. x = i
  BY <1>2, <1>3, <1>4, FirstOfSequence
<1>6. i # 0
  BY <1>2 DEF cs
<1>. QED BY <1>1, <1>5, <1>6 DEF name, cs

\* The types of what a plot and a character are made of.
LEMMA PlotTypes ==
    ASSUME NEW p \in Plot
    PROVE  /\ p.title \in Text /\ p.subtitle \in Text
           /\ p.chars \in Seq(Character)
           /\ p.rels \in Seq([from : Int, to : Int, texts : SUBSET Text])
           /\ p.eras \in Seq([title : Text, texts : SUBSET Text])
           /\ p.events \in Seq([era : Int, texts : SUBSET Text])
           /\ p.units \in Seq([texts : SUBSET Text, cards : Seq(Item)])
           /\ p.areas \in Seq(Item)
BY DEF Plot

LEMMA NameIsText ==
    ASSUME NEW c \in Character
    PROVE  Name(c) \in Text
<1>1. c.params \in [Key -> Param \cup {NoParam}]
  BY DEF Character
<1>2. Field(c, "char_name") \in Text
  <2>1. c.params["char_name"] \in Param \cup {NoParam}
    BY <1>1, TextAssumption
  <2>. QED BY <2>1, TextAssumption DEF Field, Param
<1>. QED BY <1>2, TextAssumption DEF Name

\* findCharacter returns 0 or a position, whose character's name contains the
\* text as search understands it (common.go:61-74, containsFold).
THEOREM FoundCharacterMatches ==
    ASSUME NEW p \in Plot, NEW name \in Text, FindCharacter(p, name) # 0
    PROVE  /\ FindCharacter(p, name) \in DOMAIN p.chars
           /\ IncludesFold(Name(p.chars[FindCharacter(p, name)]), name)
<1>. DEFINE cs == p.chars
            E == {i \in 1..Len(cs) : Name(cs[i]) = name}
            F == {i \in 1..Len(cs) : Includes(Lower[Name(cs[i])], Lower[name])}
            x == IF E # {} THEN Min(E) ELSE 0
            y == IF F # {} THEN Min(F) ELSE 0
            found == FindCharacter(p, name)
<1>1. found = IF x # 0 THEN x ELSE y
  BY DEF FindCharacter, SelectInSeq
<1>2. /\ cs \in Seq(Character) /\ Len(cs) \in Nat /\ DOMAIN cs = 1..Len(cs)
      /\ \A i \in 1..Len(cs) : cs[i] \in Character
  BY PlotTypes, LenProperties
<1>. HIDE DEF cs, x, y, found
<1>3. (x # 0 => x \in E) /\ (y # 0 => y \in F)
  BY <1>2, FirstOfSequence DEF x, y
<1>4. found \in E \cup F
  <2>1. found # 0
    BY DEF found
  <2>. QED BY <1>1, <1>3, <2>1
<1>5. found \in DOMAIN cs /\ Name(cs[found]) \in Text
  BY <1>2, <1>4, NameIsText
<1>. DEFINE t == Name(cs[found])
<1>. HIDE DEF t
<1>6. t \in Text /\ (t = name \/ Lower[name] \in Has[Lower[t]])
  BY <1>4, <1>5 DEF t, Includes
<1>7. Lower[name] \in Has[Lower[t]]
  <2>1. Lower[t] \in Text
    BY <1>6, TextAssumption
  <2>. QED BY <1>6, <2>1, TextAssumption
<1>8. IncludesFold(t, name)
  BY <1>7 DEF IncludesFold, Includes
<1>. QED BY <1>5, <1>8 DEF cs, found, t

-----------------------------------------------------------------------------
(* Which handler an answer is from.                                        *)

LEMMA Served ==
    ASSUME NEW c, NEW answers, Serve(c, answers), answer'.error = ""
    PROVE  /\ call' = c /\ answer' \in answers
           /\ Loaded' = Loaded /\ Loaded # ParseError
<1>1. Parse(file) # ParseError
  <2>. SUFFICES ASSUME Parse(file) = ParseError PROVE FALSE
    OBVIOUS
  <2>1. answer' = Error("load data")
    BY DEF Serve
  <2>. QED BY <2>1 DEF Error
<1>2. call' = c /\ answer' \in answers /\ file' = file
  BY <1>1 DEF Serve
<1>. QED BY <1>1, <1>2 DEF Loaded

LEMMA LoadedIsExport ==
    ASSUME Known, Loaded # ParseError
    PROVE  Loaded \in Export
BY ParseReturnsExport DEF Known, Loaded

\* An answer that is no error comes from the handler of the tool called.
LEMMA AnsweredByHandler ==
    ASSUME Next, call' # NoCall, answer'.error = ""
    PROVE  \/ /\ call'.tool = "list_plots"
              /\ \E folder, status, tag \in Query : ListPlots(folder, status, tag)
           \/ /\ call'.tool = "get_plot"
              /\ \E title \in Query : GetPlot(title)
           \/ /\ call'.tool = "list_characters"
              /\ \E plot, priority \in Query : ListCharacters(plot, priority)
           \/ /\ call'.tool = "get_character"
              /\ \E plot, name \in Query : GetCharacter(plot, name)
           \/ /\ call'.tool = "list_relationships"
              /\ \E plot, name \in Query : ListRelationships(plot, name)
           \/ call'.tool = "list_eras"
           \/ /\ call'.tool = "list_events"
              /\ \E plot, era \in Query : ListEvents(plot, era)
           \/ call'.tool = "search"
           \/ /\ call'.tool = "generate_context"
              /\ \E plot, focus \in Query, targets \in Targets, n \in Tokens :
                    GenerateContext(plot, focus, targets, n)
<1>1. ASSUME NEW folder \in Query, NEW status \in Query, NEW tag \in Query,
             ListPlots(folder, status, tag)
      PROVE  call'.tool = "list_plots"
  BY <1>1 DEF ListPlots, Serve
<1>2. ASSUME NEW title \in Query, GetPlot(title)
      PROVE  call'.tool = "get_plot"
  BY <1>2 DEF GetPlot, Serve
<1>3. ASSUME NEW plot \in Query, NEW priority \in Query, ListCharacters(plot, priority)
      PROVE  call'.tool = "list_characters"
  BY <1>3 DEF ListCharacters, Serve
<1>4. ASSUME NEW plot \in Query, NEW name \in Query, GetCharacter(plot, name)
      PROVE  call'.tool = "get_character"
  BY <1>4 DEF GetCharacter, Serve
<1>5. ASSUME NEW plot \in Query, NEW name \in Query, ListRelationships(plot, name)
      PROVE  call'.tool = "list_relationships"
  BY <1>5 DEF ListRelationships, Serve
<1>6. ASSUME NEW plot \in Query, ListEras(plot)
      PROVE  call'.tool = "list_eras"
  BY <1>6 DEF ListEras, Serve
<1>7. ASSUME NEW plot \in Query, NEW era \in Query, ListEvents(plot, era)
      PROVE  call'.tool = "list_events"
  BY <1>7 DEF ListEvents, Serve
<1>8. ASSUME NEW query \in Query, NEW scope \in Scope, Search(query, scope)
      PROVE  call'.tool = "search"
  BY <1>8 DEF Search, Serve
<1>9. ASSUME NEW plot \in Query, NEW focus \in Query, NEW targets \in Targets,
             NEW n \in Tokens, GenerateContext(plot, focus, targets, n)
      PROVE  call'.tool = "generate_context"
  BY <1>9 DEF GenerateContext, Serve
<1>10. ASSUME NEW tool \in Tool, Malformed(tool)
       PROVE  FALSE
  <2>1. answer' = Error("load data") \/ answer' = Error("invalid arguments")
    BY <1>10 DEF Malformed
  <2>2. Error("load data").error = "load data"
        /\ Error("invalid arguments").error = "invalid arguments"
    BY DEF Error
  <2>. QED BY <2>1, <2>2
<1>11. ~Return
  BY DEF Return
<1>. QED BY <1>1, <1>2, <1>3, <1>4, <1>5, <1>6, <1>7, <1>8, <1>9, <1>10, <1>11 DEF Next

-----------------------------------------------------------------------------
(* What is listed can be fetched.                                          *)

\* list_plots lists positions of plots.
LEMMA ListedPlots ==
    ASSUME Known, Next, Answered("list_plots")'
    PROVE  /\ Loaded' = Loaded /\ Loaded \in Export
           /\ ToSet(answer'.shown) \subseteq DOMAIN Plots(Loaded)
<1>0. call' # NoCall /\ call'.tool = "list_plots" /\ answer'.error = ""
  BY DEF Answered
<1>1. PICK folder, status, tag \in Query : ListPlots(folder, status, tag)
  BY <1>0, AnsweredByHandler
<1>. DEFINE answers ==
       {Ok(Where(Plots(Loaded), LAMBDA p :
              /\ folder # Empty => p.folder = folder \/ p.folder \in Under[folder]
              /\ status # Empty => p.status = status
              /\ tag # Empty => \E t \in ToSet(Tags(p)) : EqualFold(t, tag)))}
<1>2. \E keep : answers = {Ok(Kept([i \in DOMAIN Plots(Loaded) |-> i], keep))}
  BY DEF Where
<1>3. Serve([tool |-> "list_plots", folder |-> folder, status |-> status, tag |-> tag], answers)
  BY <1>1 DEF ListPlots
<1>. HIDE DEF answers
<1>4. answer' \in answers /\ Loaded' = Loaded /\ Loaded # ParseError
  BY <1>0, <1>3, Served
<1>5. Loaded \in Export
  BY <1>4, LoadedIsExport
<1>6. Len(Plots(Loaded)) \in Nat /\ DOMAIN Plots(Loaded) = 1..Len(Plots(Loaded))
  BY <1>5, PlotsIsSeq
<1>7. PICK keep : answer' = Ok(Kept([i \in 1..Len(Plots(Loaded)) |-> i], keep))
  BY <1>2, <1>4, <1>6
<1>8. answer'.shown = Kept([i \in 1..Len(Plots(Loaded)) |-> i], keep)
  BY <1>7 DEF Ok
<1>9. ToSet(answer'.shown) = {i \in 1..Len(Plots(Loaded)) : keep[i]}
  BY <1>6, <1>8, KeptPositions
<1>. QED BY <1>4, <1>5, <1>6, <1>9

\* The positions of characters, plot by plot, are what they claim to be.
LEMMA CharacterPositions ==
    ASSUME NEW ps \in Seq(Plot), NEW plots
    PROVE  LET Of(i) == [j \in 1..Len(ps[i].chars) |-> << i, j >>]
               all == FlattenSeq([i \in DOMAIN ps |-> IF i \in plots THEN Of(i) ELSE << >>])
           IN  /\ all \in Seq(Nat \X Nat)
               /\ \A ij \in ToSet(all) : ij[1] \in DOMAIN ps /\ ij[2] \in DOMAIN ps[ij[1]].chars
<1>. DEFINE Of(i) == [j \in 1..Len(ps[i].chars) |-> << i, j >>]
            part(i) == IF i \in plots THEN Of(i) ELSE << >>
            parts == [i \in DOMAIN ps |-> part(i)]
<1>1. Len(ps) \in Nat /\ DOMAIN ps = 1..Len(ps) /\ \A i \in 1..Len(ps) : ps[i] \in Plot
  BY LenProperties
<1>2. ASSUME NEW i \in 1..Len(ps)
      PROVE  /\ part(i) \in Seq(Nat \X Nat)
             /\ \A ij \in ToSet(part(i)) : ij[1] = i /\ ij[2] \in DOMAIN ps[i].chars
  <2>1. Len(ps[i].chars) \in Nat /\ DOMAIN ps[i].chars = 1..Len(ps[i].chars)
    BY <1>1, PlotTypes, LenProperties
  <2>2. Of(i) \in Seq(Nat \X Nat) /\ DOMAIN Of(i) = 1..Len(ps[i].chars)
    BY <1>1, <2>1
  <2>3. \A ij \in ToSet(Of(i)) : ij[1] = i /\ ij[2] \in DOMAIN ps[i].chars
    <3>1. \A j \in DOMAIN Of(i) : Of(i)[j] = << i, j >>
      BY <2>2
    <3>2. \A ij \in ToSet(Of(i)) : \E j \in DOMAIN Of(i) : ij = << i, j >>
      <4>. HIDE DEF Of
      <4>. QED BY <3>1 DEF ToSet
    <3>. QED BY <2>1, <2>2, <3>2
  <2>4. << >> \in Seq(Nat \X Nat) /\ ToSet(<< >>) = {}
    BY DEF ToSet
  <2>. HIDE DEF Of
  <2>. QED BY <2>2, <2>3, <2>4
<1>. HIDE DEF part
<1>3. parts \in Seq(Seq(Nat \X Nat)) /\ Len(parts) = Len(ps) /\ \A i \in 1..Len(ps) : parts[i] = part(i)
  BY <1>1, <1>2
<1>. HIDE DEF parts
<1>4. /\ FlattenSeq(parts) \in Seq(Nat \X Nat)
      /\ \A x : x \in ToSet(FlattenSeq(parts)) <=> \E i \in 1..Len(parts) : x \in ToSet(parts[i])
  BY <1>3, FlattenMembers
<1>5. ASSUME NEW ij \in ToSet(FlattenSeq(parts))
      PROVE  ij[1] \in DOMAIN ps /\ ij[2] \in DOMAIN ps[ij[1]].chars
  <2>1. PICK i \in 1..Len(ps) : ij \in ToSet(part(i))
    BY <1>3, <1>4
  <2>2. ij[1] = i /\ ij[2] \in DOMAIN ps[i].chars
    BY <1>2, <2>1
  <2>. QED BY <1>1, <2>2
<1>. QED BY <1>4, <1>5 DEF parts, part

\* list_characters lists positions of plots and of characters in them.
LEMMA ListedCharacters ==
    ASSUME Known, Next, Answered("list_characters")'
    PROVE  /\ Loaded' = Loaded /\ Loaded \in Export
           /\ \A ij \in ToSet(answer'.shown) :
                 ij[1] \in DOMAIN Plots(Loaded) /\ ij[2] \in DOMAIN Plots(Loaded)[ij[1]].chars
<1>. DEFINE ps == Plots(Loaded)
            Of(i) == [j \in 1..Len(ps[i].chars) |-> << i, j >>]
            All(plots) == FlattenSeq([i \in DOMAIN ps |-> IF i \in plots THEN Of(i) ELSE << >>])
            Wanted(ij, priority) == \/ priority = Empty
                                    \/ EqualFold(ps[ij[1]].chars[ij[2]].priority, priority)
            Some(plots, priority) ==
              Kept(All(plots), [n \in DOMAIN All(plots) |-> Wanted(All(plots)[n], priority)])
<1>0. call' # NoCall /\ call'.tool = "list_characters" /\ answer'.error = ""
  BY DEF Answered
<1>1. PICK plot, priority \in Query : ListCharacters(plot, priority)
  BY <1>0, AnsweredByHandler
<1>. DEFINE plots == IF plot = Empty THEN DOMAIN ps ELSE {FindPlot(Loaded, plot)}
            answers == {IF plots = {0} THEN Error("plot not found") ELSE Ok(Some(plots, priority))}
<1>2. Serve([tool |-> "list_characters", plot |-> plot, priority |-> priority], answers)
  BY <1>1 DEF ListCharacters
<1>3. answer' \in answers /\ Loaded' = Loaded /\ Loaded # ParseError
  <2>. HIDE DEF answers
  <2>. QED BY <1>0, <1>2, Served
<1>4. Loaded \in Export
  BY <1>3, LoadedIsExport
<1>5. ps \in Seq(Plot)
  BY <1>4, PlotsIsSeq
<1>. DEFINE all == All(plots)
<1>6. \E keep : answer'.shown = Kept(all, keep)
  <2>. HIDE DEF all, plots
  <2>1. answer' = Error("plot not found") \/ answer' = Ok(Some(plots, priority))
    BY <1>3
  <2>. HIDE DEF Some
  <2>2. Error("plot not found").error = "plot not found"
        /\ Ok(Some(plots, priority)).shown = Some(plots, priority)
    BY DEF Error, Ok
  <2>3. answer'.shown = Some(plots, priority)
    BY <1>0, <2>1, <2>2
  <2>. QED BY <2>3 DEF Some, all
<1>7. /\ all \in Seq(Nat \X Nat)
      /\ \A ij \in ToSet(all) : ij[1] \in DOMAIN ps /\ ij[2] \in DOMAIN ps[ij[1]].chars
  <2>. HIDE DEF ps, plots
  <2>. QED BY <1>5, CharacterPositions
<1>. HIDE DEF all, plots
<1>8. PICK keep : answer'.shown = Kept(all, keep)
  BY <1>6
<1>9. Len(all) \in Nat /\ DOMAIN all = 1..Len(all)
  BY <1>7, LenProperties
<1>10. ToSet(answer'.shown) \subseteq ToSet(all)
  <2>1. \A x : x \in ToSet(Kept(all, keep)) <=> \E i \in 1..Len(all) : keep[i] /\ all[i] = x
    BY <1>7, KeptMembers
  <2>2. \A i \in 1..Len(all) : all[i] \in ToSet(all)
    BY <1>9 DEF ToSet
  <2>. QED BY <1>8, <2>1, <2>2
<1>. QED BY <1>3, <1>4, <1>7, <1>10

\* What list_plots and list_characters list under a name of its own, the other
\* tools find by that name, because an exact match comes before any other
\* (loader.go, FindPlot; common.go, findCharacter).
THEOREM ListedIsFound == Spec => []ListedIsFindable
<1>1. Init => ListedIsFindable
  BY DEF Init, ListedIsFindable, Answered
<1>2. Known /\ Next => ListedIsFindable'
  <2>. SUFFICES ASSUME Known, Next PROVE ListedIsFindable'
    OBVIOUS
  <2>1. ASSUME Answered("list_plots")', NEW i \in ToSet(answer'.shown),
               \A j \in DOMAIN Plots(Loaded') \ {i} :
                  Plots(Loaded')[j].title # Plots(Loaded')[i].title
        PROVE  FindPlot(Loaded', Plots(Loaded')[i].title) = i
    BY <2>1, ListedPlots, OwnTitleFindsPlot
  <2>2. ASSUME Answered("list_characters")', NEW ij \in ToSet(answer'.shown),
               DistinctNames(Plots(Loaded')[ij[1]])
        PROVE  FindCharacter(Plots(Loaded')[ij[1]], Name(Plots(Loaded')[ij[1]].chars[ij[2]])) = ij[2]
    <3>. DEFINE p == Plots(Loaded')[ij[1]]
    <3>1. Loaded' \in Export /\ ij[1] \in DOMAIN Plots(Loaded') /\ ij[2] \in DOMAIN p.chars
      BY <2>2, ListedCharacters
    <3>2. p \in Plot
      BY <3>1, PlotsIsSeq, LenProperties
    <3>. HIDE DEF p
    <3>3. \A j \in DOMAIN p.chars \ {ij[2]} : Name(p.chars[j]) # Name(p.chars[ij[2]])
      BY <2>2, <3>1 DEF p, DistinctNames, IsInjective
    <3>4. FindCharacter(p, Name(p.chars[ij[2]])) = ij[2]
      BY <3>1, <3>2, <3>3, OwnNameFindsCharacter
    <3>. QED BY <3>4 DEF p
  <2>. QED BY <2>1, <2>2 DEF ListedIsFindable
<1>3. UNCHANGED vars /\ ListedIsFindable => ListedIsFindable'
  BY DEF vars, ListedIsFindable, Answered, Loaded
<1>. QED BY <1>1, <1>2, <1>3, KnownAlways, PTL DEF Spec

-----------------------------------------------------------------------------
(* Types.                                                                  *)

\* The answers a handler may give are not the one that stands for none.
Proper(answers) == \A a \in answers : a.error # "none"

LEMMA ErrorIsProper ==
    ASSUME NEW why, why # "none"
    PROVE  Proper({Error(why)})
BY DEF Proper, Error

LEMMA OkIsProper ==
    ASSUME NEW shown
    PROVE  Proper({Ok(shown)})
<1>1. Ok(shown).error = "" /\ "" # "none"
  BY DEF Ok
<1>. QED BY <1>1 DEF Proper

LEMMA ServedType ==
    ASSUME NEW c \in Call, NEW answers, Proper(answers), Serve(c, answers)
    PROVE  call' \in Call /\ call' # NoCall /\ answer' # NoAnswer
<1>1. call' \in Call /\ call' # NoCall
  BY NoCallAssumption DEF Serve
<1>2. answer' \in answers \/ answer' = Error("load data")
  BY DEF Serve
<1>3. Error("load data").error = "load data" /\ NoAnswer.error = "none"
  BY DEF Error, NoAnswer
<1>. QED BY <1>1, <1>2, <1>3 DEF Proper

\* What WithPlot answers is proper when what it asks for is.
LEMMA WithPlotIsProper ==
    ASSUME NEW answers, Proper(answers), NEW A, NEW B
    PROVE  Proper(IF A THEN {Error("argument is required")}
                  ELSE IF B THEN {Error("plot not found")} ELSE answers)
BY ErrorIsProper

\* Every call that is answered is a call with the arguments of its tool, and
\* nothing is answered but a call.
THEOREM ReadToolsTypeOK == Spec => []TypeOK
<1>1. Init => TypeOK
  <2>. SUFFICES ASSUME Init PROVE TypeOK
    OBVIOUS
  <2>1. file \in Envelope \cup {Bad}
    BY ReadToolsAssumption DEF Init
  <2>2. Loaded \in Export \cup {ParseError}
    BY <2>1, ParseReturnsExport DEF Loaded
  <2>. QED BY <2>2 DEF Init, TypeOK
<1>2. TypeOK /\ Next => TypeOK'
  <2>. SUFFICES ASSUME TypeOK, Next PROVE TypeOK'
    OBVIOUS
  <2>1. file' = file
    BY DEF Next, ListPlots, GetPlot, ListCharacters, GetCharacter, ListRelationships,
           ListEras, ListEvents, Search, GenerateContext, Malformed, Return, Serve
  <2>2. (file \in File /\ Loaded \in Export \cup {ParseError})'
    BY <2>1 DEF TypeOK, Loaded
  <2>. DEFINE Fine == call' \in Call /\ call' # NoCall /\ answer' # NoAnswer
  <2>3. ASSUME NEW folder \in Query, NEW status \in Query, NEW tag \in Query,
               ListPlots(folder, status, tag)
        PROVE  Fine
    <3>. DEFINE c == [tool |-> "list_plots", folder |-> folder, status |-> status, tag |-> tag]
    <3>1. c \in Call
      BY DEF Call
    <3>2. PICK shown : Serve(c, {Ok(shown)})
      BY <2>3 DEF ListPlots
    <3>. QED BY <3>1, <3>2, OkIsProper, ServedType
  <2>4. ASSUME NEW title \in Query, GetPlot(title)
        PROVE  Fine
    <3>. DEFINE c == [tool |-> "get_plot", title |-> title]
    <3>1. c \in Call
      BY DEF Call
    <3>. DEFINE found == FindPlot(Loaded, title)
                candidates == FindPlotsByFolder(Loaded, title)
                a == IF title = Empty THEN Error("title is required")
                     ELSE IF found # 0 THEN Ok(<< found >>)
                     ELSE CASE Len(candidates) = 0 -> Error("plot not found")
                            [] Len(candidates) = 1 -> Ok(candidates)
                            [] OTHER -> [error |-> "ambiguous folder", shown |-> candidates]
    <3>2. Serve(c, {a})
      BY <2>4 DEF GetPlot
    <3>3. a.error # "none"
      <4>. HIDE DEF found, candidates
      <4>. QED BY DEF Error, Ok
    <3>. HIDE DEF a
    <3>. QED BY <3>1, <3>2, <3>3, ServedType DEF Proper
  <2>5. ASSUME NEW plot \in Query, NEW priority \in Query, ListCharacters(plot, priority)
        PROVE  Fine
    <3>. DEFINE c == [tool |-> "list_characters", plot |-> plot, priority |-> priority]
    <3>1. c \in Call
      BY DEF Call
    <3>2. \E plots, shown :
             Serve(c, {IF plots = {0} THEN Error("plot not found") ELSE Ok(shown)})
      BY <2>5 DEF ListCharacters
    <3>3. \E answers : Serve(c, answers) /\ Proper(answers)
      BY <3>2, ErrorIsProper, OkIsProper
    <3>. QED BY <3>1, <3>3, ServedType
  <2>6. ASSUME NEW plot \in Query, NEW name \in Query, GetCharacter(plot, name)
        PROVE  Fine
    <3>. DEFINE c == [tool |-> "get_character", plot |-> plot, name |-> name]
                p == Plots(Loaded)[FindPlot(Loaded, plot)]
                x == FindCharacter(p, name)
                inner == IF x = 0 THEN {Error("character not found")}
                         ELSE {Ok([char |-> x, attributes |-> r]) : r \in Renderings(p.chars[x])}
    <3>1. c \in Call
      BY DEF Call
    <3>2. Serve(c, IF plot = Empty \/ name = Empty THEN {Error("argument is required")}
                   ELSE IF FindPlot(Loaded, plot) = 0 THEN {Error("plot not found")}
                   ELSE inner)
      BY <2>6 DEF GetCharacter, WithPlot
    <3>3. Proper(inner)
      <4>. HIDE DEF x, p
      <4>1. \A a \in inner : a = Error("character not found") \/ \E shown : a = Ok(shown)
        OBVIOUS
      <4>. HIDE DEF inner
      <4>. QED BY <4>1, ErrorIsProper, OkIsProper DEF Proper
    <3>. HIDE DEF inner, c
    <3>. QED BY <3>1, <3>2, <3>3, WithPlotIsProper, ServedType
  <2>7. ASSUME NEW plot \in Query, NEW name \in Query, ListRelationships(plot, name)
        PROVE  Fine
    <3>. DEFINE c == [tool |-> "list_relationships", plot |-> plot, name |-> name]
    <3>1. c \in Call
      BY DEF Call
    <3>2. \E none, shown :
             Serve(c, IF plot = Empty THEN {Error("argument is required")}
                      ELSE IF FindPlot(Loaded, plot) = 0 THEN {Error("plot not found")}
                      ELSE IF name # Empty /\ none = 0 THEN {Error("character not found")}
                      ELSE {Ok(shown)})
      BY <2>7 DEF ListRelationships, WithPlot
    <3>3. \E answers : Serve(c, answers) /\ Proper(answers)
      BY <3>2, ErrorIsProper, OkIsProper
    <3>. HIDE DEF c
    <3>. QED BY <3>1, <3>3, ServedType
  <2>8. ASSUME NEW plot \in Query, ListEras(plot)
        PROVE  Fine
    <3>. DEFINE c == [tool |-> "list_eras", plot |-> plot]
    <3>1. c \in Call
      BY DEF Call
    <3>2. \E shown :
             Serve(c, IF plot = Empty THEN {Error("argument is required")}
                      ELSE IF FindPlot(Loaded, plot) = 0 THEN {Error("plot not found")}
                      ELSE {Ok(shown)})
      BY <2>8 DEF ListEras, WithPlot
    <3>3. \E answers : Serve(c, answers) /\ Proper(answers)
      BY <3>2, ErrorIsProper, OkIsProper
    <3>. HIDE DEF c
    <3>. QED BY <3>1, <3>3, ServedType
  <2>9. ASSUME NEW plot \in Query, NEW era \in Query, ListEvents(plot, era)
        PROVE  Fine
    <3>. DEFINE c == [tool |-> "list_events", plot |-> plot, era |-> era]
    <3>1. c \in Call
      BY DEF Call
    <3>2. \E none, shown :
             Serve(c, IF plot = Empty THEN {Error("argument is required")}
                      ELSE IF FindPlot(Loaded, plot) = 0 THEN {Error("plot not found")}
                      ELSE IF era # Empty /\ none = 0 THEN {Error("era not found")}
                      ELSE {Ok(shown)})
      BY <2>9 DEF ListEvents, WithPlot
    <3>3. \E answers : Serve(c, answers) /\ Proper(answers)
      BY <3>2, ErrorIsProper, OkIsProper
    <3>. HIDE DEF c
    <3>. QED BY <3>1, <3>3, ServedType
  <2>10. ASSUME NEW query \in Query, NEW scope \in Scope, Search(query, scope)
         PROVE  Fine
    <3>. DEFINE c == [tool |-> "search", query |-> query, scope |-> scope]
    <3>1. c \in Call
      BY DEF Call
    <3>2. \E shown :
             Serve(c, {IF query = Empty THEN Error("query is required") ELSE Ok(shown)})
      BY <2>10 DEF Search
    <3>3. \E answers : Serve(c, answers) /\ Proper(answers)
      BY <3>2, ErrorIsProper, OkIsProper
    <3>. HIDE DEF c
    <3>. QED BY <3>1, <3>3, ServedType
  <2>11. ASSUME NEW plot \in Query, NEW focus \in Query, NEW targets \in Targets,
                NEW n \in Tokens, GenerateContext(plot, focus, targets, n)
         PROVE  Fine
    <3>. DEFINE c == [tool |-> "generate_context", plot |-> plot, focus |-> focus,
                      targets |-> targets, maxTokens |-> n]
    <3>1. c \in Call
      BY DEF Call
    <3>2. \E size, max, ps :
             Serve(c, IF plot = Empty \/ focus = Empty THEN {Error("argument is required")}
                      ELSE IF FindPlot(Loaded, plot) = 0 THEN {Error("plot not found")}
                      ELSE {Cut(size, max, ps)})
      BY <2>11 DEF GenerateContext, WithPlot
    <3>3. \A size, max, ps : Proper({Cut(size, max, ps)})
      BY ErrorIsProper, OkIsProper DEF Cut
    <3>4. \E answers : Serve(c, answers) /\ Proper(answers)
      BY <3>2, <3>3, ErrorIsProper
    <3>. HIDE DEF c
    <3>. QED BY <3>1, <3>4, ServedType
  <2>12. ASSUME NEW tool \in Tool, Malformed(tool)
         PROVE  Fine
    <3>1. call' \in Call /\ call' # NoCall
      <4>1. call' = [tool |-> tool]
        BY <2>12 DEF Malformed
      <4>2. [tool |-> tool] \in [tool : Tool]
        OBVIOUS
      <4>3. [tool |-> tool] \in Call
        BY <4>2 DEF Call
      <4>. QED BY <4>1, <4>3, NoCallAssumption
    <3>2. answer' = Error("load data") \/ answer' = Error("invalid arguments")
      BY <2>12 DEF Malformed
    <3>3. /\ Error("load data").error = "load data"
          /\ Error("invalid arguments").error = "invalid arguments"
          /\ NoAnswer.error = "none"
      BY DEF Error, NoAnswer
    <3>. QED BY <3>1, <3>2, <3>3
  <2>13. ASSUME Return
         PROVE  call' = NoCall /\ answer' = NoAnswer
    BY <2>13 DEF Return
  <2>14. Fine \/ (call' = NoCall /\ answer' = NoAnswer)
    <3>. HIDE DEF Fine
    <3>. QED BY <2>3, <2>4, <2>5, <2>6, <2>7, <2>8, <2>9, <2>10, <2>11, <2>12, <2>13 DEF Next
  <2>. QED BY <2>2, <2>14 DEF TypeOK
<1>3. UNCHANGED vars /\ TypeOK => TypeOK'
  BY DEF vars, TypeOK, Loaded
<1>. QED BY <1>1, <1>2, <1>3, PTL DEF Spec

-----------------------------------------------------------------------------
(* What is fetched by a text is found by it.                               *)

Place == [kind : {"plot", "sequence", "card", "era", "event", "area", "relationship", "character"},
          at : Seq(Nat), texts : SUBSET Text]

LEMMA CharacterTextsAreTexts ==
    ASSUME NEW c \in Character
    PROVE  Name(c) \in CharacterTexts(c) /\ CharacterTexts(c) \subseteq Text
<1>1. Name(c) \in Text
  BY NameIsText
<1>2. ASSUME NEW k \in Params(c)
      PROVE  c.params[k].value \in Text /\ c.params[k].name \in Text
  <2>1. c.params \in [Key -> Param \cup {NoParam}] /\ k \in Key /\ c.params[k] # NoParam
    BY DEF Character, Params
  <2>2. c.params[k] \in Param
    BY <2>1
  <2>. QED BY <2>2 DEF Param
<1>. QED BY <1>1, <1>2 DEF CharacterTexts

\* The elements of a list, each as a place of its own.
LEMMA EachIsPlace ==
    ASSUME NEW s, Len(s) \in Nat, DOMAIN s = 1..Len(s),
           \A i \in 1..Len(s) : s[i].texts \in SUBSET Text,
           NEW kind \in {"era", "event", "area", "relationship"}
    PROVE  [i \in DOMAIN s |-> [kind |-> kind, at |-> << i >>, texts |-> s[i].texts]] \in Seq(Place)
<1>1. \A i \in 1..Len(s) : [kind |-> kind, at |-> << i >>, texts |-> s[i].texts] \in Place
  BY DEF Place
<1>. DEFINE place(i) == [kind |-> kind, at |-> << i >>, texts |-> s[i].texts]
<1>. HIDE DEF place
<1>2. [i \in 1..Len(s) |-> place(i)] \in Seq(Place)
  BY <1>1 DEF place
<1>. QED BY <1>2 DEF place

\* The places of a plot are places.
LEMMA PlacesAreKnown ==
    ASSUME NEW p \in Plot
    PROVE  /\ \A scope : Places(p, scope) \in Seq(Place)
           /\ \E x \in ToSet(Places(p, "plot")) : x.kind = "plot" /\ p.title \in x.texts
           /\ \A i \in DOMAIN p.chars :
                 \E x \in ToSet(Places(p, "character")) :
                    x.at = << i >> /\ x.texts = CharacterTexts(p.chars[i])
<1>. DEFINE Each(kind, s) == [i \in DOMAIN s |-> [kind |-> kind, at |-> << i >>, texts |-> s[i].texts]]
            Unit(i) == << [kind |-> "sequence", at |-> << i >>, texts |-> p.units[i].texts] >>
                       \o [j \in DOMAIN p.units[i].cards |->
                             [kind |-> "card", at |-> << i, j >>, texts |-> p.units[i].cards[j].texts]]
            first == [kind |-> "plot", at |-> << >>, texts |-> {p.title, p.subtitle}]
            units == [i \in DOMAIN p.units |-> Unit(i)]
            rest == FlattenSeq(units)
            story == << first >> \o rest
                     \o Each("era", p.eras) \o Each("event", p.events)
                     \o Each("area", p.areas) \o Each("relationship", p.rels)
            people == [i \in DOMAIN p.chars |-> [kind |-> "character", at |-> << i >>,
                                                 texts |-> CharacterTexts(p.chars[i])]]
<1>1. first \in Place /\ p.title \in first.texts /\ first.kind = "plot"
  <2>1. p.title \in Text /\ p.subtitle \in Text
    BY PlotTypes
  <2>. QED BY <2>1 DEF Place
<1>2. rest \in Seq(Place)
  <2>1. /\ Len(p.units) \in Nat /\ DOMAIN p.units = 1..Len(p.units)
        /\ \A i \in 1..Len(p.units) : p.units[i].texts \in SUBSET Text /\ p.units[i].cards \in Seq(Item)
    <3>. DEFINE U == [texts : SUBSET Text, cards : Seq(Item)]
    <3>1. p.units \in Seq(U) /\ \A x \in U : x.texts \in SUBSET Text /\ x.cards \in Seq(Item)
      BY PlotTypes
    <3>. HIDE DEF U
    <3>. QED BY <3>1, LenProperties
  <2>2. ASSUME NEW i \in 1..Len(p.units)
        PROVE  Unit(i) \in Seq(Place)
    <3>. DEFINE u == p.units[i]
    <3>1. u.texts \in SUBSET Text /\ u.cards \in Seq(Item) /\ i \in Nat
      BY <2>1
    <3>. HIDE DEF u
    <3>. DEFINE card(j) == [kind |-> "card", at |-> << i, j >>, texts |-> u.cards[j].texts]
                head == [kind |-> "sequence", at |-> << i >>, texts |-> u.texts]
    <3>2. Len(u.cards) \in Nat /\ DOMAIN u.cards = 1..Len(u.cards)
          /\ \A j \in 1..Len(u.cards) : u.cards[j].texts \in SUBSET Text
      <4>1. \A x \in Item : x.texts \in SUBSET Text
        BY DEF Item
      <4>. QED BY <3>1, <4>1, LenProperties
    <3>3. \A j \in 1..Len(u.cards) : card(j) \in Place
      BY <3>1, <3>2 DEF Place
    <3>4. head \in Place
      BY <3>1 DEF Place
    <3>. HIDE DEF card, head
    <3>5. [j \in DOMAIN u.cards |-> card(j)] \in Seq(Place)
      BY <3>2, <3>3
    <3>6. << head >> \in Seq(Place)
      BY <3>4
    <3>7. << head >> \o [j \in DOMAIN u.cards |-> card(j)] \in Seq(Place)
      BY <3>5, <3>6, ConcatProperties
    <3>. QED BY <3>7 DEF card, head, u
  <2>. HIDE DEF Unit
  <2>3. units \in Seq(Seq(Place))
    BY <2>1, <2>2
  <2>. QED BY <2>3, FlattenMembers
<1>3. /\ Each("era", p.eras) \in Seq(Place) /\ Each("event", p.events) \in Seq(Place)
      /\ Each("area", p.areas) \in Seq(Place) /\ Each("relationship", p.rels) \in Seq(Place)
  <2>1. ASSUME NEW s, NEW T, s \in Seq(T), \A t \in T : t.texts \in SUBSET Text
        PROVE  Len(s) \in Nat /\ DOMAIN s = 1..Len(s) /\ \A i \in 1..Len(s) : s[i].texts \in SUBSET Text
    BY <2>1, LenProperties
  <2>2. /\ \A t \in [title : Text, texts : SUBSET Text] : t.texts \in SUBSET Text
        /\ \A t \in [era : Int, texts : SUBSET Text] : t.texts \in SUBSET Text
        /\ \A t \in Item : t.texts \in SUBSET Text
        /\ \A t \in [from : Int, to : Int, texts : SUBSET Text] : t.texts \in SUBSET Text
    BY DEF Item
  <2>3. Each("era", p.eras) \in Seq(Place)
    BY <2>1, <2>2, PlotTypes, EachIsPlace
  <2>4. Each("event", p.events) \in Seq(Place)
    BY <2>1, <2>2, PlotTypes, EachIsPlace
  <2>5. Each("area", p.areas) \in Seq(Place)
    BY <2>1, <2>2, PlotTypes, EachIsPlace
  <2>6. Each("relationship", p.rels) \in Seq(Place)
    BY <2>1, <2>2, PlotTypes, EachIsPlace
  <2>. QED BY <2>3, <2>4, <2>5, <2>6
<1>4. Len(p.chars) \in Nat /\ DOMAIN p.chars = 1..Len(p.chars)
      /\ \A i \in 1..Len(p.chars) : p.chars[i] \in Character
  BY PlotTypes, LenProperties
<1>5. people \in Seq(Place) /\ Len(people) = Len(p.chars)
  <2>. DEFINE person(i) == [kind |-> "character", at |-> << i >>, texts |-> CharacterTexts(p.chars[i])]
  <2>1. \A i \in 1..Len(p.chars) : person(i) \in Place
    BY <1>4, CharacterTextsAreTexts DEF Place
  <2>. HIDE DEF person
  <2>2. [i \in 1..Len(p.chars) |-> person(i)] \in Seq(Place) /\ Len([i \in 1..Len(p.chars) |-> person(i)]) = Len(p.chars)
    BY <1>4, <2>1
  <2>. QED BY <1>4, <2>2 DEF person
<1>. DEFINE others == Each("era", p.eras)  events == Each("event", p.events)
            areas == Each("area", p.areas)  rels == Each("relationship", p.rels)
<1>. HIDE DEF first, rest, people, Each
<1>6. story \in Seq(Place) /\ Len(story) \in Nat /\ Len(story) >= 1 /\ story[1] = first
  <2>. DEFINE a == << first >>  b == a \o rest  c == b \o Each("era", p.eras)
              d == c \o Each("event", p.events)  e == d \o Each("area", p.areas)
              f == e \o Each("relationship", p.rels)
  <2>1. a \in Seq(Place) /\ Len(a) = 1 /\ a[1] = first
    BY <1>1
  <2>2. \A x, y \in Seq(Place) : Len(x) >= 1 /\ x[1] = first
           => x \o y \in Seq(Place) /\ Len(x \o y) >= 1 /\ (x \o y)[1] = first
    BY ConcatProperties, LenProperties
  <2>. HIDE DEF a
  <2>3. b \in Seq(Place) /\ Len(b) >= 1 /\ b[1] = first
    BY <1>2, <2>1, <2>2
  <2>. HIDE DEF b
  <2>4. c \in Seq(Place) /\ Len(c) >= 1 /\ c[1] = first
    BY <1>3, <2>2, <2>3
  <2>. HIDE DEF c
  <2>5. d \in Seq(Place) /\ Len(d) >= 1 /\ d[1] = first
    BY <1>3, <2>2, <2>4
  <2>. HIDE DEF d
  <2>6. e \in Seq(Place) /\ Len(e) >= 1 /\ e[1] = first
    BY <1>3, <2>2, <2>5
  <2>. HIDE DEF e
  <2>7. f \in Seq(Place) /\ Len(f) >= 1 /\ f[1] = first
    BY <1>3, <2>2, <2>6
  <2>8. f = story
    BY DEF a, b, c, d, e
  <2>. HIDE DEF f
  <2>. QED BY <2>7, <2>8, LenProperties
<1>. HIDE DEF story
<1>7. \A scope : Places(p, scope) =
         (IF scope \in {"plot", "all"} THEN story ELSE << >>)
         \o (IF scope \in {"character", "all"} THEN people ELSE << >>)
  BY DEF Places, story, people, rest, first, Each
<1>8. /\ story \o << >> = story /\ << >> \o people = people
      /\ << >> \in Seq(Place) /\ << >> \o << >> = << >>
  <2>1. << >> \in Seq(Place)
    OBVIOUS
  <2>. QED BY <1>5, <1>6, <2>1, ConcatEmptySeq
<1>9. ASSUME NEW scope PROVE Places(p, scope) \in Seq(Place)
  <2>. DEFINE a == IF scope \in {"plot", "all"} THEN story ELSE << >>
              b == IF scope \in {"character", "all"} THEN people ELSE << >>
  <2>1. a \in Seq(Place) /\ b \in Seq(Place) /\ Places(p, scope) = a \o b
    BY <1>5, <1>6, <1>7, <1>8
  <2>. HIDE DEF a, b
  <2>. QED BY <2>1, ConcatProperties
<1>10. Places(p, "plot") = story /\ Places(p, "character") = people
  BY <1>5, <1>6, <1>7, <1>8
<1>11. \E x \in ToSet(Places(p, "plot")) : x.kind = "plot" /\ p.title \in x.texts
  <2>1. 1 \in DOMAIN story
    BY <1>6, LenProperties
  <2>2. first \in ToSet(story)
    BY <1>6, <2>1 DEF ToSet
  <2>. QED BY <1>1, <1>10, <2>2
<1>12. ASSUME NEW i \in DOMAIN p.chars
       PROVE  \E x \in ToSet(people) : x.at = << i >> /\ x.texts = CharacterTexts(p.chars[i])
  <2>1. i \in DOMAIN people /\ people[i] = [kind |-> "character", at |-> << i >>, texts |-> CharacterTexts(p.chars[i])]
    BY DEF people
  <2>2. people[i] \in ToSet(people)
    BY <2>1 DEF ToSet
  <2>. QED BY <2>1, <2>2
<1>. QED BY <1>9, <1>10, <1>11, <1>12

\* Hits, of any corpus.
HitsIn(e, i, query, scope) ==
    LET places == Places(Plots(e)[i], IF scope = "" THEN "all" ELSE scope)
        hits == Kept(places, [j \in DOMAIN places |-> Matches(places[j].texts, query)])
    IN  [j \in DOMAIN hits |-> [plot |-> i, kind |-> hits[j].kind, at |-> hits[j].at]]

\* A place where the query matches is hit.
LEMMA HitsInclude ==
    ASSUME NEW e \in Export, NEW i \in DOMAIN Plots(e), NEW scope \in {"plot", "character"},
           NEW query, NEW x \in ToSet(Places(Plots(e)[i], scope)), Matches(x.texts, query)
    PROVE  \E h \in ToSet(HitsIn(e, i, query, scope)) : h.kind = x.kind /\ h.at = x.at
<1>. DEFINE places == Places(Plots(e)[i], scope)
            keep == [j \in DOMAIN places |-> Matches(places[j].texts, query)]
            hits == Kept(places, keep)
            shown(j) == [plot |-> i, kind |-> hits[j].kind, at |-> hits[j].at]
<1>1. HitsIn(e, i, query, scope) = [j \in DOMAIN hits |-> shown(j)]
  BY DEF HitsIn
<1>2. Plots(e)[i] \in Plot
  BY PlotsIsSeq, LenProperties
<1>3. places \in Seq(Place)
  BY <1>2, PlacesAreKnown
<1>4. Len(places) \in Nat /\ DOMAIN places = 1..Len(places)
  BY <1>3, LenProperties
<1>5. PICK n \in 1..Len(places) : places[n] = x
  <2>. HIDE DEF places
  <2>. QED BY <1>4 DEF ToSet, places
<1>6. keep[n]
  BY <1>4, <1>5
<1>. HIDE DEF places, keep
<1>7. x \in ToSet(hits)
  BY <1>3, <1>5, <1>6, KeptMembers
<1>8. PICK j \in DOMAIN hits : hits[j] = x
  BY <1>7 DEF ToSet
<1>. HIDE DEF hits
<1>9. shown(j) \in ToSet(HitsIn(e, i, query, scope))
  <2>. HIDE DEF shown
  <2>1. j \in DOMAIN HitsIn(e, i, query, scope) /\ HitsIn(e, i, query, scope)[j] = shown(j)
    BY <1>1
  <2>. QED BY <2>1 DEF ToSet
<1>10. shown(j).kind = x.kind /\ shown(j).at = x.at
  BY <1>8
<1>. QED BY <1>9, <1>10

\* get_plot by title shows the plot that FindPlot finds.
LEMMA GotPlot ==
    ASSUME Known, Next, Answered("get_plot")'
    PROVE  /\ Loaded' = Loaded /\ Loaded \in Export /\ call'.title \in Query
           /\ FindPlot(Loaded, call'.title) # 0 => answer'.shown = << FindPlot(Loaded, call'.title) >>
<1>0. call' # NoCall /\ call'.tool = "get_plot" /\ answer'.error = ""
  BY DEF Answered
<1>1. PICK title \in Query : GetPlot(title)
  BY <1>0, AnsweredByHandler
<1>. DEFINE found == FindPlot(Loaded, title)
            a == IF title = Empty THEN Error("title is required")
                 ELSE IF found # 0 THEN Ok(<< found >>)
                 ELSE CASE Len(FindPlotsByFolder(Loaded, title)) = 0 -> Error("plot not found")
                        [] Len(FindPlotsByFolder(Loaded, title)) = 1 -> Ok(FindPlotsByFolder(Loaded, title))
                        [] OTHER -> [error |-> "ambiguous folder", shown |-> FindPlotsByFolder(Loaded, title)]
<1>2. Serve([tool |-> "get_plot", title |-> title], {a})
  BY <1>1 DEF GetPlot
<1>3. found # 0 => a = Error("title is required") \/ a = Ok(<< found >>)
  OBVIOUS
<1>. DEFINE answers == {a}
<1>4. /\ call' = [tool |-> "get_plot", title |-> title] /\ answer' = a
      /\ Loaded' = Loaded /\ Loaded # ParseError
  <2>. HIDE DEF a
  <2>1. Serve([tool |-> "get_plot", title |-> title], answers) /\ \A b \in answers : b = a
    BY <1>2
  <2>. HIDE DEF answers
  <2>. QED BY <1>0, <2>1, Served
<1>. HIDE DEF a
<1>5. Error("title is required").error = "title is required" /\ Ok(<< found >>).shown = << found >>
  BY DEF Error, Ok
<1>6. call'.title = title
  BY <1>4
<1>. QED BY <1>0, <1>3, <1>4, <1>5, <1>6, LoadedIsExport

\* get_character shows the character that findCharacter finds in the plot that
\* FindPlot finds.
LEMMA GotCharacter ==
    ASSUME Known, Next, Answered("get_character")'
    PROVE  LET n == FindPlot(Loaded, call'.plot)
               p == Plots(Loaded)[n]
               c == FindCharacter(p, call'.name)
           IN  /\ Loaded' = Loaded /\ Loaded \in Export
               /\ n \in DOMAIN Plots(Loaded) /\ p \in Plot
               /\ call'.name \in Text /\ c # 0 /\ c \in DOMAIN p.chars
               /\ answer'.shown.char = c /\ answer'.shown.attributes \in Renderings(p.chars[c])
<1>0. call' # NoCall /\ call'.tool = "get_character" /\ answer'.error = ""
  BY DEF Answered
<1>1. PICK plot, name \in Query : GetCharacter(plot, name)
  BY <1>0, AnsweredByHandler
<1>. DEFINE n == FindPlot(Loaded, plot)
            p == Plots(Loaded)[n]
            c == FindCharacter(p, name)
            inner == IF c = 0 THEN {Error("character not found")}
                     ELSE {Ok([char |-> c, attributes |-> r]) : r \in Renderings(p.chars[c])}
            answers == IF plot = Empty \/ name = Empty THEN {Error("argument is required")}
                       ELSE IF n = 0 THEN {Error("plot not found")}
                       ELSE inner
<1>2. Serve([tool |-> "get_character", plot |-> plot, name |-> name], answers)
  BY <1>1 DEF GetCharacter, WithPlot
<1>3. /\ call' = [tool |-> "get_character", plot |-> plot, name |-> name] /\ answer' \in answers
      /\ Loaded' = Loaded /\ Loaded # ParseError
  <2>. HIDE DEF answers
  <2>. QED BY <1>0, <1>2, Served
<1>4. call'.plot = plot /\ call'.name = name
  BY <1>3
<1>5. Loaded \in Export /\ plot \in Text /\ name \in Text
  BY <1>3, LoadedIsExport, ReadToolsAssumption
<1>6. /\ Error("argument is required").error = "argument is required"
      /\ Error("plot not found").error = "plot not found"
      /\ Error("character not found").error = "character not found"
  BY DEF Error
<1>7. n # 0 /\ answer' \in inner
  <2>. HIDE DEF inner
  <2>. QED BY <1>0, <1>3, <1>6
<1>8. c # 0 /\ \E r \in Renderings(p.chars[c]) : answer' = Ok([char |-> c, attributes |-> r])
  <2>. HIDE DEF c, p
  <2>. QED BY <1>0, <1>6, <1>7
<1>9. n \in DOMAIN Plots(Loaded) /\ p \in Plot
  <2>1. n \in DOMAIN Plots(Loaded)
    BY <1>5, <1>7, FoundPlotMatches
  <2>. QED BY <1>5, <2>1, PlotsIsSeq, LenProperties
<1>10. c \in DOMAIN p.chars
  <2>. HIDE DEF p, n
  <2>. QED BY <1>5, <1>8, <1>9, FoundCharacterMatches
<1>11. answer'.shown.char = c /\ answer'.shown.attributes \in Renderings(p.chars[c])
  <2>. HIDE DEF c, p
  <2>1. PICK r \in Renderings(p.chars[c]) : answer' = Ok([char |-> c, attributes |-> r])
    BY <1>8
  <2>2. answer'.shown = [char |-> c, attributes |-> r]
    BY <2>1 DEF Ok
  <2>. QED BY <2>2
<1>. QED BY <1>3, <1>4, <1>5, <1>7, <1>8, <1>9, <1>10, <1>11

\* Whatever get_plot finds by a title and get_character by a name, search hits
\* with the same text, though each of the three folds letters in its own way
\* (loader.go, toLower; common.go, findCharacter and containsFold).
THEOREM FetchedIsSearchable == Spec => []SearchFindsWhatIsFetched
<1>0. /\ \A i, query, scope : Hits(i, query, scope) = HitsIn(Loaded, i, query, scope)
      /\ (\A i, query, scope : Hits(i, query, scope) = HitsIn(Loaded, i, query, scope))'
  BY DEF Hits, HitsIn
<1>1. Init => SearchFindsWhatIsFetched
  BY DEF Init, SearchFindsWhatIsFetched, Answered
<1>2. Known /\ Next => SearchFindsWhatIsFetched'
  <2>. SUFFICES ASSUME Known, Next PROVE SearchFindsWhatIsFetched'
    OBVIOUS
  <2>1. ASSUME Answered("get_plot")', FindPlot(Loaded', call'.title) # 0
        PROVE  \E x \in ToSet(HitsIn(Loaded', answer'.shown[1], call'.title, "plot")) : x.kind = "plot"
    <3>. DEFINE i == FindPlot(Loaded, call'.title)
                p == Plots(Loaded)[i]
    <3>1. Loaded' = Loaded /\ Loaded \in Export /\ call'.title \in Text /\ answer'.shown[1] = i /\ i # 0
      BY <2>1, GotPlot, ReadToolsAssumption
    <3>2. i \in DOMAIN Plots(Loaded) /\ IncludesFold(p.title, call'.title)
      BY <3>1, FoundPlotMatches
    <3>3. p \in Plot
      BY <3>1, <3>2, PlotsIsSeq, LenProperties
    <3>. HIDE DEF i
    <3>4. PICK x \in ToSet(Places(p, "plot")) : x.kind = "plot" /\ p.title \in x.texts
      <4>. HIDE DEF p
      <4>. QED BY <3>3, PlacesAreKnown
    <3>5. Matches(x.texts, call'.title)
      BY <3>2, <3>4 DEF Matches
    <3>6. \E h \in ToSet(HitsIn(Loaded, i, call'.title, "plot")) : h.kind = x.kind /\ h.at = x.at
      BY <3>1, <3>2, <3>4, <3>5, HitsInclude
    <3>. QED BY <3>1, <3>4, <3>6
  <2>2. ASSUME Answered("get_character")'
        PROVE  \E x \in ToSet(HitsIn(Loaded', FindPlot(Loaded', call'.plot), call'.name, "character")) :
                  x.at = << answer'.shown.char >>
    <3>. DEFINE i == FindPlot(Loaded, call'.plot)
                p == Plots(Loaded)[i]
                c == FindCharacter(p, call'.name)
    <3>1. /\ Loaded' = Loaded /\ Loaded \in Export /\ i \in DOMAIN Plots(Loaded) /\ p \in Plot
          /\ call'.name \in Text /\ c # 0 /\ c \in DOMAIN p.chars /\ answer'.shown.char = c
      BY <2>2, GotCharacter
    <3>. HIDE DEF i
    <3>2. IncludesFold(Name(p.chars[c]), call'.name)
      <4>. HIDE DEF p
      <4>. QED BY <3>1, FoundCharacterMatches
    <3>3. p.chars[c] \in Character
      <4>. HIDE DEF p, c
      <4>. QED BY <3>1, PlotTypes, LenProperties
    <3>4. PICK x \in ToSet(Places(p, "character")) : x.at = << c >> /\ x.texts = CharacterTexts(p.chars[c])
      <4>. HIDE DEF p, c
      <4>. QED BY <3>1, PlacesAreKnown
    <3>5. Matches(x.texts, call'.name)
      <4>. HIDE DEF p, c
      <4>. QED BY <3>2, <3>3, <3>4, CharacterTextsAreTexts DEF Matches
    <3>6. \E h \in ToSet(HitsIn(Loaded, i, call'.name, "character")) : h.kind = x.kind /\ h.at = x.at
      BY <3>1, <3>4, <3>5, HitsInclude
    <3>. HIDE DEF c
    <3>. QED BY <3>1, <3>4, <3>6 DEF i
  <2>. QED BY <1>0, <2>1, <2>2 DEF SearchFindsWhatIsFetched
<1>3. UNCHANGED vars /\ SearchFindsWhatIsFetched => SearchFindsWhatIsFetched'
  BY DEF vars, SearchFindsWhatIsFetched, Answered, Loaded, Hits
<1>. QED BY <1>1, <1>2, <1>3, KnownAlways, PTL DEF Spec

-----------------------------------------------------------------------------
(* Profiles.                                                               *)

\* An enumeration of a finite set misses none of its elements.
LEMMA EnumerationIsOnto ==
    ASSUME NEW S, IsFiniteSet(S), NEW o \in SetToSeqs(S)
    PROVE  /\ Cardinality(S) \in Nat /\ o \in [1..Cardinality(S) -> S]
           /\ \A i, j \in 1..Cardinality(S) : o[i] = o[j] => i = j
           /\ \A x \in S : \E i \in 1..Cardinality(S) : o[i] = x
<1>1. Cardinality(S) \in Nat
  BY FS_CardinalityType
<1>. DEFINE D == 1..Cardinality(S)
<1>2. o \in [D -> S] /\ \A i, j \in D : i # j => o[i] # o[j]
  BY DEF SetToSeqs
<1>3. o \in Injection(D, S)
  BY <1>2 DEF Injection, IsInjective
<1>4. Cardinality(D) = Cardinality(S)
  BY <1>1, FS_Interval
<1>5. o \in Surjection(D, S)
  <2>. HIDE DEF D
  <2>. QED BY <1>3, <1>4, FS_Injection
<1>6. \A x \in S : \E i \in D : o[i] = x
  BY <1>5 DEF Surjection
<1>. QED BY <1>1, <1>2, <1>6

\* A set whose elements have sort values of their own is sorted in one way.
LEMMA SortedInOneWay ==
    ASSUME NEW S, IsFiniteSet(S), NEW by \in [S -> Int], IsInjective(by),
           NEW o \in SetToSeqs(S), NEW q \in SetToSeqs(S),
           \A i, j \in DOMAIN o : i < j => by[o[i]] <= by[o[j]],
           \A i, j \in DOMAIN q : i < j => by[q[i]] <= by[q[j]]
    PROVE  o = q
<1>. DEFINE n == Cardinality(S)
            Differ == {i \in 1..n : o[i] # q[i]}
<1>1. /\ n \in Nat /\ o \in [1..n -> S] /\ q \in [1..n -> S]
      /\ \A i, j \in 1..n : (o[i] = o[j] => i = j) /\ (q[i] = q[j] => i = j)
      /\ \A x \in S : (\E i \in 1..n : o[i] = x) /\ (\E i \in 1..n : q[i] = x)
  BY EnumerationIsOnto
<1>. HIDE DEF n
<1>2. \A x, y \in S : x # y => by[x] # by[y]
  BY DEF IsInjective
<1>3. /\ \A i, j \in 1..n : i < j => by[o[i]] < by[o[j]]
      /\ \A i, j \in 1..n : i < j => by[q[i]] < by[q[j]]
  <2>1. ASSUME NEW i \in 1..n, NEW j \in 1..n, i < j
        PROVE  by[o[i]] < by[o[j]] /\ by[q[i]] < by[q[j]]
    <3>1. i # j /\ o[i] \in S /\ o[j] \in S /\ q[i] \in S /\ q[j] \in S
      BY <1>1, <2>1
    <3>2. by[o[i]] # by[o[j]] /\ by[q[i]] # by[q[j]]
      BY <1>1, <1>2, <3>1
    <3>3. by[o[i]] <= by[o[j]] /\ by[q[i]] <= by[q[j]]
      BY <1>1, <2>1
    <3>4. by[o[i]] \in Int /\ by[o[j]] \in Int /\ by[q[i]] \in Int /\ by[q[j]] \in Int
      BY <3>1
    <3>. QED BY <3>2, <3>3, <3>4
  <2>. QED BY <2>1
<1>4. ASSUME Differ # {} PROVE FALSE
  <2>1. PICK d \in Differ : \A k \in Differ : d <= k
    <3>1. Differ \in SUBSET Nat
      BY <1>1
    <3>. QED BY <1>4, <3>1, LeastOf
  <2>2. d \in 1..n /\ o[d] # q[d] /\ \A i \in 1..n : i < d => o[i] = q[i]
    BY <1>1, <2>1
  <2>3. PICK e \in 1..n : q[e] = o[d]
    BY <1>1, <2>2
  <2>4. PICK f \in 1..n : o[f] = q[d]
    BY <1>1, <2>2
  <2>5. e > d /\ f > d
    <3>1. d \in Nat /\ e \in Nat /\ f \in Nat
      BY <1>1
    <3>2. e # d /\ f # d
      BY <2>2, <2>3, <2>4
    <3>3. ASSUME e < d PROVE FALSE
      <4>1. o[e] = o[d]
        BY <2>2, <2>3, <3>3
      <4>. QED BY <1>1, <2>2, <3>2, <4>1
    <3>4. ASSUME f < d PROVE FALSE
      <4>1. q[f] = q[d]
        BY <2>2, <2>4, <3>4
      <4>. QED BY <1>1, <2>2, <3>2, <4>1
    <3>. QED BY <3>1, <3>2, <3>3, <3>4
  <2>6. by[q[d]] < by[o[d]] /\ by[o[d]] < by[q[d]]
    BY <1>1, <1>3, <2>2, <2>3, <2>4, <2>5
  <2>7. by[q[d]] \in Int /\ by[o[d]] \in Int
    BY <1>1, <2>2
  <2>. QED BY <2>6, <2>7
<1>5. \A i \in 1..n : o[i] = q[i]
  BY <1>4
<1>. QED BY <1>1, <1>5

\* However the map gives its keys and whatever the unstable sort does, a profile
\* comes out in one way (get_character.go, renderCharacter).
LEMMA OneRendering ==
    ASSUME NEW c \in Character, IsInjective([k \in Params(c) |-> c.params[k].sort]),
           NEW r \in Renderings(c), NEW s \in Renderings(c)
    PROVE  r = s
<1>. DEFINE S == {k \in Params(c) : ~c.params[k].silent /\ c.params[k].value # Empty}
            sorted == {o \in SetToSeqs(S) :
                         \A i, j \in DOMAIN o : i < j => c.params[o[i]].sort <= c.params[o[j]].sort}
            by == [k \in S |-> c.params[k].sort]
            Lines(o) == [i \in DOMAIN o |-> << o[i], c.params[o[i]].value >>]
<1>1. IsFiniteSet(S)
  <2>1. S \in SUBSET Key
    BY DEF Params
  <2>. HIDE DEF S
  <2>. QED BY <2>1, TextAssumption, FS_Subset
<1>2. by \in [S -> Int]
  <2>1. ASSUME NEW k \in S PROVE c.params[k].sort \in Int
    <3>1. c.params \in [Key -> Param \cup {NoParam}] /\ k \in Key /\ c.params[k] # NoParam
      BY DEF Character, Params
    <3>2. c.params[k] \in Param
      BY <3>1
    <3>. QED BY <3>2 DEF Param
  <2>. HIDE DEF S
  <2>. QED BY <2>1
<1>3. IsInjective(by)
  BY DEF IsInjective
<1>4. \E o \in sorted : r = Lines(o)
  BY DEF Renderings
<1>5. \E o \in sorted : s = Lines(o)
  BY DEF Renderings
<1>6. PICK o \in sorted, q \in sorted : r = Lines(o) /\ s = Lines(q)
  <2>. HIDE DEF sorted, Lines
  <2>. QED BY <1>4, <1>5
<1>7. \A x \in SetToSeqs(S) : \A i \in DOMAIN x : x[i] \in S
  BY DEF SetToSeqs
<1>8. \A x \in sorted : /\ x \in SetToSeqs(S)
                        /\ \A i, j \in DOMAIN x : i < j => by[x[i]] <= by[x[j]]
  <2>1. \A k \in S : by[k] = c.params[k].sort
    OBVIOUS
  <2>. HIDE DEF by, S
  <2>. QED BY <1>7, <2>1
<1>. HIDE DEF sorted, by, S, Lines
<1>9. o = q
  BY <1>1, <1>2, <1>3, <1>6, <1>8, SortedInOneWay
<1>. QED BY <1>6, <1>9

\* get_character prints the same profile whenever it is asked, where no two
\* attributes share a sort value: the one it has printed is the only one the
\* map and the unstable sort can lead to (get_character.go, renderCharacter).
THEOREM ProfilesRepeat == Spec => []ProfilesAreRepeatable
<1>1. Init => ProfilesAreRepeatable
  BY DEF Init, ProfilesAreRepeatable, Answered
<1>2. Known /\ Next => ProfilesAreRepeatable'
  <2>. SUFFICES ASSUME Known, Next PROVE ProfilesAreRepeatable'
    OBVIOUS
  <2>. DEFINE p == Plots(Loaded)[FindPlot(Loaded, call'.plot)]
              c == p.chars[answer'.shown.char]
  <2>1. ASSUME Answered("get_character")', IsInjective([k \in Params(c) |-> c.params[k].sort])
        PROVE  Loaded' = Loaded /\ Renderings(c) = {answer'.shown.attributes}
    <3>1. Loaded' = Loaded /\ p \in Plot /\ answer'.shown.char \in DOMAIN p.chars
          /\ answer'.shown.attributes \in Renderings(c)
      BY <2>1, GotCharacter
    <3>2. c \in Character
      <4>. HIDE DEF p
      <4>. QED BY <3>1, PlotTypes, LenProperties
    <3>. HIDE DEF p, c
    <3>3. \A r \in Renderings(c) : r = answer'.shown.attributes
      BY <2>1, <3>1, <3>2, OneRendering
    <3>. QED BY <3>1, <3>3
  <2>2. ASSUME Answered("get_character")' PROVE Loaded' = Loaded
    BY <2>2, GotCharacter
  <2>. QED BY <2>1, <2>2 DEF ProfilesAreRepeatable, ThePlot
<1>3. UNCHANGED vars /\ ProfilesAreRepeatable => ProfilesAreRepeatable'
  BY DEF vars, ProfilesAreRepeatable, Answered, Loaded, ThePlot
<1>. QED BY <1>1, <1>2, <1>3, KnownAlways, PTL DEF Spec

-----------------------------------------------------------------------------
(* Filters.                                                                *)

\* The relationships shown for a name are those of the character it finds.
LEMMA ShownRelationships ==
    ASSUME Known, Next, Answered("list_relationships")', call'.name # Empty
    PROVE  LET p == Plots(Loaded)[FindPlot(Loaded, call'.plot)]
               c == FindCharacter(p, call'.name)
           IN  /\ Loaded' = Loaded /\ p \in Plot /\ call'.name \in Text /\ c \in DOMAIN p.chars
               /\ \A i \in DOMAIN p.rels : (\E x \in ToSet(answer'.shown) : x.rel = i)
                                              <=> Involves(p.rels[i], c - 1)
<1>0. call' # NoCall /\ call'.tool = "list_relationships" /\ answer'.error = ""
  BY DEF Answered
<1>1. PICK plot, name \in Query : ListRelationships(plot, name)
  BY <1>0, AnsweredByHandler
<1>. DEFINE n == FindPlot(Loaded, plot)
            p == Plots(Loaded)[n]
            c == IF name = Empty THEN 0 ELSE FindCharacter(p, name)
            keep == [i \in DOMAIN p.rels |-> Involves(p.rels[i], c - 1)]
            kept == Kept([i \in DOMAIN p.rels |-> i], keep)
            line(i) == [rel |-> kept[i],
                        from |-> CharNameAt(p, p.rels[kept[i]].from),
                        to |-> CharNameAt(p, p.rels[kept[i]].to)]
            inner == IF name # Empty /\ c = 0 THEN {Error("character not found")}
                     ELSE {Ok([i \in DOMAIN kept |-> line(i)])}
            answers == IF plot = Empty THEN {Error("argument is required")}
                       ELSE IF n = 0 THEN {Error("plot not found")}
                       ELSE inner
<1>2. Serve([tool |-> "list_relationships", plot |-> plot, name |-> name], answers)
  BY <1>1 DEF ListRelationships, WithPlot, Where
<1>3. /\ call' = [tool |-> "list_relationships", plot |-> plot, name |-> name] /\ answer' \in answers
      /\ Loaded' = Loaded /\ Loaded # ParseError
  <2>. HIDE DEF answers
  <2>. QED BY <1>0, <1>2, Served
<1>4. call'.plot = plot /\ call'.name = name /\ name # Empty
  BY <1>3
<1>5. Loaded \in Export /\ plot \in Text /\ name \in Text
  BY <1>3, LoadedIsExport, ReadToolsAssumption
<1>6. /\ Error("argument is required").error = "argument is required"
      /\ Error("plot not found").error = "plot not found"
      /\ Error("character not found").error = "character not found"
  BY DEF Error
<1>7. n # 0 /\ answer' \in inner
  <2>. HIDE DEF inner
  <2>. QED BY <1>0, <1>3, <1>6
<1>8. c # 0 /\ answer' = Ok([i \in DOMAIN kept |-> line(i)])
  <2>. HIDE DEF c, kept, line
  <2>. QED BY <1>0, <1>4, <1>6, <1>7
<1>9. c = FindCharacter(p, name)
  BY <1>4
<1>10. p \in Plot
  <2>1. n \in DOMAIN Plots(Loaded)
    BY <1>5, <1>7, FoundPlotMatches
  <2>. QED BY <1>5, <2>1, PlotsIsSeq, LenProperties
<1>. HIDE DEF n, p
<1>11. c \in DOMAIN p.chars
  <2>. HIDE DEF c
  <2>. QED BY <1>5, <1>8, <1>9, <1>10, FoundCharacterMatches
<1>12. Len(p.rels) \in Nat /\ DOMAIN p.rels = 1..Len(p.rels)
  BY <1>10, PlotTypes, LenProperties
<1>. HIDE DEF c
<1>13. \A i \in DOMAIN p.rels : keep[i] = Involves(p.rels[i], c - 1)
  OBVIOUS
<1>. HIDE DEF keep
<1>14. ToSet(kept) = {i \in 1..Len(p.rels) : keep[i]}
  BY <1>12, KeptPositions
<1>. HIDE DEF kept
<1>15. \A i : line(i).rel = kept[i]
  OBVIOUS
<1>. HIDE DEF line
<1>16. answer'.shown = [i \in DOMAIN kept |-> line(i)]
  BY <1>8 DEF Ok
<1>17. ASSUME NEW i \in DOMAIN p.rels
       PROVE  (\E x \in ToSet(answer'.shown) : x.rel = i) <=> Involves(p.rels[i], c - 1)
  <2>1. (\E x \in ToSet(answer'.shown) : x.rel = i) <=> \E j \in DOMAIN kept : kept[j] = i
    BY <1>15, <1>16 DEF ToSet
  <2>2. (\E j \in DOMAIN kept : kept[j] = i) <=> i \in ToSet(kept)
    BY DEF ToSet
  <2>. QED BY <1>12, <1>13, <1>14, <2>1, <2>2
<1>. QED BY <1>3, <1>4, <1>5, <1>9, <1>10, <1>11, <1>17 DEF p, n

\* The events shown for an era are those of the first era of that title.
LEMMA ShownEvents ==
    ASSUME Known, Next, Answered("list_events")', call'.era # Empty
    PROVE  LET p == Plots(Loaded)[FindPlot(Loaded, call'.plot)] IN
           /\ Loaded' = Loaded /\ p \in Plot
           /\ \E x \in DOMAIN p.eras :
                 /\ EqualFold(p.eras[x].title, call'.era)
                 /\ \A i \in DOMAIN p.events :
                       (\E y \in ToSet(answer'.shown) : y.event = i) <=> p.events[i].era = x - 1
<1>0. call' # NoCall /\ call'.tool = "list_events" /\ answer'.error = ""
  BY DEF Answered
<1>1. PICK plot, era \in Query : ListEvents(plot, era)
  BY <1>0, AnsweredByHandler
<1>. DEFINE n == FindPlot(Loaded, plot)
            p == Plots(Loaded)[n]
            E == {i \in 1..Len(p.eras) : EqualFold(p.eras[i].title, era)}
            x == IF era = Empty THEN 0 ELSE IF E # {} THEN Min(E) ELSE 0
            keep == [i \in DOMAIN p.events |-> x = 0 \/ p.events[i].era = x - 1]
            kept == Kept([i \in DOMAIN p.events |-> i], keep)
            line(i) == [event |-> kept[i], era |-> EraNameAt(p, p.events[kept[i]].era)]
            inner == IF era # Empty /\ x = 0 THEN {Error("era not found")}
                     ELSE {Ok([i \in DOMAIN kept |-> line(i)])}
            answers == IF plot = Empty THEN {Error("argument is required")}
                       ELSE IF n = 0 THEN {Error("plot not found")}
                       ELSE inner
<1>2. Serve([tool |-> "list_events", plot |-> plot, era |-> era], answers)
  BY <1>1 DEF ListEvents, WithPlot, Where, SelectInSeq
<1>3. /\ call' = [tool |-> "list_events", plot |-> plot, era |-> era] /\ answer' \in answers
      /\ Loaded' = Loaded /\ Loaded # ParseError
  <2>. HIDE DEF answers
  <2>. QED BY <1>0, <1>2, Served
<1>4. call'.plot = plot /\ call'.era = era /\ era # Empty
  BY <1>3
<1>5. Loaded \in Export /\ plot \in Text
  BY <1>3, LoadedIsExport, ReadToolsAssumption
<1>6. /\ Error("argument is required").error = "argument is required"
      /\ Error("plot not found").error = "plot not found"
      /\ Error("era not found").error = "era not found"
  BY DEF Error
<1>7. n # 0 /\ answer' \in inner
  <2>. HIDE DEF inner
  <2>. QED BY <1>0, <1>3, <1>6
<1>8. x # 0 /\ answer' = Ok([i \in DOMAIN kept |-> line(i)])
  <2>. HIDE DEF x, kept, line
  <2>. QED BY <1>0, <1>4, <1>6, <1>7
<1>9. p \in Plot
  <2>1. n \in DOMAIN Plots(Loaded)
    BY <1>5, <1>7, FoundPlotMatches
  <2>. QED BY <1>5, <2>1, PlotsIsSeq, LenProperties
<1>. HIDE DEF n, p
<1>10. /\ Len(p.events) \in Nat /\ DOMAIN p.events = 1..Len(p.events)
       /\ Len(p.eras) \in Nat /\ DOMAIN p.eras = 1..Len(p.eras)
  BY <1>9, PlotTypes, LenProperties
<1>11. x \in DOMAIN p.eras /\ EqualFold(p.eras[x].title, era)
  <2>1. x # 0 /\ x = IF E # {} THEN Min(E) ELSE 0
    BY <1>4, <1>8
  <2>2. E \subseteq 1..Len(p.eras) /\ \A i \in E : EqualFold(p.eras[i].title, era)
    OBVIOUS
  <2>. HIDE DEF x, E
  <2>. QED BY <1>10, <2>1, <2>2, FirstOfSequence
<1>. HIDE DEF x
<1>12. \A i \in DOMAIN p.events : keep[i] = (p.events[i].era = x - 1)
  BY <1>8
<1>. HIDE DEF keep
<1>13. ToSet(kept) = {i \in 1..Len(p.events) : keep[i]}
  BY <1>10, KeptPositions
<1>. HIDE DEF kept
<1>14. \A i : line(i).event = kept[i]
  OBVIOUS
<1>. HIDE DEF line
<1>15. answer'.shown = [i \in DOMAIN kept |-> line(i)]
  BY <1>8 DEF Ok
<1>16. ASSUME NEW i \in DOMAIN p.events
       PROVE  (\E y \in ToSet(answer'.shown) : y.event = i) <=> p.events[i].era = x - 1
  <2>1. (\E y \in ToSet(answer'.shown) : y.event = i) <=> \E j \in DOMAIN kept : kept[j] = i
    BY <1>14, <1>15 DEF ToSet
  <2>2. (\E j \in DOMAIN kept : kept[j] = i) <=> i \in ToSet(kept)
    BY DEF ToSet
  <2>. QED BY <1>10, <1>12, <1>13, <2>1, <2>2
<1>. QED BY <1>3, <1>4, <1>9, <1>11, <1>16 DEF p, n

\* list_relationships and list_events keep by position and print names: where
\* names are distinct they show exactly what prints the name asked for, the
\* first character included and indices that point nowhere too
\* (list_relationships.go, eras.go).
THEOREM FiltersMatch == Spec => []FiltersMatchWhatIsShown
<1>1. Init => FiltersMatchWhatIsShown
  BY DEF Init, FiltersMatchWhatIsShown, Answered
<1>2. Known /\ Next => FiltersMatchWhatIsShown'
  <2>. SUFFICES ASSUME Known, Next PROVE FiltersMatchWhatIsShown'
    OBVIOUS
  <2>. DEFINE p == Plots(Loaded)[FindPlot(Loaded, call'.plot)]
  <2>1. ASSUME Answered("list_relationships")', call'.name # Empty, DistinctNames(p),
               NEW i \in DOMAIN p.rels
        PROVE  (\E x \in ToSet(answer'.shown) : x.rel = i) <=>
                  Name(p.chars[FindCharacter(p, call'.name)])
                     \in {CharNameAt(p, p.rels[i].from), CharNameAt(p, p.rels[i].to)}
    <3>. DEFINE c == FindCharacter(p, call'.name)
                r == p.rels[i]
    <3>1. /\ p \in Plot /\ c \in DOMAIN p.chars
          /\ (\E x \in ToSet(answer'.shown) : x.rel = i) <=> Involves(r, c - 1)
      BY <2>1, ShownRelationships
    <3>. HIDE DEF p, c
    <3>2. Len(p.chars) \in Nat /\ DOMAIN p.chars = 1..Len(p.chars)
          /\ \A k \in 1..Len(p.chars) : Name(p.chars[k]) \in Text
      BY <3>1, PlotTypes, LenProperties, NameIsText
    <3>3. r.from \in Int /\ r.to \in Int
      <4>. DEFINE U == [from : Int, to : Int, texts : SUBSET Text]
      <4>1. p.rels \in Seq(U) /\ \A y \in U : y.from \in Int /\ y.to \in Int
        BY <3>1, PlotTypes
      <4>. HIDE DEF U
      <4>. QED BY <2>1, <4>1, LenProperties
    <3>5. ASSUME NEW k \in Int
          PROVE  CharNameAt(p, k) = Name(p.chars[c]) <=> k = c - 1
      <4>1. CASE k < 0 \/ k >= Len(p.chars)
        BY <3>1, <3>2, <4>1, ReadToolsAssumption DEF CharNameAt
      <4>2. CASE ~(k < 0 \/ k >= Len(p.chars))
        <5>1. k + 1 \in 1..Len(p.chars) /\ c \in 1..Len(p.chars)
          BY <3>1, <3>2, <4>2
        <5>2. CharNameAt(p, k) = Name(p.chars[k + 1])
          BY <4>2 DEF CharNameAt
        <5>3. Name(p.chars[k + 1]) = Name(p.chars[c]) <=> k + 1 = c
          BY <2>1, <3>2, <5>1 DEF DistinctNames, IsInjective
        <5>. QED BY <5>1, <5>2, <5>3
      <4>. QED BY <4>1, <4>2
    <3>6. Involves(r, c - 1) <=> r.from = c - 1 \/ r.to = c - 1
      BY <3>1, <3>2 DEF Involves
    <3>. HIDE DEF r
    <3>7. Involves(r, c - 1) <=> Name(p.chars[c]) \in {CharNameAt(p, r.from), CharNameAt(p, r.to)}
      BY <3>3, <3>5, <3>6
    <3>. QED BY <3>1, <3>7 DEF c, r
  <2>2. ASSUME Answered("list_events")', call'.era # Empty,
               IsInjective([j \in DOMAIN p.eras |-> Lower[p.eras[j].title]]),
               NEW i \in DOMAIN p.events
        PROVE  (\E x \in ToSet(answer'.shown) : x.event = i) <=>
                  LET name == EraNameAt(p, p.events[i].era) IN
                  name # NoIndex /\ EqualFold(name, call'.era)
    <3>. DEFINE k == p.events[i].era
    <3>1. p \in Plot /\ \E x \in DOMAIN p.eras :
             /\ EqualFold(p.eras[x].title, call'.era)
             /\ (\E y \in ToSet(answer'.shown) : y.event = i) <=> k = x - 1
      BY <2>2, ShownEvents
    <3>2. PICK x \in DOMAIN p.eras :
             /\ EqualFold(p.eras[x].title, call'.era)
             /\ (\E y \in ToSet(answer'.shown) : y.event = i) <=> k = x - 1
      BY <3>1
    <3>. HIDE DEF p
    <3>3. Len(p.eras) \in Nat /\ DOMAIN p.eras = 1..Len(p.eras)
          /\ \A j \in 1..Len(p.eras) : p.eras[j].title \in Text
      <4>. DEFINE U == [title : Text, texts : SUBSET Text]
      <4>1. p.eras \in Seq(U) /\ \A e \in U : e.title \in Text
        BY <3>1, PlotTypes
      <4>. HIDE DEF U
      <4>. QED BY <4>1, LenProperties
    <3>4. k \in Int
      <4>. DEFINE U == [era : Int, texts : SUBSET Text]
      <4>1. p.events \in Seq(U) /\ \A e \in U : e.era \in Int
        BY <3>1, PlotTypes
      <4>. HIDE DEF U
      <4>. QED BY <2>2, <4>1, LenProperties
    <3>. HIDE DEF k
    <3>5. EraNameAt(p, k) # NoIndex /\ EqualFold(EraNameAt(p, k), call'.era) <=> k = x - 1
      <4>1. CASE k >= 0 /\ k < Len(p.eras)
        <5>1. k + 1 \in 1..Len(p.eras) /\ x \in 1..Len(p.eras)
          BY <3>2, <3>3, <3>4, <4>1
        <5>2. EraNameAt(p, k) = p.eras[k + 1].title /\ EraNameAt(p, k) # NoIndex
          BY <3>3, <4>1, <5>1, ReadToolsAssumption DEF EraNameAt
        <5>3. Lower[p.eras[k + 1].title] = Lower[p.eras[x].title] <=> k + 1 = x
          BY <2>2, <3>3, <5>1 DEF IsInjective
        <5>. QED BY <3>2, <3>4, <5>1, <5>2, <5>3 DEF EqualFold
      <4>2. CASE ~(k >= 0 /\ k < Len(p.eras))
        BY <3>2, <3>3, <3>4, <4>2 DEF EraNameAt
      <4>. QED BY <4>1, <4>2
    <3>. QED BY <3>2, <3>5 DEF k
  <2>3. Answered("list_relationships")' /\ call'.name # Empty => Loaded' = Loaded
    BY ShownRelationships
  <2>4. Answered("list_events")' /\ call'.era # Empty => Loaded' = Loaded
    BY ShownEvents
  <2>. QED BY <2>1, <2>2, <2>3, <2>4 DEF FiltersMatchWhatIsShown, ThePlot
<1>3. UNCHANGED vars /\ FiltersMatchWhatIsShown => FiltersMatchWhatIsShown'
  BY DEF vars, FiltersMatchWhatIsShown, Answered, Loaded, ThePlot
<1>. QED BY <1>1, <1>2, <1>3, KnownAlways, PTL DEF Spec

-----------------------------------------------------------------------------
(* The profiles of a context.                                              *)

\* Going from characters to names and back to positions, no one is lost and no
\* one comes twice where names are distinct.
LEMMA NamesLeadBack ==
    ASSUME NEW p \in Plot, DistinctNames(p), NEW chosen \in Seq(Character),
           ToSet(chosen) \subseteq ToSet(p.chars), IsInjective(chosen)
    PROVE  LET ps == Profiles(p, [i \in DOMAIN chosen |-> Name(chosen[i])]) IN
           /\ ToSet(ps) = {j \in DOMAIN p.chars : p.chars[j] \in ToSet(chosen)}
           /\ IsInjective(ps)
<1>. DEFINE cs == p.chars
            names == [i \in DOMAIN chosen |-> Name(chosen[i])]
            found == [i \in DOMAIN names |-> FindCharacter(p, names[i])]
            keep == [i \in DOMAIN names |-> found[i] # 0]
            ps == Profiles(p, names)
<1>1. Len(chosen) \in Nat /\ DOMAIN chosen = 1..Len(chosen)
  BY LenProperties
<1>2. cs \in Seq(Character) /\ Len(cs) \in Nat /\ DOMAIN cs = 1..Len(cs)
  BY PlotTypes, LenProperties
<1>3. \A i, j \in 1..Len(cs) : Name(cs[i]) = Name(cs[j]) => i = j
  BY <1>2 DEF DistinctNames, IsInjective
<1>4. ASSUME NEW i \in 1..Len(chosen)
      PROVE  found[i] \in 1..Len(cs) /\ cs[found[i]] = chosen[i]
  <2>1. chosen[i] \in ToSet(cs)
    BY <1>1 DEF ToSet
  <2>2. PICK j \in 1..Len(cs) : cs[j] = chosen[i]
    <3>. HIDE DEF cs
    <3>. QED BY <1>2, <2>1 DEF ToSet
  <2>3. \A k \in DOMAIN cs \ {j} : Name(cs[k]) # Name(cs[j])
    <3>. HIDE DEF cs
    <3>. QED BY <1>2, <1>3, <2>2
  <2>4. FindCharacter(p, Name(cs[j])) = j
    BY <1>2, <2>2, <2>3, OwnNameFindsCharacter
  <2>. QED BY <1>1, <2>2, <2>4
<1>5. DOMAIN found = 1..Len(chosen) /\ DOMAIN names = 1..Len(chosen)
  BY <1>1
<1>6. ps = Kept(found, keep)
  BY DEF Profiles
<1>7. \A i \in 1..Len(chosen) : keep[i]
  <2>1. \A i \in 1..Len(chosen) : keep[i] = (found[i] # 0)
    BY <1>5
  <2>. HIDE DEF keep, found, names, cs
  <2>2. \A i \in 1..Len(chosen) : found[i] # 0
    BY <1>2, <1>4
  <2>. QED BY <2>1, <2>2, Zenon
<1>. DEFINE at(i) == FindCharacter(p, names[i])
<1>8. found \in Seq(Nat) /\ Len(found) = Len(chosen)
  <2>1. found = [i \in 1..Len(chosen) |-> at(i)] /\ \A i \in 1..Len(chosen) : at(i) = found[i]
    BY <1>5
  <2>. HIDE DEF at, found, names, cs
  <2>2. \A i \in 1..Len(chosen) : at(i) \in Nat
    BY <1>2, <1>4, <2>1
  <2>. QED BY <1>1, <2>1, <2>2
<1>. HIDE DEF found, names, keep, cs, ps, at
<1>9. IsInjective(found)
  BY <1>1, <1>4, <1>5 DEF IsInjective
<1>10. /\ \A x : x \in ToSet(ps) <=> \E i \in 1..Len(found) : keep[i] /\ found[i] = x
       /\ IsInjective(ps)
  <2>1. \A x : x \in ToSet(Kept(found, keep)) <=> \E i \in 1..Len(found) : keep[i] /\ found[i] = x
    BY <1>8, KeptMembers
  <2>2. IsInjective(Kept(found, keep))
    BY <1>8, <1>9, KeptMembers
  <2>. QED BY <1>6, <2>1, <2>2
<1>11. ASSUME NEW j \in 1..Len(cs), cs[j] \in ToSet(chosen)
       PROVE  j \in ToSet(ps)
  <2>1. PICK i \in 1..Len(chosen) : chosen[i] = cs[j]
    BY <1>1, <1>11 DEF ToSet
  <2>2. found[i] = j
    BY <1>3, <1>4, <2>1
  <2>. QED BY <1>7, <1>8, <1>10, <2>2
<1>12. ASSUME NEW j \in ToSet(ps)
       PROVE  j \in 1..Len(cs) /\ cs[j] \in ToSet(chosen)
  <2>1. PICK i \in 1..Len(chosen) : found[i] = j
    BY <1>8, <1>10
  <2>. QED BY <1>1, <1>4, <2>1 DEF ToSet
<1>13. ToSet(ps) = {j \in DOMAIN cs : cs[j] \in ToSet(chosen)}
  BY <1>2, <1>11, <1>12
<1>. QED BY <1>10, <1>13 DEF ps, names, cs

\* The default targets lead to the main characters, or to all when there is none.
LEMMA DefaultProfiles ==
    ASSUME NEW p \in Plot, DistinctNames(p)
    PROVE  LET ps == Profiles(p, DefaultTargets(p))
               main == {i \in DOMAIN p.chars : EqualFold(p.chars[i].priority, Main)}
           IN  /\ ToSet(ps) = IF main = {} THEN DOMAIN p.chars ELSE main
               /\ IsInjective(ps)
<1>. DEFINE cs == p.chars
            keep == [i \in DOMAIN cs |-> EqualFold(cs[i].priority, Main)]
            mains == Kept(cs, keep)
            chosen == IF mains = << >> THEN cs ELSE mains
            main == {i \in DOMAIN cs : EqualFold(cs[i].priority, Main)}
<1>1. cs \in Seq(Character) /\ Len(cs) \in Nat /\ DOMAIN cs = 1..Len(cs)
  BY PlotTypes, LenProperties
<1>2. IsInjective(cs)
  BY DEF DistinctNames, IsInjective
<1>3. DefaultTargets(p) = [i \in DOMAIN chosen |-> Name(chosen[i])]
  BY DEF DefaultTargets
<1>4. \A i \in 1..Len(cs) : keep[i] <=> i \in main
  <2>1. \A i \in DOMAIN cs : keep[i] = EqualFold(cs[i].priority, Main)
    BY Zenon
  <2>2. \A i \in DOMAIN cs : i \in main <=> EqualFold(cs[i].priority, Main)
    BY Zenon
  <2>. HIDE DEF keep, main, cs
  <2>. QED BY <1>1, <2>1, <2>2, Zenon
<1>5. main \subseteq 1..Len(cs)
  BY <1>1
<1>. HIDE DEF keep, cs, main
<1>6. /\ mains \in Seq(Character) /\ IsInjective(mains)
      /\ \A x : x \in ToSet(mains) <=> \E i \in 1..Len(cs) : keep[i] /\ cs[i] = x
  BY <1>1, <1>2, KeptMembers
<1>. HIDE DEF mains
<1>7. \A i \in 1..Len(cs) : cs[i] \in ToSet(mains) <=> i \in main
  <2>1. \A i, j \in 1..Len(cs) : cs[i] = cs[j] => i = j
    BY <1>1, <1>2 DEF IsInjective
  <2>2. ASSUME NEW i \in 1..Len(cs), cs[i] \in ToSet(mains) PROVE i \in main
    <3>1. PICK k \in 1..Len(cs) : keep[k] /\ cs[k] = cs[i]
      BY <1>6, <2>2
    <3>2. k = i
      BY <2>1, <3>1
    <3>. QED BY <1>4, <3>1, <3>2
  <2>3. ASSUME NEW i \in 1..Len(cs), i \in main PROVE cs[i] \in ToSet(mains)
    <3>1. keep[i]
      BY <1>4, <2>3
    <3>. QED BY <1>6, <3>1
  <2>. QED BY <2>2, <2>3
<1>8. \A i \in 1..Len(cs) : cs[i] \in ToSet(cs)
  BY <1>1 DEF ToSet
<1>9. mains = << >> <=> main = {}
  <2>1. CASE mains = << >>
    <3>1. ToSet(mains) = {}
      BY <2>1 DEF ToSet
    <3>. QED BY <1>5, <1>7, <2>1, <3>1
  <2>2. CASE mains # << >>
    <3>1. 1 \in DOMAIN mains
      BY <1>6, <2>2, EmptySeq, LenProperties
    <3>2. mains[1] \in ToSet(mains)
      BY <3>1 DEF ToSet
    <3>. QED BY <1>4, <1>6, <2>2, <3>2
  <2>. QED BY <2>1, <2>2
<1>10. /\ chosen \in Seq(Character) /\ ToSet(chosen) \subseteq ToSet(cs) /\ IsInjective(chosen)
  BY <1>1, <1>2, <1>6, <1>8
<1>11. {j \in DOMAIN cs : cs[j] \in ToSet(chosen)} = IF main = {} THEN DOMAIN cs ELSE main
  BY <1>1, <1>5, <1>7, <1>8, <1>9
<1>. HIDE DEF chosen
<1>12. LET ps == Profiles(p, [i \in DOMAIN chosen |-> Name(chosen[i])]) IN
       /\ ToSet(ps) = {j \in DOMAIN p.chars : p.chars[j] \in ToSet(chosen)}
       /\ IsInjective(ps)
  BY <1>10, NamesLeadBack DEF cs
<1>. QED BY <1>3, <1>11, <1>12 DEF cs, main

\* A context shows the profiles of the default targets when none are given.
LEMMA ShownProfiles ==
    ASSUME Known, Next, Answered("generate_context")', call'.targets = << >>
    PROVE  LET p == Plots(Loaded)[FindPlot(Loaded, call'.plot)] IN
           /\ Loaded' = Loaded /\ p \in Plot
           /\ answer'.shown.profiles = Profiles(p, DefaultTargets(p))
<1>0. call' # NoCall /\ call'.tool = "generate_context" /\ answer'.error = ""
  BY DEF Answered
<1>1. PICK plot, focus \in Query, targets \in Targets, m \in Tokens :
         GenerateContext(plot, focus, targets, m)
  BY <1>0, AnsweredByHandler
<1>. DEFINE n == FindPlot(Loaded, plot)
            p == Plots(Loaded)[n]
            ps == Profiles(p, IF targets = << >> THEN DefaultTargets(p) ELSE targets)
            c == [tool |-> "generate_context", plot |-> plot, focus |-> focus,
                  targets |-> targets, maxTokens |-> m]
            Answers(size, max) ==
              IF plot = Empty \/ focus = Empty THEN {Error("argument is required")}
              ELSE IF n = 0 THEN {Error("plot not found")}
              ELSE {Cut(size, max, ps)}
<1>2. \E size, max : Serve(c, Answers(size, max))
  BY <1>1 DEF GenerateContext, WithPlot
<1>3. PICK size, max : Serve(c, Answers(size, max))
  BY <1>2
<1>4. /\ call' = c /\ answer' \in Answers(size, max) /\ Loaded' = Loaded /\ Loaded # ParseError
  <2>. DEFINE answers == Answers(size, max)
  <2>1. Serve(c, answers)
    BY <1>3
  <2>. HIDE DEF answers
  <2>2. call' = c /\ answer' \in answers /\ Loaded' = Loaded /\ Loaded # ParseError
    BY <1>0, <2>1, Served
  <2>. QED BY <2>2 DEF answers
<1>5. call'.plot = plot /\ call'.targets = targets
  BY <1>4
<1>6. Loaded \in Export /\ plot \in Text
  BY <1>4, LoadedIsExport, ReadToolsAssumption
<1>7. /\ Error("argument is required").error = "argument is required"
      /\ Error("plot not found").error = "plot not found"
      /\ Error("panic").error = "panic"
  BY DEF Error
<1>8. n # 0 /\ answer' = Cut(size, max, ps)
  <2>. HIDE DEF ps, n
  <2>. QED BY <1>0, <1>4, <1>7
<1>9. answer'.shown.profiles = ps
  <2>. HIDE DEF ps, n
  <2>1. \A x : Ok(x).shown = x
    BY DEF Ok
  <2>. DEFINE whole == [profiles |-> ps, size |-> size, cut |-> FALSE]
              part == [profiles |-> ps, size |-> max, cut |-> TRUE]
  <2>2. answer' = Ok(whole) \/ answer' = Ok(part)
    BY <1>0, <1>7, <1>8 DEF Cut
  <2>3. whole.profiles = ps /\ part.profiles = ps
    OBVIOUS
  <2>. HIDE DEF whole, part
  <2>. QED BY <2>1, <2>2, <2>3
<1>10. ps = Profiles(p, DefaultTargets(p))
  BY <1>5
<1>11. p \in Plot
  <2>1. n \in DOMAIN Plots(Loaded)
    BY <1>6, <1>8, FoundPlotMatches
  <2>. QED BY <1>6, <2>1, PlotsIsSeq, LenProperties
<1>. QED BY <1>4, <1>5, <1>9, <1>10, <1>11

\* Without targetCharacters generate_context profiles each main character once
\* and nobody else, or everybody when none is main, although it goes from
\* characters to names and back (generate_context.go:70-92).
THEOREM DefaultsAreMain == Spec => []DefaultProfilesAreMain
<1>1. Init => DefaultProfilesAreMain
  BY DEF Init, DefaultProfilesAreMain, Answered
<1>2. Known /\ Next => DefaultProfilesAreMain'
  <2>. SUFFICES ASSUME Known, Next, Answered("generate_context")', call'.targets = << >>
                PROVE  DefaultProfilesAreMain'
    BY DEF DefaultProfilesAreMain
  <2>. DEFINE p == Plots(Loaded)[FindPlot(Loaded, call'.plot)]
  <2>1. Loaded' = Loaded /\ p \in Plot /\ answer'.shown.profiles = Profiles(p, DefaultTargets(p))
    BY ShownProfiles
  <2>2. ASSUME DistinctNames(p)
        PROVE  LET main == {i \in DOMAIN p.chars : EqualFold(p.chars[i].priority, Main)} IN
               /\ ToSet(answer'.shown.profiles) = IF main = {} THEN DOMAIN p.chars ELSE main
               /\ IsInjective(answer'.shown.profiles)
    <3>. HIDE DEF p
    <3>. QED BY <2>1, <2>2, DefaultProfiles
  <2>. QED BY <2>1, <2>2 DEF DefaultProfilesAreMain, ThePlot
<1>3. UNCHANGED vars /\ DefaultProfilesAreMain => DefaultProfilesAreMain'
  BY DEF vars, DefaultProfilesAreMain, Answered, Loaded, ThePlot
<1>. QED BY <1>1, <1>2, <1>3, KnownAlways, PTL DEF Spec
=============================================================================
