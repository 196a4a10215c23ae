----------------------------- MODULE ReadTools ------------------------------
(***************************************************************************)
(* The nine tools that only read (internal/tools/).  Each handler loads    *)
(* the caller's corpus, looks at its arguments and answers; an action is   *)
(* one whole handler.  What Load does beyond Parse is in UserStore.        *)
(*                                                                         *)
(* An answer lists what a handler shows: positions in the corpus, and the  *)
(* names and values it prints where a property is about them.              *)
(***************************************************************************)
EXTENDS Corpus, FiniteSetsExt

CONSTANTS
    File,               \* the corpora the store may hold
    Query,              \* the texts callers ask with, Empty among them
    Targets,            \* lists of texts, for targetCharacters
    Tokens,             \* values of maxTokens
    DefaultTokens,      \* 4000
    IntMax,             \* the largest int: 2^63 - 1
    HeadSize, ProfileSize,  \* bytes of a context without profiles, of a profile
    NoCall, NoIndex

ASSUME ReadToolsAssumption ==
    /\ File \subseteq Envelope \cup {Bad}
    /\ Query \subseteq Text /\ Empty \in Query
    /\ IntMax \in Nat /\ Tokens \subseteq (-IntMax - 1)..IntMax
    /\ DefaultTokens \in Nat /\ HeadSize \in Nat /\ ProfileSize \in Nat
    /\ NoIndex \notin Text

Tool == {"list_plots", "get_plot", "list_characters", "get_character",
         "list_relationships", "list_eras", "list_events", "search", "generate_context"}

Scope == {"", "plot", "character", "all", "other"}

\* A call with the arguments of its tool; without them, one that is refused.
Call ==
    [tool : {"list_plots"}, folder : Query, status : Query, tag : Query]
    \cup [tool : {"get_plot"}, title : Query]
    \cup [tool : {"list_characters"}, plot : Query, priority : Query]
    \cup [tool : {"get_character", "list_relationships"}, plot : Query, name : Query]
    \cup [tool : {"list_eras"}, plot : Query]
    \cup [tool : {"list_events"}, plot : Query, era : Query]
    \cup [tool : {"search"}, query : Query, scope : Scope]
    \cup [tool : {"generate_context"}, plot : Query, focus : Query,
          targets : Targets, maxTokens : Tokens]
    \cup [tool : Tool]

ASSUME NoCallAssumption == NoCall \notin Call

VARIABLES
    file,               \* the caller's storyplotter.json
    call,               \* the tool call being answered
    answer

vars == << file, call, answer >>

Ok(shown) == [error |-> "", shown |-> shown]
Error(why) == [error |-> why, shown |-> << >>]

NoAnswer == Error("none")

Init == /\ file \in File
        /\ call = NoCall
        /\ answer = NoAnswer

\* A handler runs; before all else it loads the corpus.
Serve(c, answers) ==
    /\ call = NoCall
    /\ call' = c
    /\ answer' \in IF Parse(file) = ParseError THEN {Error("load data")} ELSE answers
    /\ UNCHANGED file

Loaded == Parse(file)

\* The checks every tool about one plot starts with.
WithPlot(title, required, Answers(_)) ==
    IF required THEN {Error("argument is required")}
    ELSE IF FindPlot(Loaded, title) = 0 THEN {Error("plot not found")}
    ELSE Answers(Plots(Loaded)[FindPlot(Loaded, title)])

-----------------------------------------------------------------------------
(* list_plots and get_plot.                                                *)

ListPlots(folder, status, tag) ==
    Serve([tool |-> "list_plots", folder |-> folder, status |-> status, tag |-> tag],
          {Ok(Where(Plots(Loaded), LAMBDA p :
              /\ folder # Empty => p.folder = folder \/ p.folder \in Under[folder]
              /\ status # Empty => p.status = status
              /\ tag # Empty => \E t \in ToSet(Tags(p)) : EqualFold(t, tag)))})

\* The folder is looked at when no title matches.
GetPlot(title) ==
    LET found == FindPlot(Loaded, title)
        candidates == FindPlotsByFolder(Loaded, title)
    IN  Serve([tool |-> "get_plot", title |-> title],
              {IF title = Empty THEN Error("title is required")
               ELSE IF found # 0 THEN Ok(<< found >>)
               ELSE CASE Len(candidates) = 0 -> Error("plot not found")
                      [] Len(candidates) = 1 -> Ok(candidates)
                      [] OTHER -> [error |-> "ambiguous folder", shown |-> candidates]})

-----------------------------------------------------------------------------
(* list_characters and get_character.                                      *)

ListCharacters(plot, priority) ==
    LET Of(i) == [j \in 1..Len(Plots(Loaded)[i].chars) |-> << i, j >>]
        Wanted(ij) == \/ priority = Empty
                      \/ EqualFold(Plots(Loaded)[ij[1]].chars[ij[2]].priority, priority)
        plots == IF plot = Empty THEN DOMAIN Plots(Loaded) ELSE {FindPlot(Loaded, plot)}
        all == FlattenSeq([i \in DOMAIN Plots(Loaded) |-> IF i \in plots THEN Of(i) ELSE << >>])
    IN  Serve([tool |-> "list_characters", plot |-> plot, priority |-> priority],
              {IF plots = {0} THEN Error("plot not found") ELSE Ok(Kept(all, [n \in DOMAIN all |-> Wanted(all[n])]))})

\* Mutant of Renderings: the keys in the order the map gives them.
RenderingsUnsorted(c) ==
    LET shown == {k \in Params(c) : ~c.params[k].silent /\ c.params[k].value # Empty}
    IN  {[i \in DOMAIN o |-> << o[i], c.params[o[i]].value >>] : o \in SetToSeqs(shown)}

\* renderCharacter's attributes.  The keys come from a map and sort.Slice is
\* not stable: any order that respects Sort may come out.
Renderings(c) ==
    LET shown == {k \in Params(c) : ~c.params[k].silent /\ c.params[k].value # Empty}
        sorted == {o \in SetToSeqs(shown) :
                     \A i, j \in DOMAIN o : i < j => c.params[o[i]].sort <= c.params[o[j]].sort}
    IN  {[i \in DOMAIN o |-> << o[i], c.params[o[i]].value >>] : o \in sorted}

GetCharacter(plot, name) ==
    Serve([tool |-> "get_character", plot |-> plot, name |-> name],
          WithPlot(plot, plot = Empty \/ name = Empty, LAMBDA p :
              LET c == FindCharacter(p, name) IN
              IF c = 0 THEN {Error("character not found")}
              ELSE {Ok([char |-> c, attributes |-> r]) : r \in Renderings(p.chars[c])}))

-----------------------------------------------------------------------------
(* list_relationships, list_eras and list_events.  The indices in the file *)
(* count from 0 and may point nowhere.                                     *)

CharNameAt(p, i) == IF i < 0 \/ i >= Len(p.chars) THEN NoIndex ELSE Name(p.chars[i + 1])

\* Mutant of Involves: the first character is taken for no filter.
InvolvesNotFirst(r, filter) == filter <= 0 \/ r.from = filter \/ r.to = filter

Involves(r, filter) == filter < 0 \/ r.from = filter \/ r.to = filter

ListRelationships(plot, name) ==
    Serve([tool |-> "list_relationships", plot |-> plot, name |-> name],
          WithPlot(plot, plot = Empty, LAMBDA p :
              LET c == IF name = Empty THEN 0 ELSE FindCharacter(p, name)
                  kept == Where(p.rels, LAMBDA r : Involves(r, c - 1))
              IN  IF name # Empty /\ c = 0 THEN {Error("character not found")}
                  ELSE {Ok([i \in DOMAIN kept |->
                              [rel |-> kept[i],
                               from |-> CharNameAt(p, p.rels[kept[i]].from),
                               to |-> CharNameAt(p, p.rels[kept[i]].to)]])}))

ListEras(plot) ==
    Serve([tool |-> "list_eras", plot |-> plot],
          WithPlot(plot, plot = Empty, LAMBDA p : {Ok([i \in DOMAIN p.eras |-> i])}))

EraNameAt(p, i) == IF i >= 0 /\ i < Len(p.eras) THEN p.eras[i + 1].title ELSE NoIndex

ListEvents(plot, era) ==
    Serve([tool |-> "list_events", plot |-> plot, era |-> era],
          WithPlot(plot, plot = Empty, LAMBDA p :
              LET x == IF era = Empty THEN 0
                       ELSE SelectInSeq(p.eras, LAMBDA y : EqualFold(y.title, era))
                  kept == Where(p.events, LAMBDA ev : x = 0 \/ ev.era = x - 1)
              IN  IF era # Empty /\ x = 0 THEN {Error("era not found")}
                  ELSE {Ok([i \in DOMAIN kept |->
                              [event |-> kept[i],
                               era |-> EraNameAt(p, p.events[kept[i]].era)]])}))

-----------------------------------------------------------------------------
(* search.                                                                 *)

CharacterTexts(c) ==
    {Name(c)} \cup UNION {{c.params[k].value, c.params[k].name} : k \in Params(c)}

\* Where the search looks, in the order it looks there.
Places(p, scope) ==
    LET Each(kind, s) == [i \in DOMAIN s |-> [kind |-> kind, at |-> << i >>, texts |-> s[i].texts]]
        Unit(i) == << [kind |-> "sequence", at |-> << i >>, texts |-> p.units[i].texts] >>
                   \o [j \in DOMAIN p.units[i].cards |->
                         [kind |-> "card", at |-> << i, j >>, texts |-> p.units[i].cards[j].texts]]
        story == << [kind |-> "plot", at |-> << >>, texts |-> {p.title, p.subtitle}] >>
                 \o FlattenSeq([i \in DOMAIN p.units |-> Unit(i)])
                 \o Each("era", p.eras) \o Each("event", p.events)
                 \o Each("area", p.areas) \o Each("relationship", p.rels)
        people == [i \in DOMAIN p.chars |-> [kind |-> "character", at |-> << i >>,
                                             texts |-> CharacterTexts(p.chars[i])]]
    IN  (IF scope \in {"plot", "all"} THEN story ELSE << >>)
        \o (IF scope \in {"character", "all"} THEN people ELSE << >>)

\* Mutant of Matches: the query is lowered and the text is not.
MatchesLowerQuery(texts, query) == \E t \in texts : Includes(t, Lower[query])

Matches(texts, query) == \E t \in texts : IncludesFold(t, query)

Hits(i, query, scope) ==
    LET places == Places(Plots(Loaded)[i], IF scope = "" THEN "all" ELSE scope)
        hits == Kept(places, [j \in DOMAIN places |-> Matches(places[j].texts, query)])
    IN  [j \in DOMAIN hits |-> [plot |-> i, kind |-> hits[j].kind, at |-> hits[j].at]]

Search(query, scope) ==
    Serve([tool |-> "search", query |-> query, scope |-> scope],
          {IF query = Empty THEN Error("query is required")
           ELSE Ok(FlattenSeq([i \in DOMAIN Plots(Loaded) |-> Hits(i, query, scope)]))})

-----------------------------------------------------------------------------
(* generate_context.                                                       *)

\* What is left of an integer product in an int.
Wrap(n) == ((n + IntMax + 1) % (2 * (IntMax + 1))) - (IntMax + 1)

\* Mutant of DefaultTargets: the priority is compared letter by letter.
DefaultTargetsExact(p) ==
    LET main == Kept(p.chars, [i \in DOMAIN p.chars |-> p.chars[i].priority = Main])
        chosen == IF main = << >> THEN p.chars ELSE main
    IN  [i \in DOMAIN chosen |-> Name(chosen[i])]

\* The profiles nobody asked for by name: the main characters', or all.
DefaultTargets(p) ==
    LET main == Kept(p.chars, [i \in DOMAIN p.chars |-> EqualFold(p.chars[i].priority, Main)])
        chosen == IF main = << >> THEN p.chars ELSE main
    IN  [i \in DOMAIN chosen |-> Name(chosen[i])]

\* Names nobody has are skipped.
Profiles(p, names) ==
    LET found == [i \in DOMAIN names |-> FindCharacter(p, names[i])]
    IN  Kept(found, [i \in DOMAIN names |-> found[i] # 0])

\* The cut: out[:maxChars] panics on a negative length.
Cut(size, maxChars, profiles) ==
    IF size <= maxChars THEN Ok([profiles |-> profiles, size |-> size, cut |-> FALSE])
    ELSE IF maxChars < 0 THEN Error("panic")
    ELSE Ok([profiles |-> profiles, size |-> maxChars, cut |-> TRUE])

\* Each profile is a Renderings of its character, of which only the size counts.
GenerateContext(plot, focus, targets, maxTokens) ==
    LET tokens == IF maxTokens <= 0 THEN DefaultTokens ELSE maxTokens IN
    Serve([tool |-> "generate_context", plot |-> plot, focus |-> focus,
           targets |-> targets, maxTokens |-> maxTokens],
          WithPlot(plot, plot = Empty \/ focus = Empty, LAMBDA p :
              LET ps == Profiles(p, IF targets = << >> THEN DefaultTargets(p) ELSE targets)
              IN  {Cut(HeadSize + ProfileSize * Len(ps), Wrap(tokens * 4), ps)}))

-----------------------------------------------------------------------------

\* The store cannot read the file, or the arguments are not of their type.
Malformed(tool) ==
    /\ call = NoCall
    /\ call' = [tool |-> tool]
    /\ answer' \in {Error("load data")}
                    \cup IF Loaded = ParseError THEN {} ELSE {Error("invalid arguments")}
    /\ UNCHANGED file

Return == /\ call # NoCall
          /\ call' = NoCall
          /\ answer' = NoAnswer
          /\ UNCHANGED file

Next ==
    \/ \E folder, status, tag \in Query : ListPlots(folder, status, tag)
    \/ \E title \in Query : GetPlot(title)
    \/ \E plot, priority \in Query : ListCharacters(plot, priority)
    \/ \E plot, name \in Query : GetCharacter(plot, name)
    \/ \E plot, name \in Query : ListRelationships(plot, name)
    \/ \E plot \in Query : ListEras(plot)
    \/ \E plot, era \in Query : ListEvents(plot, era)
    \/ \E query \in Query, scope \in Scope : Search(query, scope)
    \/ \E plot, focus \in Query, targets \in Targets, n \in Tokens :
          GenerateContext(plot, focus, targets, n)
    \/ \E tool \in Tool : Malformed(tool)
    \/ Return

Spec == Init /\ [][Next]_vars

-----------------------------------------------------------------------------
(* Properties.                                                             *)

TypeOK ==
    /\ file \in File
    /\ Loaded \in Export \cup {ParseError}
    /\ call \in Call \cup {NoCall}
    /\ call = NoCall <=> answer = NoAnswer

\* A tool has answered, and not with an error.
Answered(tool) == call # NoCall /\ call.tool = tool /\ answer.error = ""

ThePlot == Plots(Loaded)[FindPlot(Loaded, call.plot)]

DistinctNames(p) == IsInjective([i \in DOMAIN p.chars |-> Name(p.chars[i])])

\* What list_plots and list_characters list under a name of its own, the lookups
\* find by that name: an earlier plot or character whose name merely contains it
\* does not hide it (loader.go, FindPlot; common.go, findCharacter).  An empty
\* title gets that far in FindPlot only: the tools refuse it as an argument.
ListedIsFindable ==
    /\ Answered("list_plots") =>
          \A i \in ToSet(answer.shown) :
             LET t == Plots(Loaded)[i].title IN
             (\A j \in DOMAIN Plots(Loaded) \ {i} : Plots(Loaded)[j].title # t)
                => FindPlot(Loaded, t) = i
    /\ Answered("list_characters") =>
          \A ij \in ToSet(answer.shown) :
             LET p == Plots(Loaded)[ij[1]] IN
             DistinctNames(p) => FindCharacter(p, Name(p.chars[ij[2]])) = ij[2]

\* Whatever get_plot finds by a title and get_character by a name, search hits
\* with the same text, though the three fold letters each in its own way
\* (loader.go, toLower; common.go, findCharacter and containsFold).
SearchFindsWhatIsFetched ==
    /\ Answered("get_plot") /\ FindPlot(Loaded, call.title) # 0 =>
          \E x \in ToSet(Hits(answer.shown[1], call.title, "plot")) : x.kind = "plot"
    /\ Answered("get_character") =>
          \E x \in ToSet(Hits(FindPlot(Loaded, call.plot), call.name, "character")) :
             x.at = << answer.shown.char >>

\* list_relationships and list_events filter by position and print names: where
\* names are distinct they show exactly what prints the name asked for, the first
\* character and indices that point nowhere included (list_relationships.go, eras.go).
FiltersMatchWhatIsShown ==
    /\ Answered("list_relationships") /\ call.name # Empty /\ DistinctNames(ThePlot) =>
          LET name == Name(ThePlot.chars[FindCharacter(ThePlot, call.name)]) IN
          \A i \in DOMAIN ThePlot.rels :
             (\E x \in ToSet(answer.shown) : x.rel = i) <=>
                name \in {CharNameAt(ThePlot, ThePlot.rels[i].from),
                          CharNameAt(ThePlot, ThePlot.rels[i].to)}
    /\ Answered("list_events") /\ call.era # Empty
       /\ IsInjective([i \in DOMAIN ThePlot.eras |-> Lower[ThePlot.eras[i].title]]) =>
          \A i \in DOMAIN ThePlot.events :
             (\E x \in ToSet(answer.shown) : x.event = i) <=>
                LET name == EraNameAt(ThePlot, ThePlot.events[i].era) IN
                name # NoIndex /\ EqualFold(name, call.era)

\* Without targetCharacters generate_context profiles each main character once
\* and nobody else, or everybody when none is main.  It goes from characters to
\* names and back, so it needs distinct names (generate_context.go:70-92).
DefaultProfilesAreMain ==
    Answered("generate_context") /\ call.targets = << >> /\ DistinctNames(ThePlot) =>
        LET all == DOMAIN ThePlot.chars
            main == {i \in all : EqualFold(ThePlot.chars[i].priority, Main)}
        IN  /\ ToSet(answer.shown.profiles) = IF main = {} THEN all ELSE main
            /\ IsInjective(answer.shown.profiles)

\* A profile depends on nothing but the corpus, although its attributes come
\* out of a map and an unstable sort, where no two share a sort value
\* (get_character.go, renderCharacter).
ProfilesAreRepeatable ==
    Answered("get_character") =>
        LET c == ThePlot.chars[answer.shown.char] IN
        IsInjective([k \in Params(c) |-> c.params[k].sort])
            => Renderings(c) = {answer.shown.attributes}

\* Writing back what was read loses no collection, and is read as the same
\* again (writer.go, Marshal: "Inverse of Parse").
RoundTrip ==
    Loaded # ParseError =>
        LET again == Parse(Marshal(Loaded)) IN
        /\ again # ParseError
        /\ \A k \in DOMAIN Loaded : OrEmpty(again[k]) = OrEmpty(Loaded[k])

\* A context is cut at four characters per token of maxTokens, no earlier and
\* no later (generate_context.go:25 "maxTokens is approximated as chars/4.").
SoftCap ==
    call # NoCall /\ call.tool = "generate_context" =>
        /\ answer.error # "panic"
        /\ answer.error = "" /\ answer.shown.cut =>
              answer.shown.size = 4 * (IF call.maxTokens <= 0 THEN DefaultTokens ELSE call.maxTokens)
=============================================================================
