---------------------------- MODULE MCReadTools -----------------------------
(* Small corpora.  The texts: one name inside another, in two cases, a letter *)
(* beyond ASCII in two cases, and a folder in a folder.                       *)
EXTENDS ReadTools, TLC

CONSTANT memo

Lowered == [s \in {"Ann", "Anna", "Ann/b", "O", "Main", "Nobody"} |->
              CASE s = "Ann" -> "ann" [] s = "Anna" -> "anna" [] s = "Ann/b" -> "ann/b"
                [] s = "O" -> "o" [] s = "Main" -> "main" [] s = "Nobody" -> "nobody"]

MCText == {"", "main"} \cup DOMAIN Lowered \cup {Lowered[s] : s \in DOMAIN Lowered}

Inside == [s \in MCText |->
             CASE s = "Anna" -> {"Ann"} [] s = "anna" -> {"ann"}
               [] s = "Ann/b" -> {"Ann"} [] s = "ann/b" -> {"ann"}
               [] OTHER -> {}]

MCHas == [s \in MCText |-> {"", s} \cup Inside[s]]
MCUnder == [s \in MCText |-> CASE s = "Ann" -> {"Ann/b"} [] s = "ann" -> {"ann/b"} [] OTHER -> {}]
MCLower == [s \in MCText |-> IF s \in DOMAIN Lowered THEN Lowered[s] ELSE s]

\* "O" stands for a letter beyond ASCII.
MCAsciiLower == [MCLower EXCEPT !["O"] = "O"]

MCKey == {"char_name", "age", "eyes"}
MCOpaque == {<< >>, << memo >>}
MCTargets == {<< >>, << "ann", "nobody", "Anna" >>}

UpTo(n, S) == UNION {[1..k -> S] : k \in 0..n}

P(value, silent, sort) == [name |-> "", value |-> value, silent |-> silent, sort |-> sort]
C(priority, params) ==
    [priority |-> priority,
     params |-> [k \in MCKey |-> IF k \in DOMAIN params THEN params[k] ELSE NoParam]]
Nobody == "char_name" :> P("", FALSE, 0)

People == {C("Main", "char_name" :> P("Anna", FALSE, 0) @@ "age" :> P("o", FALSE, 1)
                     @@ "eyes" :> P("O", TRUE, 1)),
           C("main", "char_name" :> P("Ann", FALSE, 2) @@ "age" :> P("o", FALSE, 1)
                     @@ "eyes" :> P("ann", FALSE, 0)),
           C("o", Nobody),
           C("", "age" :> P("o", FALSE, 1) @@ "eyes" :> P("Ann", FALSE, 1))}

Rels == << [from |-> 0, to |-> 1, texts |-> {"O"}], [from |-> 1, to |-> 2, texts |-> {"Ann"}],
           [from |-> 2, to |-> -1, texts |-> {""}], [from |-> 0, to |-> 7, texts |-> {""}] >>
Eras == {[title |-> "Ann", texts |-> {"Ann", ""}], [title |-> "ann", texts |-> {"ann", "o"}],
         [title |-> "O", texts |-> {"O", ""}]}
Events == << [era |-> 0, texts |-> {"o"}], [era |-> 1, texts |-> {"Anna"}],
             [era |-> -1, texts |-> {""}], [era |-> 5, texts |-> {""}] >>
Units == << [texts |-> {"Ann/b"}, cards |-> << [texts |-> {"O"}], [texts |-> {"ann"}] >>] >>

Story(title, folder, status, tags, chars, eras) ==
    [title |-> title, subtitle |-> "o", folder |-> folder, status |-> status, tags |-> tags,
     chars |-> chars, rels |-> Rels, eras |-> eras, events |-> Events, units |-> Units,
     areas |-> << [texts |-> {"anna"}] >>]

Shelf == {Story("Anna", "", "o", << "Ann", "O" >>, << >>, << >>),
          Story("Ann", "Ann", "main", << >>, << >>, << >>),
          Story("O", "Ann/b", "o", << "ann" >>, << >>, << >>),
          Story("", "Ann", "o", Bad, << >>, << >>)}

One(chars, eras) == << Story("Ann", "", "o", << >>, chars, eras) >>

Holding(plots) == [memos |-> << memo >>, tagColors |-> << >>, plots |-> plots, folders |-> << memo >>]

Corpora == {Holding(ps) : ps \in UpTo(3, Shelf)}
           \cup {Holding(One(cs, << >>)) : cs \in UpTo(3, People)}
           \cup {Holding(One(<< >>, es)) : es \in UpTo(3, Eras)}

Wrappers == [memos : {Absent, Null, Bad, << memo >>}, tagColors : {Absent, Null, Bad, << memo >>},
              plots : {Absent, Null, Bad, One(<< >>, << >>)}, folders : {Absent, Null, Bad, << memo >>}]

MCFile == Corpora \cup Wrappers \cup {Bad}
MCQuery == {"", "ann", "Anna", "o", "main"}
=============================================================================
