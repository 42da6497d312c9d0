--------------------------------- MODULE Ini ---------------------------------
(***************************************************************************)
(* The ini files of src/common/ini.cpp: how a file becomes sections, keys  *)
(* and values, what a lookup answers, how a value is set and how the data  *)
(* becomes a file again.  The module has no state: IniFile's mData is a    *)
(* parameter of each operator.                                             *)
(*                                                                         *)
(* A text (a line, a name, a value) is a sequence of pieces.  A blank, a   *)
(* quote and the two comment signs, taken for one, are a piece each; a run *)
(* of other characters is cut into pieces where the program looks inside   *)
(* it (the brackets of a section, the prefix of an event name).            *)
(***************************************************************************)
EXTENDS Integers, SequencesExt

CONSTANTS
    Pieces,         \* the pieces of texts
    NamePieces,     \* those of letters, digits and underscores only
    UpperOf         \* the upper case of every piece with lower-case letters

Space == " "
Quote == "\""
Hash  == "#"
Signs == {Space, Quote, Hash, "[", "]", "="}

ASSUME PiecesAssumption ==
    /\ Signs \cup NamePieces \subseteq Pieces
    /\ NamePieces \cap Signs = {}
    /\ UpperOf \in [DOMAIN UpperOf -> NamePieces]
    /\ DOMAIN UpperOf \subseteq NamePieces

Uppercase(text) == [i \in DOMAIN text |-> IF text[i] \in DOMAIN UpperOf THEN UpperOf[text[i]]
                                                                     ELSE text[i]]
IsName(text) == \A i \in DOMAIN text : text[i] \in NamePieces
Has(text, piece) == \E i \in DOMAIN text : text[i] = piece

-----------------------------------------------------------------------------
(* Loading.                                                                *)

\* One step of VectoriseLine: v holds the values so far and s the one being
\* read, q is set inside quotes and c inside a comment.
Scan(st, p) ==
    LET literal == st.c \/ (st.q /\ p # Quote) \/ p \notin {Quote, Space}
    IN  CASE literal -> [st EXCEPT !.s = Append(@, p), !.c = @ \/ (p = Hash /\ ~st.q)]
          [] ~literal /\ p = Quote -> [st EXCEPT !.q = ~@]
          [] ~literal /\ p = Space ->
                [st EXCEPT !.v = IF st.s = <<>> THEN @ ELSE Append(@, st.s), !.s = <<>>]

\* The words of a line.  A quote that is not closed is only logged.
VectoriseLine(line) ==
    LET st == FoldLeft(Scan, [v |-> <<>>, s |-> <<>>, q |-> FALSE, c |-> FALSE], line)
    IN  IF st.s = <<>> THEN st.v ELSE Append(st.v, st.s)

Section(name) == [name |-> name, keys |-> <<>>]
NewKey(name, values) == [name |-> name, values |-> values, comment |-> FALSE]
Comment(text) == [name |-> text, values |-> <<>>, comment |-> TRUE]
DefaultSection == Section(<<"NONE">>)

IsHeader(words) == words # <<>> /\ words[1][1] = "["
IsComment(words) == words = <<>> \/ words[1][1] = Hash
IsKeyLine(words) == Len(words) > 2 /\ words[2] = <<"=">> /\ IsName(words[1])

HeaderName(word) == SubSeq(word, 2, Len(word) - 1)

\* A lone bracket passes and names the section with the empty name; so would
\* one with a single character after it, which is no piece of a header here.
HeaderOK(word) ==
    /\ Len(word) = 1 \/ Last(word) = "]"
    /\ HeaderName(word) # DefaultSection.name
    /\ IsName(HeaderName(word))

AddKey(data, key) == [data EXCEPT ![Len(data)].keys = Append(@, key)]

\* A line that is neither a header, a comment nor a key is ignored.
LoadLine(data, line) ==
    LET words == VectoriseLine(line)
    IN  CASE IsHeader(words)  -> Append(data, Section(HeaderName(words[1])))
          [] IsComment(words) -> AddKey(data, Comment(IF words = <<>> THEN <<>> ELSE line))
          [] IsKeyLine(words) -> AddKey(data, NewKey(words[1], SubSeq(words, 3, Len(words))))
          [] OTHER -> data

\* The data of a file's lines and whether all were read: a bad header ends
\* the load and leaves what was read before it.
LoadFile(lines) ==
    LET Bad(line) == LET words == VectoriseLine(line) IN IsHeader(words) /\ ~HeaderOK(words[1])
        bad == SelectInSeq(lines, Bad)
    IN  [ ok   |-> bad = 0,
          data |-> FoldLeft(LoadLine, <<DefaultSection>>,
                            IF bad = 0 THEN lines ELSE SubSeq(lines, 1, bad - 1)) ]

-----------------------------------------------------------------------------
(* Lookups and changes.                                                    *)

SameName(a, b) == Uppercase(a) = Uppercase(b)

\* What GetKeyList lists: the places of the keys in all the sections of a
\* name, by section and within the section.
KeyPlaces(data, section) ==
    UNION { {<<i, j>> : j \in {k \in DOMAIN data[i].keys : ~data[i].keys[k].comment}} :
            i \in {k \in DOMAIN data : SameName(data[k].name, section)} }

KeyAt(data, place) == data[place[1]].keys[place[2]]
Before(p, q) == p[1] < q[1] \/ (p[1] = q[1] /\ p[2] < q[2])
FirstPlace(places) == CHOOSE p \in places : \A q \in places \ {p} : Before(p, q)

\* Nothing is the answer for a key that is not there, too.
GetVal(data, section, key) ==
    LET found == {p \in KeyPlaces(data, section) : SameName(KeyAt(data, p).name, key)}
    IN  IF \/ section = <<>> \/ key = <<>> \/ section = DefaultSection.name
           \/ ~IsName(section) \/ ~IsName(key) \/ found = {}
        THEN <<>> ELSE KeyAt(data, FirstPlace(found)).values

DoesSectionExist(data, section) ==
    \E i \in DOMAIN data : data[i].name # DefaultSection.name /\ SameName(data[i].name, section)

\* The first section of the name gets the value, at its first key of the
\* name or at a new one; without such a section a new one does.
SetVal(data, section, key, values) ==
    LET i == SelectInSeq(data, LAMBDA s : SameName(s.name, section))
        j == SelectInSeq(data[i].keys, LAMBDA k : ~k.comment /\ SameName(k.name, key))
    IN  IF section = DefaultSection.name \/ ~IsName(section) \/ ~IsName(key) THEN data
        ELSE IF i = 0 THEN Append(data, [name |-> section, keys |-> <<NewKey(key, values)>>])
        ELSE IF j = 0 THEN [data EXCEPT ![i].keys = Append(@, NewKey(key, values))]
        ELSE [data EXCEPT ![i].keys[j].values = values]

-----------------------------------------------------------------------------
(* Saving.                                                                 *)

\* Mutant: values are written as they are.
QuotedNever(value) == value

Quoted(value) == IF Has(value, Space) THEN <<Quote>> \o value \o <<Quote>> ELSE value

\* The test for a comment sign is true of every text, so each save puts one
\* more sign before a comment, in memory too.
Commented(key) ==
    IF key.comment /\ key.name # <<>> THEN [key EXCEPT !.name = <<Hash, Space>> \o @] ELSE key

\* A key without values is not written.
KeyLines(key) ==
    IF key.comment THEN <<key.name>>
    ELSE IF key.values = <<>> THEN <<>>
    ELSE << key.name \o <<Space, "=">>
              \o FlattenSeq([i \in DOMAIN key.values |-> <<Space>> \o Quoted(key.values[i])]) >>

\* The header, but for the default section, the keys, and a blank line.
SectionLines(section) ==
    (IF section.name = DefaultSection.name THEN <<>> ELSE << <<"[">> \o section.name \o <<"]">> >>)
    \o FlattenSeq([i \in DOMAIN section.keys |-> KeyLines(section.keys[i])])
    \o << <<>> >>

\* The data after a save, and the lines of the file.
SaveFile(data) ==
    LET saved == [i \in DOMAIN data |->
                     [data[i] EXCEPT !.keys = [j \in DOMAIN @ |-> Commented(@[j])]]]
    IN  [data |-> saved, lines |-> FlattenSeq([i \in DOMAIN saved |-> SectionLines(saved[i])])]
=============================================================================
