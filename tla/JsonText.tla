------------------------------- MODULE JsonText -------------------------------
(***************************************************************************)
(* Values on their way between a Falcon page, native code and JSON text    *)
(* (jqmisc.cpp, jqbson.cpp), and the canonical JSON of package manifests,  *)
(* written by tools/lvapp and re-written by verify_package to compare.     *)
(*                                                                         *)
(* A text is a sequence of symbols: a character, a word (true, false,      *)
(* null) or the four hexadecimal digits after \u.  A number of a page has   *)
(* the tag that QuickJS gave it, int32 or float64, and is named by what    *)
(* printf writes for it; an object is the sequence of its members.         *)
(***************************************************************************)
EXTENDS Integers, Sequences, FiniteSets, SequencesExt

CONSTANTS Sent,             \* values a page passes to native code
          Symbols,          \* symbols put into a text by mistake
          max_depth,        \* jqbson.cpp: nesting of a text that is read
          MaxIntLength,     \* digits10 of int: longer integers are read as doubles
          Int32Length,      \* digits of the longest int32, one more than digits10
          SafeLength,       \* canonical JSON: longer integers are beyond 2^53
          MaxEdits,         \* bound: changes of a text
          MaxLength         \* bound: texts longer than this are not changed

VARIABLES value,            \* what was sent
          comments,         \* BsonParse: COMMENTS or STANDARD
          text,             \* its text, perhaps changed since
          edits             \* changes so far

vars == <<value, comments, text, edits>>

Words  == {"true", "false", "null"}
Digits == {"0", "1", "0000"}
White  == {" ", "\n"}
Control == {"\n", "c0", "nul"}
Null   == <<"word", "null">>

-----------------------------------------------------------------------------
(* Order of texts (std::string, Buffer.compare) and members of objects.     *)

Order == <<"nul", "c0", "\n", " ", "\"", "*", "+", ",", "-", ".", "/", "0", "0000", "0001", "1",
           "2028", ":", "[", "\\", "]", "d83d", "de00", "e", "false", "n", "null", "true", "u",
           "{", "}", "ls", "lead", "trail", "astral">>
Rank == [c \in Range(Order) |-> CHOOSE i \in DOMAIN Order : Order[i] = c]

Before(a, b) ==
    \E i \in 1..Len(b) :
        /\ i <= Len(a) + 1 /\ SubSeq(a, 1, i - 1) = SubSeq(b, 1, i - 1)
        /\ i = Len(a) + 1 \/ Rank[a[i]] < Rank[b[i]]

MemberBefore(a, b) == Before(a[1], b[1])

\* A std::map filled member by member: of two with one key the later stays.
AsMap(members) ==
    SetToSortSeq({members[i] : i \in {j \in 1..Len(members) :
                    \A k \in j + 1..Len(members) : members[k][1] # members[j][1]}},
                 MemberBefore)

\* Strings that pass through a char pointer end at the first NUL.
Cut(chars) ==
    IF \E i \in 1..Len(chars) : chars[i] = "nul"
    THEN SubSeq(chars, 1, SelectInSeq(chars, LAMBDA c : c = "nul") - 1)
    ELSE chars

-----------------------------------------------------------------------------
(* Page values and Bson values.                                             *)

IsInteger(number) == \A i \in 1..Len(number) : number[i] \in Digits \cup {"-"}

\* A Bson value is <<its type, what it holds>>.  An accessor for another type
\* returns a default.
type(b) == b[1]
Default == [number |-> <<"0">>, string |-> <<>>, array |-> <<>>, object |-> <<>>, binary |-> <<>>]
Held(b, types, name) == IF type(b) \in types THEN b[2] ELSE Default[name]
number_value(b) == Held(b, {"int", "double"}, "number")
string_value(b) == Held(b, {"string"}, "string")
array_items(b)  == Held(b, {"array"}, "array")
object_items(b) == Held(b, {"object"}, "object")
binary_value(b) == Held(b, {"binary"}, "binary")

\* JS_NewFloat64 (quickjs.h): a whole number that an int32 holds has that tag.
FitsInt32(number) ==
    /\ IsInteger(number) /\ number # <<"-", "0">>
    /\ Cardinality({i \in DOMAIN number : number[i] # "-"}) <= Int32Length
NewFloat64(number) == <<IF FitsInt32(number) THEN "int32" ELSE "float64", number>>

\* operator==: an int never equals a double.
BsonEqual(a, b) == type(a) = type(b) /\ a[2] = b[2]

\* Of a view the whole buffer is sent that it is a view of.
IsBuffer(v) == v[1] = "view"
BufferOf(v) == v[3]

\* Keys of both directions are char pointers.
Keyed(members, converted) ==
    AsMap([i \in 1..Len(members) |-> <<Cut(members[i][1]), converted[i]>>])

RECURSIVE JSValueToBson(_)
JSValueToBson(v) ==
    CASE v[1] = "int32" -> <<"int", v[2]>>
      [] v[1] = "float64" -> <<"double", v[2]>>
      [] v[1] = "undefined" -> Null
      [] IsBuffer(v) -> <<"binary", BufferOf(v)>>
      [] v[1] = "array" -> <<"array", [i \in 1..Len(v[2]) |-> JSValueToBson(v[2][i])]>>
      [] v[1] = "object" ->
            <<"object", Keyed(v[2], [i \in 1..Len(v[2]) |-> JSValueToBson(v[2][i][2])])>>
      [] OTHER -> v

RECURSIVE bsonToJSValue(_)
bsonToJSValue(b) ==
    CASE type(b) = "int" -> <<"int32", number_value(b)>>
      [] type(b) = "double" -> NewFloat64(number_value(b))
      [] type(b) = "string" -> <<"string", Cut(string_value(b))>>
      [] type(b) = "binary" -> <<"view", binary_value(b), binary_value(b)>>
      [] type(b) = "array" ->
            <<"array", [i \in 1..Len(array_items(b)) |-> bsonToJSValue(array_items(b)[i])]>>
      [] type(b) = "object" ->
            <<"object", LET members == object_items(b)
                        IN  Keyed(members, [i \in 1..Len(members) |->
                                                bsonToJSValue(members[i][2])])>>
      [] OTHER -> b

-----------------------------------------------------------------------------
(* Writing.                                                                 *)

\* dump of a string: control characters, quotes and U+2028 are escaped.
Escaped(c) ==
    CASE c \in {"\\", "\""} -> <<"\\", c>>
      [] c = "\n" -> <<"\\", "n">>
      [] c = "c0" -> <<"\\", "u", "0001">>
      [] c = "nul" -> <<"\\", "u", "0000">>
      [] c = "ls" -> <<"\\", "u", "2028">>
      [] OTHER -> <<c>>

Quoted(chars) ==
    <<"\"">> \o FlattenSeq([i \in 1..Len(chars) |-> Escaped(chars[i])]) \o <<"\"">>

Joined(parts, separator) ==
    FlattenSeq([i \in 1..Len(parts) |-> IF i = 1 THEN parts[i] ELSE separator \o parts[i]])

\* Bytes and numbers that are not finite are written as null.
RECURSIVE dump(_)
dump(b) ==
    CASE b[1] = "word" -> <<b[2]>>
      [] b[1] \in {"int", "double"} -> IF b[2] = <<"nan">> THEN <<"null">> ELSE b[2]
      [] b[1] = "string" -> Quoted(b[2])
      [] b[1] = "binary" -> <<"null">>
      [] b[1] = "array" ->
            <<"[">> \o Joined([i \in 1..Len(b[2]) |-> dump(b[2][i])], <<",", " ">>) \o <<"]">>
      [] b[1] = "object" ->
            <<"{">> \o Joined([i \in 1..Len(b[2]) |->
                        Quoted(b[2][i][1]) \o <<":", " ">> \o dump(b[2][i][2])], <<",", " ">>)
              \o <<"}">>

-----------------------------------------------------------------------------
(* Reading: BsonParser.  Position 0 stands for a parse that has failed.     *)

At(t, i) == IF i \in 1..Len(t) THEN t[i] ELSE "end"
First(S) == CHOOSE i \in S : \A j \in S : i <= j
After(t, i, S) == First({j \in i..Len(t) + 1 : At(t, j) \notin S})

\* consume_comment, at a slash.
CommentEnd(t, i) ==
    LET ends == {j \in i + 2..Len(t) - 1 : t[j] = "*" /\ t[j + 1] = "/"}
    IN  CASE At(t, i + 1) = "/" -> First({j \in i + 2..Len(t) + 1 : At(t, j) \in {"\n", "end"}})
          [] At(t, i + 1) = "*" /\ ends # {} -> First(ends) + 2
          [] OTHER -> 0

RECURSIVE consume_garbage(_, _), Garbage(_, _)
Garbage(t, i) ==
    IF i # 0 /\ comments /\ At(t, i) = "/" THEN consume_garbage(t, CommentEnd(t, i)) ELSE i
consume_garbage(t, i) == IF i = 0 THEN 0 ELSE Garbage(t, After(t, i, White))

\* Where the next token is, 0 if there is none.
Token(t, i) == IF At(t, i) = "end" THEN 0 ELSE i
get_next_token(t, i) == Token(t, consume_garbage(t, i))

Failed == [at |-> 0, value |-> Null]
Parsed(at, v) == [at |-> at, value |-> v]

Group == [g \in {"0000", "0001", "2028", "d83d", "de00"} |->
            CASE g = "0000" -> "nul" [] g = "0001" -> "c0" [] g = "2028" -> "ls"
              [] g = "d83d" -> "lead" [] g = "de00" -> "trail"]
Escapes == [c \in {"n", "\"", "\\", "/"} |-> IF c = "n" THEN "\n" ELSE c]

\* encode_utf8 of the pending \u escape.
Flushed(out, pending) == IF pending = "none" THEN out ELSE Append(out, pending)

RECURSIVE parse_string(_, _, _, _)
parse_string(t, i, out, pending) ==
    LET ch == At(t, i)
        escape == At(t, i + 1)
        group == At(t, i + 2)
    IN  CASE i = 0 \/ ch = "end" \/ ch \in Control -> Failed
          [] ch = "\"" -> Parsed(i + 1, <<"string", Flushed(out, pending)>>)
          [] ch = "\\" /\ escape = "u" /\ group \in DOMAIN Group ->
                IF pending = "lead" /\ Group[group] = "trail"
                THEN parse_string(t, i + 3, Append(out, "astral"), "none")
                ELSE parse_string(t, i + 3, Flushed(out, pending), Group[group])
          [] ch = "\\" /\ escape \in DOMAIN Escapes ->
                parse_string(t, i + 2, Append(Flushed(out, pending), Escapes[escape]), "none")
          [] ch = "\\" /\ escape \notin DOMAIN Escapes /\ ~(escape = "u" /\ group \in DOMAIN Group) ->
                Failed
          [] OTHER -> parse_string(t, i + 1, Append(Flushed(out, pending), ch), "none")

\* Wrong variant: a fraction needs no digit.
FractionEnd_NoDigit(t, i) == IF At(t, i) = "." THEN After(t, i + 1, Digits) ELSE i
FractionEnd(t, i) ==
    IF At(t, i) # "." THEN i
    ELSE IF At(t, i + 1) \in Digits THEN After(t, i + 1, Digits) ELSE 0

ExponentEnd(t, i) ==
    LET digits == IF At(t, i + 1) \in {"+", "-"} THEN i + 2 ELSE i + 1
    IN  IF At(t, i) # "e" THEN i
        ELSE IF At(t, digits) \in Digits THEN After(t, digits, Digits) ELSE 0

\* An int has no negative zero.
Atoi(number) == IF number = <<"-", "0">> THEN <<"0">> ELSE number

parse_number(t, i) ==
    LET first == IF At(t, i) = "-" THEN i + 1 ELSE i
        integer == CASE At(t, first) = "0" /\ At(t, first + 1) \notin Digits -> first + 1
                     [] At(t, first) = "1" -> After(t, first, Digits)
                     [] OTHER -> 0
        end == ExponentEnd(t, FractionEnd(t, integer))
        number == SubSeq(t, i, end - 1)
    IN  CASE end = 0 -> Failed
          [] end # 0 /\ end = integer /\ end - i <= MaxIntLength -> Parsed(end, <<"int", Atoi(number)>>)
          [] OTHER -> Parsed(end, <<"double", number>>)

RECURSIVE parse_json(_, _, _), Value(_, _, _), Items(_, _, _, _), NextItem(_, _, _, _),
          Members(_, _, _, _), MemberOf(_, _, _, _), NextMember(_, _, _, _)
parse_json(t, i, depth) ==
    IF depth > max_depth THEN Failed ELSE Value(t, get_next_token(t, i), depth)

Value(t, at, depth) ==
    CASE At(t, at) \in Digits \cup {"-"} -> parse_number(t, at)
      [] At(t, at) \in Words -> Parsed(at + 1, <<"word", At(t, at)>>)
      [] At(t, at) = "\"" -> parse_string(t, at + 1, <<>>, "none")
      [] At(t, at) = "{" -> Members(t, at + 1, depth + 1, <<>>)
      [] At(t, at) = "[" -> Items(t, at + 1, depth + 1, <<>>)
      [] OTHER -> Failed

\* What follows an item is a comma or the end; an empty array ends at once.
NextItem(t, at, depth, all) ==
    CASE At(t, at) = "]" -> Parsed(at + 1, <<"array", all>>)
      [] At(t, at) = "," -> Items(t, at + 1, depth, all)
      [] OTHER -> Failed
ItemRead(t, depth, done, item) ==
    NextItem(t, get_next_token(t, item.at), depth, Append(done, item.value))
Items(t, i, depth, done) ==
    IF done = <<>> /\ At(t, get_next_token(t, i)) = "]"
    THEN NextItem(t, get_next_token(t, i), depth, done)
    ELSE ItemRead(t, depth, done, parse_json(t, i, depth))

\* A key is read with its colon.
Colon(t, at, key) == IF At(t, at) = ":" THEN Parsed(at + 1, key) ELSE Failed
KeyRead(t, key) == Colon(t, get_next_token(t, key.at), key.value[2])
Key(t, at) ==
    IF At(t, at) = "\"" THEN KeyRead(t, parse_string(t, at + 1, <<>>, "none")) ELSE Failed

NextMember(t, at, depth, all) ==
    CASE At(t, at) = "}" -> Parsed(at + 1, <<"object", all>>)
      [] At(t, at) = "," -> Members(t, at + 1, depth, all)
      [] OTHER -> Failed
MemberRead(t, depth, done, key, item) ==
    NextMember(t, get_next_token(t, item.at), depth, Append(done, <<key.value, item.value>>))
MemberOf(t, depth, done, key) == MemberRead(t, depth, done, key, parse_json(t, key.at, depth))
Members(t, i, depth, done) ==
    IF done = <<>> /\ At(t, get_next_token(t, i)) = "}"
    THEN NextMember(t, get_next_token(t, i), depth, done)
    ELSE MemberOf(t, depth, done, Key(t, get_next_token(t, i)))

\* The document, members in the order of the text; nothing but garbage follows.
Document(t) ==
    LET result == parse_json(t, 1, 0)
    IN  IF consume_garbage(t, result.at) = Len(t) + 1 THEN result ELSE Failed

RECURSIVE Mapped(_)
\* The document as a Bson value: objects are maps.
Mapped(v) ==
    CASE v[1] = "array" -> <<"array", [i \in 1..Len(v[2]) |-> Mapped(v[2][i])]>>
      [] v[1] = "object" ->
            <<"object", AsMap([i \in 1..Len(v[2]) |-> <<v[2][i][1], Mapped(v[2][i][2])>>])>>
      [] OTHER -> v

IsRead(t) == Document(t).at # 0
parse(t) == Mapped(Document(t).value)

-----------------------------------------------------------------------------
(* Canonical JSON: no blanks, members in ascending order, safe integers.    *)

RECURSIVE Representable(_)
Representable(v) ==
    CASE v[1] \in {"int", "double", "int32", "float64"} -> IsInteger(v[2]) /\ Len(v[2]) <= SafeLength
      [] v[1] \in {"word", "string"} -> TRUE
      [] v[1] = "array" -> \A i \in 1..Len(v[2]) : Representable(v[2][i])
      [] v[1] = "object" -> \A i \in 1..Len(v[2]) : Representable(v[2][i][2])
      [] OTHER -> FALSE

\* canonical_string: as dump, but U+2028 is written as it is.
CanonicalString(chars) ==
    <<"\"">> \o FlattenSeq([i \in 1..Len(chars) |->
                   IF chars[i] = "ls" THEN <<"ls">> ELSE Escaped(chars[i])]) \o <<"\"">>

RECURSIVE Compact(_)
Compact(v) ==
    CASE v[1] = "word" -> <<v[2]>>
      [] v[1] \in {"int", "double", "int32", "float64"} -> Atoi(v[2])
      [] v[1] = "string" -> CanonicalString(v[2])
      [] v[1] = "array" ->
            <<"[">> \o Joined([i \in 1..Len(v[2]) |-> Compact(v[2][i])], <<",">>) \o <<"]">>
      [] v[1] = "object" ->
            <<"{">> \o Joined([i \in 1..Len(v[2]) |->
                        CanonicalString(v[2][i][1]) \o <<":">> \o Compact(v[2][i][2])], <<",">>)
              \o <<"}">>

\* Wrong variant: two members of one name may follow each other.
RECURSIVE Ascending_Equal(_)
Ascending_Equal(v) ==
    CASE v[1] = "array" -> \A i \in 1..Len(v[2]) : Ascending_Equal(v[2][i])
      [] v[1] = "object" ->
            /\ \A i \in 2..Len(v[2]) : ~MemberBefore(v[2][i], v[2][i - 1])
            /\ \A i \in 1..Len(v[2]) : Ascending_Equal(v[2][i][2])
      [] OTHER -> TRUE
RECURSIVE Ascending(_)
Ascending(v) ==
    CASE v[1] = "array" -> \A i \in 1..Len(v[2]) : Ascending(v[2][i])
      [] v[1] = "object" ->
            /\ \A i \in 2..Len(v[2]) : MemberBefore(v[2][i - 1], v[2][i])
            /\ \A i \in 1..Len(v[2]) : Ascending(v[2][i][2])
      [] OTHER -> TRUE

\* The tool sorts what it writes; the device refuses what is not sorted.
canonicalJson(v) == Compact(Mapped(v))
canonical_json(t) ==
    LET document == Document(t)
    IN  /\ document.at # 0
        /\ Representable(document.value) /\ Ascending(document.value)
        /\ Compact(document.value) = t

-----------------------------------------------------------------------------
(* A value is sent and written; somebody changes the text before it is      *)
(* read.                                                                    *)

Init == /\ value \in Sent
        /\ comments \in BOOLEAN
        /\ text \in {dump(JSValueToBson(value))}
                    \cup {canonicalJson(v) : v \in {v \in {value} : Representable(v)}}
        /\ edits = 0

Edit == /\ edits < MaxEdits /\ (edits = 0 \/ Len(text) <= MaxLength)
        /\ text' \in {RemoveAt(text, i) : i \in 1..Len(text)}
                     \cup {InsertAt(text, i, s) : i \in 1..Len(text) + 1, s \in Symbols}
        /\ edits' = edits + 1
        /\ UNCHANGED <<value, comments>>

Next == Edit
Spec == Init /\ [][Next]_vars

-----------------------------------------------------------------------------
(* The language of RFC 8259 (with comments, where the reader allows them),  *)
(* as a grammar: which texts can be cut into which parts.                   *)

Part(t, i, j) == SubSeq(t, i, j)
Inner(t) == Part(t, 2, Len(t) - 1)

IsComment(t) ==
    \/ /\ Len(t) >= 3 /\ t[1] = "/" /\ t[2] = "/"
       /\ {i \in 1..Len(t) : t[i] = "\n"} = {Len(t)}
    \/ /\ Len(t) >= 4 /\ t[1] = "/" /\ t[2] = "*"
       /\ {i \in 3..Len(t) - 1 : t[i] = "*" /\ t[i + 1] = "/"} = {Len(t) - 1}

RECURSIVE IsGap(_)
IsGap(t) ==
    \/ t = <<>>
    \/ Head(t) \in White /\ IsGap(Tail(t))
    \/ comments /\ \E i \in 3..Len(t) : IsComment(Part(t, 1, i)) /\ IsGap(Part(t, i + 1, Len(t)))

IsDigits(t) == t # <<>> /\ \A i \in 1..Len(t) : t[i] \in Digits
IsNumber(t) ==
    \E i \in 0..1, j, k \in 1..Len(t) :
        /\ Part(t, 1, i) \in {<<>>, <<"-">>}
        /\ Part(t, i + 1, j) = <<"0">> \/ (i < j /\ t[i + 1] = "1" /\ IsDigits(Part(t, i + 1, j)))
        /\ k = j \/ (k > j /\ t[j + 1] = "." /\ IsDigits(Part(t, j + 2, k)))
        /\ k = Len(t) \/ /\ t[k + 1] = "e"
                         /\ \/ IsDigits(Part(t, k + 2, Len(t)))
                            \/ At(t, k + 2) \in {"+", "-"} /\ IsDigits(Part(t, k + 3, Len(t)))

RECURSIVE IsChars(_)
IsChars(t) ==
    \/ t = <<>>
    \/ Head(t) \notin Control \cup {"\"", "\\"} /\ IsChars(Tail(t))
    \/ At(t, 1) = "\\" /\ At(t, 2) \in DOMAIN Escapes /\ IsChars(Part(t, 3, Len(t)))
    \/ At(t, 1) = "\\" /\ At(t, 2) = "u" /\ At(t, 3) \in DOMAIN Group /\ IsChars(Part(t, 4, Len(t)))
IsString(t) == Len(t) >= 2 /\ t[1] = "\"" /\ t[Len(t)] = "\"" /\ IsChars(Inner(t))

RECURSIVE IsValue(_, _), IsItems(_, _), IsMembers(_, _)
IsValue(t, levels) ==
    levels >= 0 /\ \E i \in 1..Len(t) : \E j \in i..Len(t) :
        LET middle == Part(t, i, j)
            Between(open, close) == i < j /\ t[i] = open /\ t[j] = close
        IN  /\ IsGap(Part(t, 1, i - 1)) /\ IsGap(Part(t, j + 1, Len(t)))
            /\ \/ i = j /\ t[i] \in Words
               \/ IsNumber(middle)
               \/ IsString(middle)
               \/ /\ Between("[", "]")
                  /\ IsGap(Inner(middle)) \/ IsItems(Inner(middle), levels - 1)
               \/ /\ Between("{", "}")
                  /\ IsGap(Inner(middle)) \/ IsMembers(Inner(middle), levels - 1)

IsItems(t, levels) ==
    \/ IsValue(t, levels)
    \/ \E i \in 2..Len(t) - 1 :
          t[i] = "," /\ IsValue(Part(t, 1, i - 1), levels) /\ IsItems(Part(t, i + 1, Len(t)), levels)

IsMember(t, levels) ==
    \E i, j, k \in 1..Len(t) :
        /\ i < j /\ j < k /\ t[k] = ":" /\ IsString(Part(t, i, j))
        /\ IsGap(Part(t, 1, i - 1)) /\ IsGap(Part(t, j + 1, k - 1))
        /\ IsValue(Part(t, k + 1, Len(t)), levels)
IsMembers(t, levels) ==
    \/ IsMember(t, levels)
    \/ \E i \in 2..Len(t) - 1 :
          t[i] = "," /\ IsMember(Part(t, 1, i - 1), levels) /\ IsMembers(Part(t, i + 1, Len(t)), levels)

\* Values a text can hold: no undefined, no bytes, no number that is not
\* finite, and no string that a char pointer would cut.
RECURSIVE Plain(_)
Plain(v) ==
    CASE v[1] = "word" -> TRUE
      [] v[1] \in {"int32", "float64"} -> v[2] # <<"nan">>
      [] v[1] = "string" -> Cut(v[2]) = v[2]
      [] v[1] = "array" -> \A i \in 1..Len(v[2]) : Plain(v[2][i])
      [] v[1] = "object" -> \A i \in 1..Len(v[2]) : Cut(v[2][i][1]) = v[2][i][1] /\ Plain(v[2][i][2])
      [] OTHER -> FALSE

Echoed(v) == bsonToJSValue(JSValueToBson(v))

\* What a page sees of a value with ===: not the tag of a number, nor the sign of 0.
RECURSIVE Seen(_)
Seen(v) ==
    CASE v[1] \in {"int32", "float64"} -> <<"number", Atoi(v[2])>>
      [] v[1] = "array" -> <<"array", [i \in 1..Len(v[2]) |-> Seen(v[2][i])]>>
      [] v[1] = "object" -> <<"object", [i \in 1..Len(v[2]) |-> <<v[2][i][1], Seen(v[2][i][2])>>]>>
      [] OTHER -> v

\* Native code sees a number as int or double by its tag, and by the length of its
\* text once it has been text: no int of ten digits, no short whole double.
RECURSIVE KindKept(_)
KindKept(v) ==
    CASE v[1] = "int32" -> Len(v[2]) <= MaxIntLength
      [] v[1] = "float64" -> ~IsInteger(v[2]) \/ Len(v[2]) > MaxIntLength
      [] v[1] = "array" -> \A i \in 1..Len(v[2]) : KindKept(v[2][i])
      [] v[1] = "object" -> \A i \in 1..Len(v[2]) : KindKept(v[2][i][2])
      [] OTHER -> TRUE

-----------------------------------------------------------------------------
\* Bson::parse reads exactly the texts of the grammar, however a text was
\* damaged; what dump wrote is read as the value that was sent as a page sees
\* it, while native code finds it equal exactly where no number changes between
\* int and double; and a value that went through native code once is the same
\* when it goes again (BsonParser, dump, _serializeJson, _deserializeJson).
TextIsRead ==
    /\ IsRead(text) <=> IsValue(Append(text, "\n"), max_depth)
    /\ edits = 0 => IsRead(text)
    /\ edits = 0 /\ Plain(value) =>
         /\ Seen(bsonToJSValue(parse(text))) = Seen(value) /\ Seen(Echoed(value)) = Seen(value)
         /\ BsonEqual(parse(text), JSValueToBson(value)) <=> KindKept(value)
    /\ Echoed(Echoed(value)) = Echoed(value)

\* The device accepts a manifest text exactly if it is the one text the tool
\* writes for what it says: no second text of the same manifest is verified
\* (canonicalJson, canonical_json).
OneTextPerManifest ==
    ~comments =>
        (canonical_json(text) <=>
            /\ IsRead(text) /\ Representable(Document(text).value)
            /\ text = canonicalJson(Document(text).value))
=============================================================================
