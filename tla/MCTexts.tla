------------------------------ MODULE MCTexts ------------------------------
EXTENDS Texts

(* JSON values, written as they are nested.                                *)
Array(items) == [kind |-> "array", items |-> items]
Object(fields) == [kind |-> "object", fields |-> fields]
Field(key, value) == [key |-> key, value |-> value]
Leaf(shape) == [kind |-> "string", shape |-> shape]
Other == [kind |-> "other"]

(* Texts that tell the cases apart.                                        *)
TextAt(shape, place) ==
    CASE shape = "empty" -> <<>>
      [] shape = "blank" -> <<Space>>
      [] shape = "escape" -> <<Escape>>
      [] shape = "word" -> <<Word(place, 1)>>
      [] shape = "line" -> <<Space, Word(place, 2), Escape>>

RECURSIVE Cells(_, _, _)
Cells(value, place, key) ==
    LET fields == CASE value.kind = "object" -> value.fields
                    [] value.kind = "array" -> [i \in DOMAIN value.items |->
                                                   Field("none", value.items[i])]
                    [] OTHER -> <<>>
        content == IF value.kind = "string" THEN TextAt(value.shape, place) ELSE <<>>
    IN  {<<place, [kind |-> value.kind, key |-> key, width |-> Len(fields),
                   text |-> content]>>}
        \cup UNION {Cells(fields[i].value, Append(place, i), fields[i].key) :
                       i \in DOMAIN fields}

Document(value) ==
    LET cells == Cells(value, <<>>, "none")
    IN  [p \in {c[1] : c \in cells} |-> (CHOOSE c \in cells : c[1] = p)[2]]

Shapes == {Leaf(s) : s \in {"empty", "blank", "escape", "word", "line"}}
Some == {Leaf("blank"), Leaf("word"), Leaf("line")}
KeyPairs == {<<"text", "other">>, <<"other", "text">>, <<"other", "other">>}

Pairs(left, right) ==
    {Array(<<u, v>>) : u \in left, v \in right}
        \cup {Object(<<Field(k[1], u), Field(k[2], v)>>) :
                 k \in KeyPairs, u \in left, v \in right}

TextObject(shape) == Object(<<Field("text", Leaf(shape))>>)

Flat == Shapes \cup {Other, Array(<<>>), Object(<<>>)}
            \cup {Object(<<Field("text", v)>>) : v \in Shapes}
            \cup Pairs(Some, Some)

Beside == {Leaf("word"), Other, TextObject("word"), Array(<<TextObject("line")>>)}

Nested == Flat \cup Pairs(Flat, Beside) \cup Pairs(Beside, Flat)

(* Three levels, as in a ticket: a document of paragraphs of texts.        *)
Paragraphs ==
    {Object(<<Field("other", Leaf("word")), Field("other", Array(<<u, v>>))>>) :
        u \in Pairs({TextObject("word"), TextObject("line")}, {TextObject("word")}),
        v \in Flat}

Documents == {Document(d) : d \in Nested \cup Paragraphs}

Ticket(d) == [json |-> TRUE, isCloudWatch |-> FALSE, account |-> "absent",
              id |-> "filled", key |-> "filled", description |-> d]

FieldStates == {"absent", "blank", "filled", "notAString"}

Absent == <<>>

MCBodies ==
    {Ticket(d) : d \in Documents}
        \cup [json : BOOLEAN, isCloudWatch : BOOLEAN, account : FieldStates,
              id : FieldStates, key : FieldStates,
              description : {Absent, Document(Leaf("blank")), Document(TextObject("line"))}]
=============================================================================
