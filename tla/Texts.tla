-------------------------------- MODULE Texts --------------------------------
(***************************************************************************)
(* The two places that read JSON written by others.                        *)
(*                                                                         *)
(* The conductor (scheduler.go) classifies the body of a message, and      *)
(* flattens the description of a ticket into a text: once when the message *)
(* is stored and again in the pass that decides.  The nested values of an  *)
(* object are visited by ranging over a Go map, in any order.              *)
(*                                                                         *)
(* The worker (extract-transcript-text.go) collects the text of the Codex  *)
(* transcript, token by token in the order of the document.                *)
(*                                                                         *)
(* Both walks are recursive functions.  A step is the body of one call;    *)
(* the calls that are still owed are in the agenda, the next one first.    *)
(***************************************************************************)
EXTENDS Integers, SequencesExt

CONSTANTS
    Bodies,             \* bodies of messages, as a JSON parser sees them
    Transcripts         \* JSON values a transcript may be

VARIABLES
    stage,              \* what the body, or the transcript, has come to
    body,               \* the message
    doc,                \* its description, or the transcript
    agenda,             \* places of the values still to be walked
    textParts,          \* places of the texts collected from a description
    text,               \* the text when the ticket was stored
    output              \* the text of the transcript

vars == <<stage, body, doc, agenda, textParts, text, output>>

(***************************************************************************)
(* A text is a sequence of characters, of which words (each known by where *)
(* it stands), white space, line ends and the two-character escape "\n"    *)
(* are told apart.                                                         *)
(***************************************************************************)
Place == Seq(Nat \ {0})

Word(place, x) == [char |-> "word", at |-> <<place, x>>]
Space == [char |-> "space"]
Newline == [char |-> "newline"]
Escape == [char |-> "escape"]
Char == [char : {"word"}, at : Place \X Nat] \cup {Space, Newline, Escape}

(***************************************************************************)
(* A document takes the place of each value in it, the positions on the    *)
(* way from the root, to the value.  An absent document is empty, and an   *)
(* object has one field of a name.                                         *)
(***************************************************************************)
Root == <<>>

Value == [kind : {"object", "array", "string", "other"},
          key : {"text", "other", "none"},      \* name of the field it is in
          width : Nat,                          \* number of values in it
          text : Seq(Char)]

IsTextField(d, p) == d[p].key = "text" /\ d[p].kind = "string"

IsDocument(d) ==
    \A p \in DOMAIN d :
        /\ p \in Place /\ d[p] \in Value
        /\ \A k \in 1 .. Len(p) :
              /\ SubSeq(p, 1, k - 1) \in DOMAIN d
              /\ p[k] \in 1 .. d[SubSeq(p, 1, k - 1)].width
        /\ \A i \in 1 .. d[p].width :
              /\ Append(p, i) \in DOMAIN d
              /\ d[Append(p, i)].key = "none" <=> d[p].kind = "array"
              /\ \A j \in 1 .. d[p].width :
                    d[Append(p, i)].key = "text" /\ d[Append(p, j)].key = "text" => i = j
        /\ d[p].kind \in {"string", "other"} => d[p].width = 0
        /\ p = Root => d[p].key = "none"
        /\ \A x \in 1 .. Len(d[p].text) :
              d[p].text[x].char = "word" => d[p].text[x] = Word(p, x)

ASSUME TextsAssumption ==
    /\ \A b \in Bodies : IsDocument(b.description)
    /\ \A d \in Transcripts : IsDocument(d) /\ Root \in DOMAIN d

Children(p) == [i \in 1 .. doc[p].width |-> Append(p, i)]

-----------------------------------------------------------------------------
(********************** The conductor: scheduler.go ************************)

(* strings.TrimSpace leaves nothing.                                       *)
Blank(t) == \A x \in DOMAIN t : t[x].char \in {"space", "newline"}

HasText(p) == IsTextField(doc, p) /\ ~ Blank(doc[p].text)

(* The text of an object itself, as a sequence of at most one part.        *)
OwnText(p) ==
    LET own == {q \in Range(Children(p)) : HasText(q)}
    IN  IF own = {} THEN <<>> ELSE <<CHOOSE q \in own : TRUE>>

(* A Go map hands out its values in any order, an array in its own.        *)
Orders(p) ==
    IF doc[p].kind = "object"
    THEN {[i \in 1 .. doc[p].width |-> Append(p, order[i])] :
             order \in Bijection(1 .. doc[p].width, 1 .. doc[p].width)}
    ELSE {Children(p)}

(* A field that is not a string fails the whole Unmarshal.                 *)
IsIncident(b) ==
    /\ b.json /\ b.isCloudWatch
    /\ b.account = "filled"

IsTicketNamed(b) ==
    /\ b.json /\ "notAString" \notin {b.id, b.key}
    /\ "filled" \in {b.id, b.key}

(* ticketDescriptionText: a plain string is its own text, a document is    *)
(* walked.  The parts are trimmed and joined by line ends, which adds and  *)
(* removes white space at their ends only: the text is known by its parts. *)
FlattenDescription ==
    IF Root \in DOMAIN doc /\ doc[Root].kind = "string"
    THEN /\ agenda' = <<>>
         /\ textParts' = IF Blank(doc[Root].text) THEN <<>> ELSE <<Root>>
    ELSE /\ agenda' = IF Root \in DOMAIN doc THEN <<Root>> ELSE <<>>
         /\ textParts' = <<>>

(* InsertMessageAndRunScheduling: parseIncomingMessageForScheduling ...    *)
Insert ==
    /\ stage = "received"
    /\ IF ~ IsIncident(body) /\ IsTicketNamed(body)
       THEN stage' = "storing" /\ FlattenDescription
       ELSE /\ stage' = IF IsIncident(body) THEN "alarm" ELSE "unsupported"
            /\ UNCHANGED <<agenda, textParts>>
    /\ UNCHANGED <<body, doc, text, output>>

(* ... and the row, unless no text was found.                              *)
Store ==
    /\ stage = "storing" /\ agenda = <<>>
    /\ stage' = IF textParts = <<>> THEN "unsupported" ELSE "ticket"
    /\ text' = textParts
    /\ UNCHANGED <<body, doc, agenda, textParts, output>>

(* Wrong: the parts of the reading before are kept.                        *)
Schedule_kept ==
    /\ stage = "ticket"
    /\ stage' = "deciding"
    /\ agenda' = <<Root>>
    /\ UNCHANGED <<body, doc, textParts, text, output>>

(* scheduleTickets reads the stored body again ...                         *)
Schedule ==
    /\ stage = "ticket"
    /\ IF IsTicketNamed(body)
       THEN stage' = "deciding" /\ FlattenDescription
       ELSE stage' = "raw" /\ UNCHANGED <<agenda, textParts>>
    /\ UNCHANGED <<body, doc, text, output>>

(* ... and hands out the text, or the raw body if it is no ticket any more. *)
Decide ==
    /\ stage = "deciding" /\ agenda = <<>>
    /\ stage' = IF textParts = <<>> THEN "raw" ELSE "decided"
    /\ UNCHANGED <<body, doc, agenda, textParts, text, output>>

Walk(p, order, own) ==
    /\ stage \in {"storing", "deciding"}
    /\ agenda' = order \o Tail(agenda)
    /\ textParts' = textParts \o own
    /\ UNCHANGED <<stage, body, doc, text, output>>

(* Wrong: below an object that has a text of its own nothing is collected. *)
collectTicketDescriptionTextParts_textOnly ==
    /\ agenda # <<>>
    /\ LET p == Head(agenda)
       IN  \E order \in Orders(p) :
              Walk(p, IF OwnText(p) = <<>> THEN order ELSE <<>>, OwnText(p))

(* Wrong: an array is walked like a map.                                   *)
collectTicketDescriptionTextParts_unordered ==
    /\ agenda # <<>>
    /\ LET p == Head(agenda)
       IN  \E order \in Bijection(1 .. doc[p].width, 1 .. doc[p].width) :
              Walk(p, [i \in DOMAIN order |-> Append(p, order[i])], OwnText(p))

(* collectTicketDescriptionTextParts.                                      *)
collectTicketDescriptionTextParts ==
    /\ agenda # <<>>
    /\ LET p == Head(agenda)
       IN  \E order \in Orders(p) : Walk(p, order, OwnText(p))

-----------------------------------------------------------------------------
(*************** The worker: extract-transcript-text.go ********************)

(* Wrong: a text is appended to the line that the transcript ends with.    *)
appendText_joined(out, t) ==
    out \o [x \in DOMAIN t |-> IF t[x] = Escape THEN Newline ELSE t[x]]

(* The escape that agents write for a line end becomes one; a text begins  *)
(* on a line of its own.                                                   *)
appendText(out, t) ==
    LET converted == [x \in DOMAIN t |-> IF t[x] = Escape THEN Newline ELSE t[x]]
        onNewLine == out = <<>> \/ Last(out) = Newline
    IN  IF converted = <<>> THEN out
        ELSE (IF onNewLine THEN out ELSE Append(out, Newline)) \o converted

(* collectToken with collectObject and collectArray, over the values that  *)
(* the tokens make up: the input is the output of json.MarshalIndent,      *)
(* always one complete value.                                              *)
collectToken ==
    /\ stage = "transcript" /\ agenda # <<>>
    /\ LET p == Head(agenda)
       IN  /\ output' = IF IsTextField(doc, p) THEN appendText(output, doc[p].text)
                        ELSE output
           /\ agenda' = Children(p) \o Tail(agenda)
    /\ UNCHANGED <<stage, body, doc, textParts, text>>

(* readCodexThreadTranscriptText, once the thread has been read.           *)
ReadTranscript ==
    /\ stage = "transcript" /\ agenda = <<>>
    /\ stage' = "read"
    /\ UNCHANGED <<body, doc, agenda, textParts, text, output>>

-----------------------------------------------------------------------------

Init ==
    /\ \/ stage = "received" /\ body \in Bodies /\ doc = body.description /\ agenda = <<>>
       \/ stage = "transcript" /\ body = <<>> /\ doc \in Transcripts /\ agenda = <<Root>>
    /\ textParts = <<>> /\ text = <<>> /\ output = <<>>

Next ==
    \/ Insert \/ Store \/ Schedule \/ Decide
    \/ collectTicketDescriptionTextParts
    \/ collectToken \/ ReadTranscript

Spec == Init /\ [][Next]_vars

-----------------------------------------------------------------------------
(***************************************************************************)
(* What the walks are to find, said of the document without a walk: its    *)
(* texts, and the order that the document puts two values in.              *)
(***************************************************************************)
TicketTexts(d) ==
    {p \in DOMAIN d :
        /\ d[p].kind = "string" /\ ~ Blank(d[p].text)
        /\ d[p].key = "text" \/ p = Root}

(* The two places part at position k, below the value that holds both.     *)
PartAt(p, q, k) ==
    /\ k \in DOMAIN p /\ k \in DOMAIN q
    /\ SubSeq(p, 1, k - 1) = SubSeq(q, 1, k - 1)
    /\ p[k] < q[k]

(* p stands before q in the document; in an array of it.                   *)
Earlier(p, q) == \E k \in DOMAIN p : PartAt(p, q, k)

EarlierItem(d, p, q) ==
    \E k \in DOMAIN p : PartAt(p, q, k) /\ d[SubSeq(p, 1, k - 1)].kind = "array"

(* p is a field of an object that has q further below.                     *)
OwnOf(p, q) == p # Root /\ q # Root /\ IsStrictPrefix(Front(p), Front(q))

(***************************************************************************)
(* "This walks the structure and joins every text field" (scheduler.go,    *)
(* 495-497): the text an agent is given for a ticket has every text field  *)
(* of the description once, and no other, whatever order the maps hand     *)
(* their fields out in; a ticket that has one is never turned away, and    *)
(* never handed out as raw JSON.                                           *)
(***************************************************************************)
EveryTextOnce ==
    /\ stage = "decided" =>
          /\ Range(textParts) = TicketTexts(doc)
          /\ IsInjective(textParts)
    /\ stage = "unsupported" /\ IsTicketNamed(body) => TicketTexts(doc) = {}
    /\ stage # "raw"

(***************************************************************************)
(* Texts that an array puts in an order keep it: the paragraphs of a       *)
(* ticket, and the texts in them, are handed out as they were written.     *)
(***************************************************************************)
ArraysKeepOrder ==
    stage = "decided" =>
        \A i, j \in DOMAIN textParts :
            EarlierItem(doc, textParts[i], textParts[j]) => i < j

(***************************************************************************)
(* A ticket is flattened when it is stored and again by the pass that      *)
(* decides, and the two texts may differ.  They agree for every document   *)
(* in which no object has two nested fields with text below them.          *)
(***************************************************************************)
InOneOrder(d) ==
    \A p, q \in TicketTexts(d) :
        \/ p = q
        \/ EarlierItem(d, p, q) \/ EarlierItem(d, q, p)
        \/ OwnOf(p, q) \/ OwnOf(q, p)

BothReadingsAgree == stage = "decided" /\ InOneOrder(doc) => textParts = text

(***************************************************************************)
(* The transcript has the words of every text field once, in the order of  *)
(* the document, each text on a line of its own, and no escape is left.    *)
(***************************************************************************)
WordsOf(d) ==
    UNION {{c \in Range(d[p].text) : c.char = "word"} :
               p \in {q \in DOMAIN d : IsTextField(d, q)}}

WordBefore(c, e) ==
    \/ Earlier(c.at[1], e.at[1])
    \/ c.at[1] = e.at[1] /\ c.at[2] < e.at[2]

TranscriptInOrder ==
    stage = "read" =>
        LET words == {i \in DOMAIN output : output[i].char = "word"}
        IN  /\ {output[i] : i \in words} = WordsOf(doc)
            /\ \A i, j \in words : i < j =>
                  /\ WordBefore(output[i], output[j])
                  /\ output[i].at[1] # output[j].at[1] =>
                        \E k \in i .. j : output[k] = Newline
            /\ \A i \in DOMAIN output : output[i] # Escape

-----------------------------------------------------------------------------
(***************************************************************************)
(* The inductive invariant.  A value is still to be walked when the agenda *)
(* has it or one above it; values on the agenda are not above each other.  *)
(***************************************************************************)
Owed(a, p) == \E k \in DOMAIN a : IsPrefix(a[k], p)

Apart(a) == \A k, l \in DOMAIN a : IsPrefix(a[k], a[l]) => k = l

TypeOK ==
    /\ stage \in {"received", "alarm", "unsupported", "storing", "ticket", "deciding",
                  "decided", "transcript", "read"}
    /\ IsDocument(doc)
    /\ agenda \in Seq(DOMAIN doc) /\ Apart(agenda)
    /\ textParts \in Seq(DOMAIN doc) /\ text \in Seq(DOMAIN doc)
    /\ output \in Seq(Char)

Ordered(s) ==
    \A i, j \in DOMAIN s : i < j =>
        ~ EarlierItem(doc, s[j], s[i]) /\ ~ OwnOf(s[j], s[i])

(* A ticket's texts, each once and in an order the document allows.        *)
Whole(s) == Range(s) = TicketTexts(doc) /\ IsInjective(s) /\ Ordered(s)

(* What has been collected is what is not owed, and what is owed does not  *)
(* come before it.                                                         *)
PartsInv ==
    stage \in {"storing", "deciding"} =>
        /\ Range(textParts) = {p \in TicketTexts(doc) : ~ Owed(agenda, Front(p))}
        /\ IsInjective(textParts) /\ Ordered(textParts)
        /\ \A k \in DOMAIN agenda : \A i \in DOMAIN textParts :
              ~ EarlierItem(doc, agenda[k], textParts[i])
        /\ \A k, l \in DOMAIN agenda : k < l => ~ EarlierItem(doc, agenda[l], agenda[k])
        /\ Root \in TicketTexts(doc) => agenda = <<>>

StageInv ==
    /\ stage \in {"storing", "ticket", "deciding", "decided"} => IsTicketNamed(body)
    /\ stage \in {"ticket", "deciding", "decided"} => Whole(text) /\ text # <<>>
    /\ stage = "decided" => Whole(textParts)
    /\ stage = "unsupported" /\ IsTicketNamed(body) => TicketTexts(doc) = {}

AgreementInv ==
    stage \in {"deciding", "decided"} /\ InOneOrder(doc) =>
        IsPrefix(textParts, text)

(* What the transcript has is what is not owed, in order.                  *)
WordsIn(s) == {i \in DOMAIN s : s[i].char = "word"}

TranscriptInv ==
    stage \in {"transcript", "read"} =>
        /\ {output[i] : i \in WordsIn(output)} =
              {c \in WordsOf(doc) : ~ Owed(agenda, c.at[1])}
        /\ \A i \in WordsIn(output) : \A k \in DOMAIN agenda :
              Earlier(output[i].at[1], agenda[k])
        /\ \A k, l \in DOMAIN agenda : k < l => Earlier(agenda[k], agenda[l])
        /\ \A i, j \in WordsIn(output) : i < j =>
              /\ WordBefore(output[i], output[j])
              /\ output[i].at[1] # output[j].at[1] =>
                    \E k \in i .. j : output[k] = Newline
        /\ \A i \in DOMAIN output : output[i] # Escape
        /\ stage = "read" => agenda = <<>>

IInv == TypeOK /\ PartsInv /\ StageInv /\ AgreementInv /\ TranscriptInv

=============================================================================
