-------------------------------- MODULE Text --------------------------------
(***************************************************************************)
(* How a text from a log gets into the column events and back: HashToString *)
(* and SanitizeEvent, json.Marshal, SanitizeJSONString, the conversion to  *)
(* jsonb, json.Unmarshal (utils/helpers.go, db.go:274-326 and 441-455).    *)
(*                                                                         *)
(* A text is a sequence of characters.  Only those are told apart that one *)
(* of the functions treats in its own way; "0", "1", "2", "a" and "f" are  *)
(* the hex digits, and a code is Width times the same digit: 0 is the code *)
(* of U+0000, 1 of another control character, 2 of the blank, a of "<",    *)
(* which json.Marshal escapes although it need not, and f of U+FFFD, which *)
(* it writes for a byte that is not UTF-8.                                 *)
(***************************************************************************)
EXTENDS Naturals, Sequences

CONSTANT Width   \* hex digits after \u: 4 in JSON

ASSUME WidthAssumption == Width \in Nat \ {0}

Bs == "\\"
Quote == "\""
Zero == "zero"           \* U+0000
Control == "control"     \* one of U+0001 to U+001F
Invalid == "invalid"     \* a byte that is not UTF-8
HexDigits == {"0", "1", "2", "a", "f"}

Characters == {Bs, Quote, Zero, Control, Invalid, "u", "<", " ", "g"} \cup HexDigits

Texts == Seq(Characters)
Codes == [1..Width -> HexDigits]

Repeat(c) == [i \in 1..Width |-> c]

\* What follows the first n characters of s.
After(s, n) == SubSeq(s, n + 1, Len(s))

\* The concatenation of what f gives for each character.
Each(f, s) ==
    LET each[t \in Texts] == IF t = << >> THEN << >> ELSE f[t[1]] \o each[After(t, 1)]
    IN  each[s]

\* Does s have \u at i?  And the digits it needs?
EscapeAt(s, i) == i < Len(s) /\ s[i] = Bs /\ s[i + 1] = "u"

DigitsAt(s, i) == /\ i + 1 + Width <= Len(s)
                  /\ \A k \in (i + 2)..(i + 1 + Width) : s[k] \in HexDigits

CodeAt(s, i) == SubSeq(s, i + 2, i + 1 + Width)

\* Mutant: every \u gets a second backslash, whether or not its digits follow.
FixEscapesEvery(f, s) ==
    LET fix[t \in Texts] ==
            CASE t = << >> -> << >>
              [] EscapeAt(t, 1) -> <<Bs, Bs, "u">> \o fix[After(t, 2)]
              [] OTHER -> <<t[1]>> \o fix[After(t, 1)]
    IN  fix[s]

\* The loop of both sanitisers: a \u with its digits becomes f of the digits,
\* any other \u gets a second backslash, and the rest is copied.
FixEscapes(f, s) ==
    LET fix[t \in Texts] ==
            CASE t = << >> -> << >>
              [] EscapeAt(t, 1) /\ DigitsAt(t, 1) ->
                     <<Bs, "u">> \o f[CodeAt(t, 1)] \o fix[After(t, 2 + Width)]
              [] EscapeAt(t, 1) /\ ~DigitsAt(t, 1) -> <<Bs, Bs, "u">> \o fix[After(t, 2)]
              [] OTHER -> <<t[1]>> \o fix[After(t, 1)]
    IN  fix[s]

Same == [digits \in Codes |-> digits]

CleanChar == [c \in Characters |-> CASE c = Invalid -> << >>
                                      [] c \in {Zero, Control} -> <<" ">>
                                      [] OTHER -> <<c>>]

SanitizeString(s) == FixEscapes(Same, Each(CleanChar, s))

\* The trailing zero bytes of a topic are no part of its text.
HashToString(h) ==
    SubSeq(h, 1, CHOOSE n \in 0..Len(h) : /\ n > 0 => h[n] # Zero
                                          /\ \A i \in (n + 1)..Len(h) : h[i] = Zero)

\* SanitizeEvent: its strings are sanitised, each by itself; bytes are written in
\* hex and everything else stays.
SanitizeEvent(data) ==
    [n \in DOMAIN data |-> IF n = "name" THEN SanitizeString(data[n]) ELSE data[n]]

MarshalChar ==
    [c \in Characters |->
        CASE c \in {Bs, Quote} -> <<Bs, c>>
          [] c = Zero -> <<Bs, "u">> \o Repeat("0")
          [] c = Control -> <<Bs, "u">> \o Repeat("1")
          [] c = "<" -> <<Bs, "u">> \o Repeat("a")
          [] c = Invalid -> <<Bs, "u">> \o Repeat("f")
          [] OTHER -> <<c>>]

\* json.Marshal of a string, without the quotes around it.
Marshal(s) == Each(MarshalChar, s)

ControlCodes == {Repeat("0"), Repeat("1")}

\* Mutant: every code becomes a blank.
BlankEvery == [digits \in Codes |-> Repeat("2")]

BlankControl == [digits \in Codes |-> IF digits \in ControlCodes THEN Repeat("2") ELSE digits]

SanitizeJSONString(j) == FixEscapes(BlankControl, j)

\* The character of a code.
CharOf(digits) == CASE digits = Repeat("0") -> Zero
                    [] digits = Repeat("1") -> Control
                    [] digits = Repeat("2") -> " "
                    [] digits = Repeat("a") -> "<"
                    [] OTHER -> "g"

\* A backslash before itself or a quote; a character that may not stand for itself.
Simple(t) == 1 < Len(t) /\ t[1] = Bs /\ t[2] \in {Bs, Quote}

Malformed(t) == /\ t # << >> /\ t[1] \in {Bs, Quote, Zero, Control}
                /\ ~Simple(t) /\ ~(EscapeAt(t, 1) /\ DigitsAt(t, 1))

\* The text a JSON string stands for, with Invalid where it is no JSON.
Unmarshal(j) ==
    LET read[t \in Texts] ==
            CASE t = << >> -> << >>
              [] EscapeAt(t, 1) /\ DigitsAt(t, 1) ->
                     <<CharOf(CodeAt(t, 1))>> \o read[After(t, 2 + Width)]
              [] Simple(t) -> <<t[2]>> \o read[After(t, 2)]
              [] Malformed(t) -> <<Invalid>>
              [] OTHER -> <<t[1]>> \o read[After(t, 1)]
    IN  read[j]

Has(s, c) == \E i \in DOMAIN s : s[i] = c

\* What UpdateEventsBatch sends for the text of a topic.
Sent(topic) ==
    LET event == SanitizeEvent([name |-> HashToString(topic)])
    IN  SanitizeJSONString(Marshal(Unmarshal(Marshal(event.name))))

\* The conversion to jsonb refuses what is no JSON, and the code of U+0000.
Accepted(j) == ~Has(Unmarshal(j), Invalid) /\ ~Has(Unmarshal(j), Zero)

\* GetEventsByBlockRange: the rows it can read, and what it reads in them.
GetEvents(rows) == {Unmarshal(j) : j \in {r \in rows : ~Has(Unmarshal(r), Invalid)}}
=============================================================================
