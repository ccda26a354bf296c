--------------------------------- MODULE Input ---------------------------------
(***************************************************************************)
(* What the child reads (terminal/input.rs): keys, mouse actions and       *)
(* pastes, encoded under the modes that the child set. Bytes are sequences *)
(* of tokens, a number written in digits is one token; a mouse report is a *)
(* record of its fields. And the prompt that keys edit (editbuf.rs).       *)
(***************************************************************************)
EXTENDS Naturals, Sequences, FiniteSets

CONSTANTS Printable,  \* characters without a control byte
          Controls,   \* a function: the characters with one, to the control byte's token
          Cells,      \* rows and columns of a screen, in u16
          Wd,         \* a function: characters to the bytes of their UTF-8
          MaxText     \* bound: the length of a text that is edited

LineEnds   == {"CR", "LF"}
Characters == Printable \cup DOMAIN Controls

\* No character is a control byte, and a character has one byte or more.
ASSUME InputAssumption ==
  /\ DOMAIN Controls \cap Printable = {}
  /\ \A c \in DOMAIN Controls : Controls[c] \notin Characters
  /\ Characters \cap {"CR", "HT", "DEL", "ESC"} = {}
  /\ \A n \in Cells : n \in Nat /\ n <= 65534
  /\ Wd \in [DOMAIN Wd -> Nat \ {0}] /\ MaxText \in Nat
  /\ DOMAIN Wd \cap LineEnds = {} /\ DOMAIN Wd \cap {"ESC", "[201~"} = {}

Mods == SUBSET {"shift", "alt", "ctrl"}

ModDigit == <<"1", "2", "3", "4", "5", "6", "7", "8">>

\* mod_param: xterm's modifier parameter, none without a modifier.
ModParam(m) ==
  {ModDigit[1 + (IF "shift" \in m THEN 1 ELSE 0) + (IF "alt" \in m THEN 2 ELSE 0)
              + (IF "ctrl" \in m THEN 4 ELSE 0)] : x \in {m} \ {{}}}

LetterBytes(ss3, letter, m) ==
  IF ModParam(m) = {} THEN <<"ESC", IF ss3 THEN "O" ELSE "[", letter>>
  ELSE <<"ESC", "[", "1", ";", CHOOSE p \in ModParam(m) : TRUE, letter>>

TildeBytes(n, m) ==
  IF ModParam(m) = {} THEN <<"ESC", "[", n, "~">>
  ELSE <<"ESC", "[", n, ";", CHOOSE p \in ModParam(m) : TRUE, "~">>

MetaBytes(meta, base) == (IF meta THEN <<"ESC">> ELSE <<>>) \o base

FLetter == <<"P", "Q", "R", "S">>
FNumber == <<"15", "17", "18", "19", "20", "21", "23", "24">>

\* f_bytes: nothing for a number without a key.
FBytes(n, m) ==
  IF n \in 1 .. 4 THEN {LetterBytes(TRUE, FLetter[n], m)}
  ELSE IF n \in 5 .. 12 THEN {TildeBytes(FNumber[n - 4], m)} ELSE {}

\* char_bytes: shift is in the character; nothing for a control byte that does not exist.
CharBytes(c, m) ==
  IF "ctrl" \in m
    THEN IF c \in DOMAIN Controls THEN {MetaBytes("alt" \in m, <<Controls[c]>>)} ELSE {}
    ELSE {MetaBytes("alt" \in m, <<c>>)}

CursorLetter == [Up |-> "A", Down |-> "B", Right |-> "C", Left |-> "D", Home |-> "H", End |-> "F"]
TildeNumber  == [Insert |-> "2", Delete |-> "3", PageUp |-> "5", PageDown |-> "6"]

Key(kind, n, c) == [kind |-> kind, n |-> n, c |-> c]
Keys ==
  {Key("Char", 0, c) : c \in Printable \cup DOMAIN Controls} \cup {Key("F", n, "") : n \in 0 .. 13}
    \cup {Key(k, 0, "") : k \in DOMAIN CursorLetter \cup DOMAIN TildeNumber
                                 \cup {"Enter", "Tab", "BackTab", "Backspace", "Esc"}}

\* Mutant: shift is taken for alt.
ShiftMeta(m) == m \cap {"alt", "shift"} # {}

\* The keys without a parameter keep alt alone.
AltMeta(m) == "alt" \in m

\* key_bytes.
KeyBytes(appCursor, key, m) ==
  CASE key.kind = "Char" -> CharBytes(key.c, m)
    [] key.kind = "F"    -> FBytes(key.n, m)
    [] key.kind \in DOMAIN CursorLetter -> {LetterBytes(appCursor, CursorLetter[key.kind], m)}
    [] key.kind \in DOMAIN TildeNumber  -> {TildeBytes(TildeNumber[key.kind], m)}
    [] key.kind = "Enter"     -> {MetaBytes(m \cap {"shift", "alt"} # {}, <<"CR">>)}
    [] key.kind = "Tab"       -> {MetaBytes(AltMeta(m), <<"HT">>)}
    [] key.kind = "BackTab"   -> {MetaBytes(AltMeta(m), <<"ESC", "[", "Z">>)}
    [] key.kind = "Backspace" -> {MetaBytes(AltMeta(m), <<"DEL">>)}
    [] OTHER                  -> {MetaBytes(AltMeta(m), <<"ESC">>)}

-----------------------------------------------------------------------------
(* The mouse.                                                              *)

Smaller(a, b) == IF a < b THEN a ELSE b

Buttons == [Left |-> 0, Middle |-> 1, Right |-> 2]
Wheels  == [WheelUp |-> 64, WheelDown |-> 65]
MouseKinds == [kind : DOMAIN Wheels, b : {"Left"}] \cup [kind : {"Press", "Drag", "Release"}, b : DOMAIN Buttons]

ButtonCode(k) ==
  IF k.kind \in DOMAIN Wheels THEN Wheels[k.kind]
  ELSE IF k.kind = "Drag" THEN 32 + Buttons[k.b] ELSE Buttons[k.b]

Modes     == {"None", "Press", "PressRelease", "ButtonMotion", "AnyMotion"}
Encodings == {"Default", "Utf8", "Sgr"}

Report(code, suffix, x, y) == {[code |-> code, suffix |-> suffix, x |-> x, y |-> y]}

\* Mutant: the byte of the last column wraps.
OneByteLate(n) == (33 + Smaller(n, 223)) % 256

\* A field of one byte.
OneByte(n) == (33 + Smaller(n, 222)) % 256

\* Under each encoding; outside SGR a release is code 3.
MouseReport(encoding, k, col, line) ==
  LET release == k.kind = "Release"
      code == IF release /\ encoding # "Sgr" THEN 3 ELSE ButtonCode(k)
  IN  CASE encoding = "Sgr"  -> Report(code, IF release THEN "m" ELSE "M", (col + 1) % 65536, (line + 1) % 65536)
        [] encoding = "Utf8" -> Report(32 + code, "M", 33 + Smaller(col, 2014), 33 + Smaller(line, 2014))
        [] OTHER -> Report((32 + code) % 256, "M", OneByte(col), OneByte(line))

\* mouse_bytes: drags under the motion modes only, nothing without a mode.
MouseBytes(tracking, encoding, k, col, line) ==
  IF tracking = "None" \/ (k.kind = "Drag" /\ tracking \notin {"ButtonMotion", "AnyMotion"})
    THEN {} ELSE MouseReport(encoding, k, col, line)

\* Without a mode, the wheel is three arrows on the alternate screen, if the child has
\* alternate scroll.
WheelKeys(tracking, alternateScroll, appCursor, k) ==
  IF tracking # "None" \/ ~alternateScroll \/ k.kind \notin DOMAIN Wheels THEN {}
  ELSE {b \o b \o b : b \in KeyBytes(appCursor, Key(IF k.kind = "WheelUp" THEN "Up" ELSE "Down", 0, ""), {})}

\* paste_bytes outside bracketed mode: every line end is a CR.
PasteLines(content) ==
  LET upTo[n \in 0 .. Len(content)] ==
        IF n = 0 THEN <<>>
        ELSE IF content[n] # "LF" THEN Append(upTo[n - 1], content[n])
        ELSE IF n > 1 /\ content[n - 1] = "CR" THEN upTo[n - 1] ELSE Append(upTo[n - 1], "CR")
  IN  upTo[Len(content)]

\* Where a terminator of bracketed pastes ends in s; what follows its ESC is one token.
Ends(s) == {n \in 2 .. Len(s) : s[n - 1] = "ESC" /\ s[n] = "[201~"}

\* Mutant: the first terminator alone is taken out.
StrippedFirst(content) ==
  LET upTo[n \in 0 .. Len(content)] ==
        IF n = 0 THEN <<>>
        ELSE IF n \in Ends(content) /\ \A m \in Ends(content) : n <= m
          THEN SubSeq(upTo[n - 1], 1, Len(upTo[n - 1]) - 1)
        ELSE Append(upTo[n - 1], content[n])
  IN  upTo[Len(content)]

\* paste_bytes in bracketed mode: one pass takes the terminators out of the content, and what
\* is left goes between the markers as it is.
Stripped(content) ==
  LET upTo[n \in 0 .. Len(content)] ==
        IF n = 0 THEN <<>>
        ELSE IF n \in Ends(content) THEN SubSeq(upTo[n - 1], 1, Len(upTo[n - 1]) - 1)
        ELSE Append(upTo[n - 1], content[n])
  IN  upTo[Len(content)]
Bracketed(content) == <<"ESC", "[200~">> \o Stripped(content) \o <<"ESC", "[201~">>

-----------------------------------------------------------------------------
(* EditBuffer: a text, and a caret in bytes of it.                         *)

Bytes(text) == LET upTo[n \in 0 .. Len(text)] == IF n = 0 THEN 0 ELSE upTo[n - 1] + Wd[text[n]]
               IN  upTo[Len(text)]

\* The number of characters before the caret; it has none inside a character.
Before(b) == {n \in 0 .. Len(b.text) : Bytes(SubSeq(b.text, 1, n)) = b.caret}
At(b) == CHOOSE n \in Before(b) : TRUE

Buffer(text, caret) == [text |-> text, caret |-> caret]
Spliced(b, from, to, new) == SubSeq(b.text, 1, from) \o new \o SubSeq(b.text, to + 1, Len(b.text))

InsertChar(b, c) == Buffer(Spliced(b, At(b), At(b), <<c>>), b.caret + Wd[c])

\* Mutant: the caret moves back one byte.
BackspaceByte(b) ==
  IF At(b) = 0 THEN b ELSE Buffer(Spliced(b, At(b) - 1, At(b), <<>>), b.caret - 1)

Backspace(b) ==
  IF At(b) = 0 THEN b ELSE Buffer(Spliced(b, At(b) - 1, At(b), <<>>), b.caret - Wd[b.text[At(b)]])
MoveLeft(b)  == IF At(b) = 0 THEN b ELSE [b EXCEPT !.caret = @ - Wd[b.text[At(b)]]]
MoveRight(b) == IF At(b) = Len(b.text) THEN b ELSE [b EXCEPT !.caret = @ + Wd[b.text[At(b) + 1]]]
MoveHome(b)  == [b EXCEPT !.caret = 0]
MoveEnd(b)   == [b EXCEPT !.caret = Bytes(b.text)]

Seeded(text) == Buffer(text, Bytes(text))

\* What s has of C.
Sifted(s, C) ==
  LET upTo[n \in 0 .. Len(s)] ==
        IF n = 0 THEN <<>> ELSE IF s[n] \in C THEN Append(upTo[n - 1], s[n]) ELSE upTo[n - 1]
  IN  upTo[Len(s)]

\* EditBuffer::paste: at the caret, without the control characters.
PasteText(b, s) ==
  LET kept == Sifted(s, DOMAIN Wd)
  IN  Buffer(Spliced(b, At(b), At(b), kept), b.caret + Bytes(kept))

\* What a key of the prompt does, but for typing.
Edits(b) == {Backspace(b), MoveLeft(b), MoveRight(b), MoveHome(b), MoveEnd(b)}

-----------------------------------------------------------------------------
(* Properties.                                                             *)

\* What a press means to the child: the modifiers that each key keeps, and the key whose control
\* byte a character has.
ControlKey == [CR |-> "Enter", HT |-> "Tab", DEL |-> "Backspace", ESC |-> "Esc"]
Meaning(key, m) ==
  CASE key.kind = "Char" ->
         <<IF "ctrl" \notin m THEN Key("Char", 0, key.c)
           ELSE IF Controls[key.c] \in DOMAIN ControlKey THEN Key(ControlKey[Controls[key.c]], 0, "")
           ELSE Key("Char", 0, Controls[key.c]), m \cap {"alt"}>>
    [] key.kind \in {"F"} \cup DOMAIN CursorLetter \cup DOMAIN TildeNumber -> <<key, m>>
    [] key.kind = "Enter" -> <<key, IF m \cap {"shift", "alt"} # {} THEN {"alt"} ELSE {}>>
    [] OTHER -> <<key, m \cap {"alt"}>>

Pressed == {km \in Keys \X Mods : KeyBytes(FALSE, km[1], km[2]) # {}}

\* Two presses are sent as the same bytes exactly if they mean the same to the child, in either
\* cursor mode (key_bytes): no modifier is lost on the way and none is made up.
KeysApart ==
  \A app \in BOOLEAN, a, b \in Pressed :
    (KeyBytes(app, a[1], a[2]) = KeyBytes(app, b[1], b[2])) <=> Meaning(a[1], a[2]) = Meaning(b[1], b[2])

\* What an encoding counts from, and the last cell that it can name.
First(e) == IF e = "Sgr" THEN 1 ELSE 33
Last(e)  == CASE e = "Sgr" -> 65534 [] e = "Utf8" -> 2014 [] OTHER -> 222

\* The child reads the cell under the pointer, or the last one that the encoding can name
\* (mouse_bytes), and never both a report and arrows.
MouseHits ==
  \A tracking \in Modes, e \in Encodings, k \in MouseKinds, col, line \in Cells :
    /\ \A r \in MouseBytes(tracking, e, k, col, line) :
         r.x = First(e) + Smaller(col, Last(e)) /\ r.y = First(e) + Smaller(line, Last(e))
    /\ MouseBytes(tracking, e, k, col, line) = {} \/ WheelKeys(tracking, TRUE, FALSE, k) = {}

\* A paste without brackets keeps its text and has a CR for each of its line ends, CRLF being
\* one (paste_bytes).
PasteKept ==
  \A n \in 0 .. MaxText : \A s \in [1 .. n -> DOMAIN Wd \cup LineEnds] :
    LET out == PasteLines(s)
        ends == {i \in DOMAIN s : s[i] = "LF" \/ (s[i] = "CR" /\ ~(i < n /\ s[i + 1] = "LF"))}
    IN  /\ Sifted(out, DOMAIN Wd) = Sifted(s, DOMAIN Wd)
        /\ Len(Sifted(out, {"CR"})) = Cardinality(ends) /\ \A i \in DOMAIN out : out[i] # "LF"
        /\ (\A i \in DOMAIN s : s[i] # "LF") => out = s

\* What may be pasted into brackets.
Pasted == DOMAIN Wd \cup LineEnds \cup {"ESC", "[201~"}

\* A paste in brackets keeps its text and its line ends, all of it if it holds no terminator, and
\* ends where its brackets end, unless it has a terminator straight behind an ESC: taking that one
\* out may put another one together, where the child takes the paste to end (paste_bytes).
BracketsKept ==
  \A n \in 0 .. MaxText : \A s \in [1 .. n -> Pasted] :
    LET text == DOMAIN Wd \cup LineEnds
        out == Bracketed(s)
    IN  /\ Sifted(Stripped(s), text) = Sifted(s, text)
        /\ Ends(s) = {} => Stripped(s) = s
        /\ (\A m \in Ends(s) : m > 2 => s[m - 2] # "ESC") => Ends(out) = {Len(out)}

\* At a caret after k characters: what is after the caret stays, and Backspace takes back what is
\* typed, a move the one before it.
EditsFit(text, k) ==
  LET b == Buffer(text, Bytes(SubSeq(text, 1, k)))
      after(x) == SubSeq(x.text, At(x) + 1, Len(x.text))
      fits(x) == Before(x) # {} /\ after(x) = after(b)
  IN  /\ \A x \in Edits(b) : Before(x) # {}
      /\ fits(Backspace(b))
      /\ \A c \in DOMAIN Wd : fits(InsertChar(b, c)) /\ Backspace(InsertChar(b, c)) = b
      /\ \A c, d \in DOMAIN Wd :
           LET x == PasteText(b, <<"CR", c, "LF", d>>) IN fits(x) /\ Backspace(Backspace(x)) = b
      /\ MoveEnd(b) = Seeded(text)
      /\ \A x \in {MoveLeft(b), MoveRight(b)} : x.text = text
      /\ k > 0 => At(MoveLeft(b)) = k - 1 /\ MoveRight(MoveLeft(b)) = b

\* The caret stays between two characters, and an edit at it changes what is before it alone
\* (EditBuffer).
CaretBetween ==
  \A n \in 0 .. MaxText : \A text \in [1 .. n -> DOMAIN Wd] : \A k \in 0 .. n : EditsFit(text, k)
=================================================================================
