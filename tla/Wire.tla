---------------------------------- MODULE Wire ----------------------------------
(***************************************************************************)
(* The messages of the socket (protocol.rs) and their frames (frame.rs).   *)
(* A message is an object, a function from its keys to JSON values. A      *)
(* value of type Option<T> is a set with at most one element, `?` the empty*)
(* set of decoded messages. Numbers are scaled down with their widths, a   *)
(* duration counts half milliseconds.                                      *)
(***************************************************************************)
EXTENDS Naturals, Sequences

CONSTANTS Strings,  \* texts of messages
          Chars,    \* those of exactly one char
          Octets,   \* byte strings: the texts' and others, which are not UTF-8
          Base64,   \* a function from Octets to their base64 texts
          Ids, U8, U16, U32, U64,  \* task IDs; the largest numbers of the widths
          MaxFrame  \* MAX_FRAME, in bytes of a payload

ASSUME WireAssumption ==
  /\ Chars \subseteq Strings /\ Strings \subseteq Octets
  /\ \A o, p \in Octets : Base64[o] = Base64[p] => o = p
  /\ {U8, U16, U32, U64} \subseteq Nat /\ U8 < U16 /\ U16 < U32 /\ U32 < U64 /\ Ids = 0 .. U64
  /\ MaxFrame \in Nat

Maybe(S) == {{}} \cup {{x} : x \in S}

-----------------------------------------------------------------------------
(* JSON values, and what reads them.                                       *)

Json(str, num, flag, list) == [str |-> str, num |-> num, flag |-> flag, list |-> list]
Null    == Json({}, {}, {}, {})
Str(s)  == Json({s}, {}, {}, {})
Num(n)  == Json({}, {n}, {}, {})
Flag(b) == Json({}, {}, {b}, {})
List(l) == Json({}, {}, {}, {l})
B64(o)  == Str(Base64[o])

\* v["key"] of an object without the key is null.
Get(o, k) == IF k \in DOMAIN o THEN o[k] ELSE Null

IsNull(v) == v.str = {} /\ v.num = {} /\ v.flag = {} /\ v.list = {}
Members(v) == IF v.list = {} THEN <<>> ELSE CHOOSE l \in v.list : TRUE

\* as_u32, T::try_from.
NumFrom(v, max) == {n \in v.num : n <= max}

\* Mutant: a number too large for its type wraps.
NumFromWrapping(v, max) == {n % (max + 1) : n \in v.num}

\* num_from: a number that does not fit is refused.
NumOf(v, max) == NumFrom(v, max)

\* path_from_b64, os_from_b64: strict base64.
FromB64(v) == {o \in Octets : Base64[o] \in v.str}

BoolFlag(v) == IF IsNull(v) THEN {FALSE} ELSE v.flag

\* Mutant: whatever is not a string clears the field.
OptStrLax(v) == {v.str}

\* opt_str, opt_u64: missing and null both clear the field, another type rejects it.
OptStr(v) == IF IsNull(v) THEN {{}} ELSE {{s} : s \in v.str}
OptNum(v) == IF IsNull(v) THEN {{}} ELSE {{n} : n \in v.num}

\* opt_ms: in whole milliseconds.
OptMs(v) == {{2 * n : n \in ms} : ms \in OptNum(v)}

\* str_vec: one member that is no string rejects the array.
StrVec(v) ==
  IF \A i \in DOMAIN Members(v) : Members(v)[i].str # {}
    THEN {[i \in DOMAIN Members(v) |-> CHOOSE s \in Members(v)[i].str : TRUE]}
    ELSE {}

\* The object with the keys of both.
Joined(o, p) == [k \in DOMAIN o \cup DOMAIN p |-> IF k \in DOMAIN o THEN o[k] ELSE p[k]]

\* insert_opt_str, insert_opt_ms: a key is there if its field is set.
InsertOpt(fields) == [k \in {x \in DOMAIN fields : fields[x] # {}} |-> CHOOSE v \in fields[k] : TRUE]
Texts(S)  == {Str(s) : s \in S}
Millis(S) == {Num(d \div 2) : d \in S}

InsertFlags(keys, held) == [k \in {keys[m] : m \in held} |-> Flag(TRUE)]

-----------------------------------------------------------------------------
(* Commands.                                                               *)

UnitKeyTag == [Up |-> "up", Down |-> "dn", Left |-> "lt", Right |-> "rt", Home |-> "home",
               End |-> "end", PageUp |-> "pgup", PageDown |-> "pgdn", Insert |-> "ins",
               Delete |-> "del", Enter |-> "ent", Tab |-> "tab", BackTab |-> "btab",
               Backspace |-> "bs", Esc |-> "esc"]
ModKey   == [shift |-> "sh", alt |-> "al", ctrl |-> "ct"]
WheelTag == [WheelUp |-> "wu", WheelDown |-> "wd"]
PressTag == [Press |-> "p", Drag |-> "d", Release |-> "r"]
ByTag == [Up |-> "u", Down |-> "d"]
ToTag == [Top |-> "t", Live |-> "l"]

\* The names that a table gives the tag in v.
Tagged(table, v) == {x \in DOMAIN table : table[x] \in v.str}

Unit(kind) == [kind |-> kind, arg |-> 0]
With(kind, n) == [kind |-> kind, arg |-> n]
CharKey(c) == [kind |-> "Char", arg |-> 0, char |-> c]

\* MouseAction, KeyCode, ScrollAction.
MouseActions == {Unit(k) : k \in DOMAIN WheelTag} \cup {With(k, b) : k \in DOMAIN PressTag, b \in 0 .. 2}
KeyCodes == {CharKey(c) : c \in Chars} \cup {With("F", n) : n \in 0 .. U8}
              \cup {Unit(k) : k \in DOMAIN UnitKeyTag}
ScrollActions == {Unit(k) : k \in DOMAIN ToTag} \cup {With(k, n) : k \in DOMAIN ByTag, n \in 0 .. U16}

\* Every Command, with the field names of protocol.rs.
Commands ==
  [t : {"spawn"}, command : Strings, cwd : Octets, group : Maybe(Strings)]
    \cup [t : {"spawn_agent"}, agent : Strings, cwd : Octets, group : Maybe(Strings)]
    \cup [t : {"kill", "remove", "restart"}, id : Ids]
    \cup [t : {"tag"}, id : Ids, on : BOOLEAN]
    \cup [t : {"flagship"}, mark : Maybe(Ids)]
    \cup [t : {"group"}, id : Ids, group : Maybe(Strings)]
    \cup [t : {"name"}, id : Ids, name : Maybe(Strings)]
    \cup [t : {"resize"}, rows : 0 .. U16, cols : 0 .. U16]
    \cup [t : {"watch"}, mark : Maybe(Ids), attached : BOOLEAN]
    \cup [t : {"paste"}, id : Ids, bytes : Octets]
    \cup [t : {"mouse"}, id : Ids, col : 0 .. U16, row : 0 .. U16, mouse : MouseActions]
    \cup [t : {"key"}, id : Ids, mods : SUBSET DOMAIN ModKey, code : KeyCodes]
    \cup [t : {"sb"}, id : Ids, action : ScrollActions]
    \cup [t : {"save", "load"}, name : Strings]
    \cup [t : {"recover"}, stem : Strings]
    \cup [t : {"list", "shutdown"}]

EncodeMouse(m) ==
  IF m.kind \in DOMAIN WheelTag
    THEN [k |-> Str(WheelTag[m.kind])]
    ELSE [k |-> Str(PressTag[m.kind]), b |-> Num(m.arg)]

EncodeKey(code, mods) ==
  Joined(CASE code.kind = "Char" -> [ch |-> Str(code.char), k |-> Str("ch")]
           [] code.kind = "F"    -> [n |-> Num(code.arg), k |-> Str("f")]
           [] OTHER              -> [k |-> Str(UnitKeyTag[code.kind])],
         InsertFlags(ModKey, mods))

EncodeScroll(a) ==
  IF a.kind \in DOMAIN ToTag
    THEN [a |-> Str(ToTag[a.kind])]
    ELSE [a |-> Str(ByTag[a.kind]), n |-> Num(a.arg)]

\* What the object holds besides its discriminant and the ID.
EncodeFields(c) ==
  CASE c.t = "spawn" -> Joined([command |-> Str(c.command), cwd |-> B64(c.cwd)],
                               InsertOpt([group |-> Texts(c.group)]))
    [] c.t = "spawn_agent" -> Joined([agent |-> Str(c.agent), cwd |-> B64(c.cwd)],
                                     InsertOpt([group |-> Texts(c.group)]))
    [] c.t = "tag"      -> [on |-> Flag(c.on)]
    [] c.t = "flagship" -> [id |-> Json({}, c.mark, {}, {})]
    [] c.t = "group"    -> InsertOpt([g |-> Texts(c.group)])
    [] c.t = "name"     -> InsertOpt([n |-> Texts(c.name)])
    [] c.t = "resize"   -> [rows |-> Num(c.rows), cols |-> Num(c.cols)]
    [] c.t = "watch"    -> [id |-> Json({}, c.mark, {}, {}), attached |-> Flag(c.attached)]
    [] c.t = "paste"    -> [bytes |-> B64(c.bytes)]
    [] c.t = "mouse"    -> Joined([col |-> Num(c.col), row |-> Num(c.row)], EncodeMouse(c.mouse))
    [] c.t = "key"      -> EncodeKey(c.code, c.mods)
    [] c.t = "sb"       -> EncodeScroll(c.action)
    [] c.t \in {"save", "load"} -> [name |-> Str(c.name)]
    [] c.t = "recover"  -> [stem |-> Str(c.stem)]
    [] OTHER            -> <<>>

EncodeCommand(c) ==
  Joined(IF "id" \in DOMAIN c THEN [t |-> Str(c.t), id |-> Num(c.id)] ELSE [t |-> Str(c.t)],
         EncodeFields(c))

DecodeMouse(o) ==
  {Unit(k) : k \in Tagged(WheelTag, Get(o, "k"))}
    \cup {With(k, b) : k \in Tagged(PressTag, Get(o, "k")), b \in Get(o, "b").num \cap 0 .. 2}

DecodeKey(o) ==
  {Unit(k) : k \in Tagged(UnitKeyTag, Get(o, "k"))}
    \cup (IF "f" \in Get(o, "k").str THEN {With("F", n) : n \in NumOf(Get(o, "n"), U8)} ELSE {})
    \cup (IF "ch" \in Get(o, "k").str
            THEN {CharKey(c) : c \in Get(o, "ch").str \cap Chars} ELSE {})

\* A modifier of the wrong type rejects the key, a missing one is not held.
DecodeMods(o) ==
  IF \E m \in DOMAIN ModKey : BoolFlag(Get(o, ModKey[m])) = {}
    THEN {}
    ELSE {{m \in DOMAIN ModKey : TRUE \in BoolFlag(Get(o, ModKey[m]))}}

DecodeScroll(o) ==
  {Unit(k) : k \in Tagged(ToTag, Get(o, "a"))}
    \cup {With(k, n) : k \in Tagged(ByTag, Get(o, "a")), n \in NumOf(Get(o, "n"), U16)}

\* decode_command: nothing, or the command, for a control frame that is JSON.
DecodeAs(t, o) ==
  LET id == Get(o, "id").num
      text(k) == Get(o, k).str
      flag(k) == Get(o, k).flag
      u16(k)  == NumOf(Get(o, k), U16)
      opt(k)  == OptStr(Get(o, k))
  IN  CASE t = "spawn" -> [t : {t}, command : text("command"), cwd : FromB64(Get(o, "cwd")),
                           group : opt("group")]
        [] t = "spawn_agent" -> [t : {t}, agent : text("agent"), cwd : FromB64(Get(o, "cwd")),
                                 group : opt("group")]
        [] t \in {"kill", "remove", "restart"} -> [t : {t}, id : id]
        [] t = "tag"      -> [t : {t}, id : id, on : flag("on")]
        [] t = "flagship" -> [t : {t}, mark : OptNum(Get(o, "id"))]
        [] t = "group"    -> [t : {t}, id : id, group : opt("g")]
        [] t = "name"     -> [t : {t}, id : id, name : opt("n")]
        [] t = "resize"   -> [t : {t}, rows : u16("rows"), cols : u16("cols")]
        [] t = "watch"    -> [t : {t}, mark : OptNum(Get(o, "id")), attached : flag("attached")]
        [] t = "paste"    -> [t : {t}, id : id, bytes : FromB64(Get(o, "bytes"))]
        [] t = "mouse"    -> [t : {t}, id : id, col : u16("col"), row : u16("row"),
                              mouse : DecodeMouse(o)]
        [] t = "key"      -> [t : {t}, id : id, mods : DecodeMods(o), code : DecodeKey(o)]
        [] t = "sb"       -> [t : {t}, id : id, action : DecodeScroll(o)]
        [] t \in {"save", "load"} -> [t : {t}, name : text("name")]
        [] t = "recover"  -> [t : {t}, stem : text("stem")]
        [] t \in {"list", "shutdown"} -> [t : {t}]
        [] OTHER          -> {}

DecodeCommand(o) == UNION {DecodeAs(t, o) : t \in Get(o, "t").str}

-----------------------------------------------------------------------------
(* Events. A row of Tasks is a TaskView with its preview's fields.         *)

Lifecycles == {"active", "idle", "ok", "failed", "stopped"}  \* label, from_label
Sources    == {"floor", "marker", "title", "anchor"}
Selectors  == {"c", "p", "s"}                                \* ClipboardKind::selector

EncodeRow(v) ==
  Joined([id |-> Num(v.id), command |-> Str(v.command), cwd |-> B64(v.cwd), tagged |-> Flag(v.tagged),
          flagship |-> Flag(v.flagship), managed |-> Flag(v.managed), life |-> Str(v.life),
          preview |-> Str(v.preview), src |-> Str(v.src), frozen |-> Flag(v.frozen),
          working |-> Flag(v.working)],
         InsertOpt([group |-> Texts(v.group), name |-> Texts(v.name), started_ms |-> Millis(v.started),
                    quiet_ms |-> Millis(v.quiet), finished_ms |-> Millis(v.finished)]))

DecodeRow(o) ==
  [id : Get(o, "id").num, command : Get(o, "command").str, cwd : FromB64(Get(o, "cwd")),
   tagged : Get(o, "tagged").flag, flagship : Get(o, "flagship").flag,
   managed : Get(o, "managed").flag, group : OptStr(Get(o, "group")), name : OptStr(Get(o, "name")),
   life : Get(o, "life").str \cap Lifecycles, preview : Get(o, "preview").str,
   src : Get(o, "src").str \cap Sources, rule : {{}}, frozen : Get(o, "frozen").flag,
   working : Get(o, "working").flag, started : OptMs(Get(o, "started_ms")),
   quiet : OptMs(Get(o, "quiet_ms")), finished : OptMs(Get(o, "finished_ms"))]

\* recovery_vec: the entries that can be read.
EncodeEntry(r) ==
  [stem |-> Str(r.stem), label |-> Str(r.label), tasks |-> Num(r.tasks), age |-> Num(r.age)]
DecodeEntry(o) ==
  [stem : Get(o, "stem").str, label : Get(o, "label").str, tasks : NumOf(Get(o, "tasks"), U32),
   age : Get(o, "age").num]

StrList(s)   == List([i \in DOMAIN s |-> Str(s[i])])
RowList(s)   == List([i \in DOMAIN s |-> EncodeRow(s[i])])
EntryList(s) == List([i \in DOMAIN s |-> EncodeEntry(s[i])])

\* Every member, or nothing; the members there are.
AllOf(parts) ==
  IF \A i \in DOMAIN parts : parts[i] # {}
    THEN {[i \in DOMAIN parts |-> CHOOSE x \in parts[i] : TRUE]} ELSE {}
SomeOf(parts) ==
  LET read[n \in 0 .. Len(parts)] ==
        IF n = 0 THEN <<>>
        ELSE IF parts[n] = {} THEN read[n - 1] ELSE Append(read[n - 1], CHOOSE x \in parts[n] : TRUE)
  IN  read[Len(parts)]

Rows(v)  == [i \in DOMAIN Members(v) |-> DecodeRow(Members(v)[i])]
Saved(v) == [i \in DOMAIN Members(v) |-> DecodeEntry(Members(v)[i])]

\* encode_event.
EncodeEvent(e) ==
  Joined([t |-> Str(e.t)],
         CASE e.t = "agents"   -> [agents |-> StrList(e.agents)]
           [] e.t = "tasks"    -> [tasks |-> RowList(e.tasks)]
           [] e.t = "status"   -> [msg |-> Str(e.msg)]
           [] e.t = "spawned"  -> [id |-> Num(e.id)]
           [] e.t = "sessions" -> [names |-> StrList(e.names),
                                   recovery |-> EntryList(e.recovery)]
           [] e.t = "clip"     -> [id |-> Num(e.id), k |-> Str(e.kind), text |-> B64(e.text)]
           [] OTHER            -> <<>>)

\* decode_event: the menu of agents must be an array, a task row that cannot be read
\* rejects the frame, clipboard text must be UTF-8.
DecodeEventAs(t, o) ==
  CASE t = "hello_ok" -> [t : {t}]
    [] t = "agents"   -> IF Get(o, "agents").list = {} THEN {}
                         ELSE [t : {t}, agents : StrVec(Get(o, "agents"))]
    [] t = "tasks"    -> [t : {t}, tasks : AllOf(Rows(Get(o, "tasks")))]
    [] t = "status"   -> [t : {t}, msg : Get(o, "msg").str]
    [] t = "spawned"  -> [t : {t}, id : Get(o, "id").num]
    [] t = "sessions" -> [t : {t}, names : StrVec(Get(o, "names")),
                          recovery : {SomeOf(Saved(Get(o, "recovery")))}]
    [] t = "clip"     -> [t : {t}, id : Get(o, "id").num, kind : Get(o, "k").str \cap Selectors,
                          text : FromB64(Get(o, "text")) \cap Strings]
    [] OTHER          -> {}

DecodeEvent(o) == UNION {DecodeEventAs(t, o) : t \in Get(o, "t").str}

-----------------------------------------------------------------------------
(* Screens and the handshake.                                              *)

Header(o) == [header |-> {o}, raw |-> {}]
Raw(o)    == [header |-> {}, raw |-> {o}]

\* The header's length, the header, and the raw bytes after it.
EncodeScreen(s) ==
  [hlen |-> 1,
   bytes |-> <<Header([id |-> Num(s.id), cursor |-> List(<<Num(s.cursor[1]), Num(s.cursor[2])>>),
                       hide |-> Flag(s.hide), mouse |-> Flag(s.mouse), alt |-> Flag(s.alt),
                       ascr |-> Flag(s.ascr), sb |-> Num(s.sb), lines |-> StrList(s.lines)])>>
               \o [i \in DOMAIN s.formatted |-> Raw(s.formatted[i])]]

Nth(v, i) == IF i \in DOMAIN Members(v) THEN Members(v)[i] ELSE Null

DecodeHeader(h, formatted) ==
  [id : Get(h, "id").num, lines : StrVec(Get(h, "lines")), formatted : {formatted},
   cursor : NumOf(Nth(Get(h, "cursor"), 1), U16) \X NumOf(Nth(Get(h, "cursor"), 2), U16),
   hide : Get(h, "hide").flag, mouse : Get(h, "mouse").flag, alt : Get(h, "alt").flag,
   ascr : Get(h, "ascr").flag, sb : NumOf(Get(h, "sb"), U64)]

\* What the length delimits must be there, and be a header.
DecodeScreen(p) ==
  IF p.hlen = 1 /\ p.bytes # <<>> /\ \A i \in 2 .. Len(p.bytes) : p.bytes[i].raw # {}
    THEN UNION {DecodeHeader(h, [i \in 1 .. Len(p.bytes) - 1 |-> CHOOSE x \in p.bytes[i + 1].raw : TRUE]) :
                  h \in p.bytes[1].header}
    ELSE {}

\* encode_hello, decode_hello, and the version alone for the report of a mismatch.
EncodeHello(v, ctx) ==
  [v |-> Num(v), cwd |-> B64(ctx.cwd),
   env |-> List([i \in DOMAIN ctx.env |-> List(<<B64(ctx.env[i][1]), B64(ctx.env[i][2])>>)])]
DecodeHello(o) ==
  [v : NumFrom(Get(o, "v"), U32),
   ctx : [cwd : FromB64(Get(o, "cwd")),
          env : AllOf([i \in DOMAIN Members(Get(o, "env")) |->
                         FromB64(Nth(Members(Get(o, "env"))[i], 1))
                           \X FromB64(Nth(Members(Get(o, "env"))[i], 2))])]]
HelloVersion(o) == NumFrom(Get(o, "v"), U32)

\* handshake and what serve_client sends: an acknowledgement, or why there is none. The text
\* names the versions, none without a handshake that says one.
Refusal(daemon, client) == [t |-> "status", msg |-> <<daemon, client>>]

\* Mutant: an older client is refused, a newer one is served.
HandshakeOlder(daemon, o) ==
  IF \E h \in DecodeHello(o) : h.v >= daemon THEN [t |-> "hello_ok"]
  ELSE Refusal(daemon, HelloVersion(o) \ {daemon})

Handshake(daemon, o) ==
  IF \E h \in DecodeHello(o) : h.v = daemon THEN [t |-> "hello_ok"]
  ELSE Refusal(daemon, HelloVersion(o) \ {daemon})

\* check_hello_ack: ready, or the text of the error; a daemon that says anything else is stale.
CheckHelloAck(o) ==
  LET said == DecodeEvent(o)
  IN  CASE \E e \in said : e.t = "hello_ok" -> [ready |-> TRUE, error |-> {}]
        [] \E e \in said : e.t = "status"   -> [ready |-> FALSE, error |-> {e.msg : e \in said}]
        [] OTHER -> [ready |-> FALSE, error |-> {"stale"}]

\* connect_ready and connect_ready_bounded, from the first reply: none at the end of the
\* stream, or in time.
ConnectReady(replies) ==
  IF replies = {} THEN [ready |-> FALSE, error |-> {"gone or busy"}]
  ELSE CheckHelloAck(CHOOSE o \in replies : TRUE)

-----------------------------------------------------------------------------
(* Frames on the stream: the length of the payload, the kind, the payload. *)

\* Mutant: the length counts the kind too.
WriteFrameKindCounted(kind, payload) ==
  IF Len(payload) > MaxFrame THEN <<>> ELSE <<Len(payload) + 1, kind>> \o payload

\* write_frame: nothing of a frame too large.
WriteFrame(kind, payload) ==
  IF Len(payload) > MaxFrame THEN <<>> ELSE <<Len(payload), kind>> \o payload

\* read_frame: a whole frame and what follows, or an error.
ReadFrame(s) ==
  IF Len(s) < 2 \/ s[1] > MaxFrame \/ Len(s) < 2 + s[1]
    THEN {}
    ELSE {[kind |-> s[2], payload |-> SubSeq(s, 3, 2 + s[1]), rest |-> SubSeq(s, 3 + s[1], Len(s))]}

-----------------------------------------------------------------------------
(* Properties.                                                             *)

CONSTANTS Views, Entries, Screens, Contexts,  \* the rows, snapshots, screens, launch contexts sent
          MaxList                             \* bound: members of a list in an event

\* Each is of its type; each duration of a row is a set with at most one member.
ASSUME SamplesAssumption ==
  /\ \A v \in Views :
       /\ v \in [id : Ids, command : Strings, cwd : Octets, tagged : BOOLEAN, flagship : BOOLEAN,
                 managed : BOOLEAN, group : Maybe(Strings), name : Maybe(Strings), life : Lifecycles,
                 preview : Strings, src : Sources, rule : {v.rule}, frozen : BOOLEAN, working : BOOLEAN,
                 started : SUBSET Nat, quiet : SUBSET Nat, finished : SUBSET Nat]
       /\ \A age \in {v.started, v.quiet, v.finished} : age \in Maybe(age)
  /\ Entries \subseteq [stem : Strings, label : Strings, tasks : 0 .. U32, age : 0 .. U64]
  /\ Screens \subseteq [id : Ids, lines : Seq(Strings), formatted : Seq(Octets),
                        cursor : (0 .. U16) \X (0 .. U16), hide : BOOLEAN, mouse : BOOLEAN,
                        alt : BOOLEAN, ascr : BOOLEAN, sb : 0 .. U64]
  /\ Contexts \subseteq [cwd : Octets, env : Seq(Octets \X Octets)]
  /\ MaxList \in Nat

Lists(S) == UNION {[1 .. n -> S] : n \in 0 .. MaxList}

Events ==
  [t : {"hello_ok"}] \cup [t : {"agents"}, agents : Lists(Strings)]
    \cup [t : {"tasks"}, tasks : Lists(Views)] \cup [t : {"status"}, msg : Strings]
    \cup [t : {"spawned"}, id : Ids] \cup [t : {"sessions"}, names : Lists(Strings), recovery : Lists(Entries)]
    \cup [t : {"clip"}, id : Ids, kind : Selectors, text : Strings]

\* What a row says at the other end: durations in whole milliseconds, no matcher rule.
WholeMs(d) == {2 * (x \div 2) : x \in d}
Received(v) == [v EXCEPT !.rule = {}, !.started = WholeMs(@), !.quiet = WholeMs(@),
                         !.finished = WholeMs(@)]
AsReceived(e) == IF e.t = "tasks" THEN [e EXCEPT !.tasks = [i \in DOMAIN @ |-> Received(@[i])]] ELSE e

\* A value of every type, and what is missing.
Values == {Null, List(<<>>)} \cup {Str(s) : s \in Strings}
            \cup {Num(n) : n \in 0 .. U64} \cup {Flag(b) : b \in BOOLEAN}

\* The object with one field missing or replaced.
Without(o, x)     == [k \in DOMAIN o \ {x} |-> o[k]]
Replaced(o, x, v) == [k \in DOMAIN o \cup {x} |-> IF k = x THEN v ELSE o[k]]
Corrupted(o, keys) ==
  {Without(o, x) : x \in keys} \cup {Replaced(o, x, v) : x \in keys, v \in Values}

\* The keys of a command that may be missing.
Optional(c) == CASE c.t \in {"spawn", "spawn_agent"} -> {"group"}
                 [] c.t = "group" -> {"g"}
                 [] c.t = "name"  -> {"n"}
                 [] c.t = "key"   -> {"sh", "al", "ct"}
                 [] OTHER         -> {}

\* Nothing is read but what is there: each field is the one of the object, a cleared one is
\* missing, null or false.
Says(o, c) ==
  /\ c \in Commands
  /\ \A k \in DOMAIN EncodeCommand(c) : Get(o, k) = EncodeCommand(c)[k]
  /\ \A k \in Optional(c) \ DOMAIN EncodeCommand(c) : IsNull(Get(o, k)) \/ Get(o, k) = Flag(FALSE)

\* Frames come out as they went in, however the stream is cut.
FramesWhole ==
  \A p, q \in UNION {[1 .. n -> 0 .. 1] : n \in 0 .. MaxFrame + 1}, k \in 1 .. 3 :
    LET first == WriteFrame(k, p)
        both  == first \o WriteFrame(4 - k, q)
        next(s) == IF first # <<>>
                     THEN [kind |-> k, payload |-> p, rest |-> SubSeq(s, Len(first) + 1, Len(s))]
                     ELSE [kind |-> 4 - k, payload |-> q, rest |-> <<>>]
        whole == IF first # <<>> THEN Len(first) ELSE Len(both)
    IN  \A n \in 0 .. Len(both) :
          LET s == SubSeq(both, 1, n)
          IN  ReadFrame(s) = IF n >= whole /\ n > 0 THEN {next(s)} ELSE {}

\* What is sent is what is read: each command, event, screen and handshake decodes to itself,
\* up to the matcher rules and the fractions of milliseconds that stay behind
\* (encode_command .. decode_event), in frames that come out whole (frame.rs).
SentIsRead ==
  /\ FramesWhole
  /\ \A c \in Commands : DecodeCommand(EncodeCommand(c)) = {c}
  /\ \A e \in Events : DecodeEvent(EncodeEvent(e)) = {AsReceived(e)}
  /\ \A s \in Screens : DecodeScreen(EncodeScreen(s)) = {s}
  /\ \A ctx \in Contexts, v \in 0 .. U32 :
       DecodeHello(EncodeHello(v, ctx)) = {[v |-> v, ctx |-> ctx]}

\* Both ends agree on whether a connection serves, which it does between equal versions alone
\* (handshake, check_hello_ack). A refusal reaches the client with both versions; any other
\* message, or none, leaves it without a connection.
HandshakeAgreed ==
  /\ \A ctx \in Contexts, client, daemon \in 0 .. U32 :
       LET answer == Handshake(daemon, EncodeHello(client, ctx))
           end    == ConnectReady({EncodeEvent(answer)})
       IN  /\ (answer.t = "hello_ok") <=> client = daemon
           /\ end = IF client = daemon THEN [ready |-> TRUE, error |-> {}]
                    ELSE [ready |-> FALSE, error |-> {<<daemon, {client}>>}]
  /\ \A ctx \in Contexts, daemon \in 0 .. U32 :
       \A o \in Corrupted(EncodeHello(daemon, ctx), {"v", "cwd", "env"}) :
         Handshake(daemon, o).t = "hello_ok" => DecodeHello(o) # {} /\ Get(o, "v") = Num(daemon)
  /\ \A e \in {e \in Events : e.t # "hello_ok"} : ~ConnectReady({EncodeEvent(e)}).ready
  /\ ~ConnectReady({}).ready

\* A damaged message is refused, or it says what the object says: no number wraps, no field of
\* another type reads as cleared (decode_command), a row without one of its fields rejects the
\* table, a bad snapshot entry only itself (decode_event), and the version of a handshake can be
\* read although its context cannot (hello_version).
DamageIsRefused ==
  /\ \A c \in {c \in Commands : "id" \in DOMAIN c => c.id = 1} :
       \A o \in Corrupted(EncodeCommand(c), (DOMAIN EncodeCommand(c) \cup Optional(c)) \ {"t"}) :
         \A d \in DecodeCommand(o) : Says(o, d)
  /\ \A v \in Views, k \in {"id", "command", "cwd", "tagged", "flagship", "managed", "life",
                            "preview", "src", "frozen", "working"} :
       DecodeEvent([t |-> Str("tasks"), tasks |-> List(<<EncodeRow(v), Without(EncodeRow(v), k)>>)]) = {}
  /\ \A r \in Entries, k \in {"stem", "label", "tasks", "age"} :
       DecodeEvent([t |-> Str("sessions"), names |-> StrList(<<>>),
                    recovery |-> List(<<Without(EncodeEntry(r), k), EncodeEntry(r)>>)])
         = {[t |-> "sessions", names |-> <<>>, recovery |-> <<r>>]}
  /\ \A ctx \in Contexts, v \in 0 .. U32 :
       \A o \in Corrupted(EncodeHello(v, ctx), {"cwd", "env"}) : HelloVersion(o) = {v}
=============================================================================
