--------------------------------- MODULE Paths ---------------------------------
(***************************************************************************)
(* Directories as they are shown and typed (path.rs, and the directory     *)
(* picker of app.rs): a path is a sequence of characters, of which names   *)
(* have one or more, and of bytes that are no UTF-8. Nothing here reads    *)
(* the file system.                                                        *)
(***************************************************************************)
EXTENDS Naturals, Sequences

CONSTANTS HomeDirs,  \* values of $HOME
          NoHome,    \* $HOME is not set, or is no text
          Invalid,   \* bytes that are no UTF-8
          Bases,     \* directories of the invocation
          Inputs     \* paths that are shown, stored or typed

Prefixed(p, s) == Len(p) <= Len(s) /\ SubSeq(s, 1, Len(p)) = p
From(s, n) == SubSeq(s, n, Len(s))
Absolute(s) == s # <<>> /\ s[1] = "/"

Homes == HomeDirs \cup {NoHome}

IsText(s) == \A n \in DOMAIN s : s[n] \notin Invalid

\* Paths are sequences of characters, and the core's directory is absolute.
ASSUME PathsAssumption ==
  /\ \A s \in HomeDirs \cup Bases \cup Inputs : s \in Seq({s[n] : n \in DOMAIN s})
  /\ \A b \in Bases : Absolute(b)
  /\ NoHome \notin HomeDirs /\ {"/", "~", "."} \cap Invalid = {}

\* Mutant: a directory whose name begins as the home's is shown as if it were below it.
AtBoundaryLax(rest) == TRUE

\* What follows a prefix begins a component, or there is nothing.
AtBoundary(rest) == rest = <<>> \/ rest[1] = "/"

\* to_string_lossy: what is no UTF-8 is shown as the replacement character.
Lossy(s) == [n \in DOMAIN s |-> IF s[n] \in Invalid THEN "FFFD" ELSE s[n]]

\* abbreviate.
Abbreviate(home, s) ==
  LET shown == Lossy(s)
      rest == From(shown, Len(home) + 1)
  IN  IF home \notin {NoHome, <<>>} /\ Prefixed(home, shown) /\ AtBoundary(rest)
        THEN <<"~">> \o rest ELSE shown

\* expand_tilde: without a home, "~" is a name like any other.
ExpandTilde(home, s) ==
  IF home # NoHome /\ s # <<>> /\ s[1] = "~" /\ (Len(s) = 1 \/ s[2] = "/")
    THEN home \o From(s, 2) ELSE s

\* The components of a path, without the empty ones and ".": those that are over, and the
\* characters of the last one.
Closed(comps, last) == IF last \in {<<>>, <<".">>} THEN comps ELSE Append(comps, last)
Read(s) ==
  LET upTo[n \in 0 .. Len(s)] ==
        IF n = 0 THEN <<<<>>, <<>>>>
        ELSE LET r == upTo[n - 1]
             IN  IF s[n] = "/" THEN <<Closed(r[1], r[2]), <<>>>> ELSE <<r[1], Append(r[2], s[n])>>
  IN  upTo[Len(s)]
Components(s) == Closed(Read(s)[1], Read(s)[2])

Up == <<".", ".">>

\* lexical_clean, as components: ".." takes the one before it away, at the root nothing; in a
\* relative path it may lead.
LexicalClean(absolute, comps) ==
  LET upTo[n \in 0 .. Len(comps)] ==
        IF n = 0 THEN <<>>
        ELSE LET out == upTo[n - 1]
             IN  IF comps[n] # Up THEN Append(out, comps[n])
                 ELSE IF out # <<>> /\ out[Len(out)] # Up THEN SubSeq(out, 1, Len(out) - 1)
                 ELSE IF absolute THEN out ELSE Append(out, Up)
  IN  upTo[Len(comps)]

Text(absolute, comps) ==
  LET upTo[n \in 0 .. Len(comps)] ==
        IF n = 0 THEN <<>>
        ELSE upTo[n - 1] \o (IF n > 1 \/ absolute THEN <<"/">> ELSE <<>>) \o comps[n]
  IN  IF comps = <<>> THEN <<IF absolute THEN "/" ELSE ".">> ELSE upTo[Len(comps)]

Clean(s) == Text(Absolute(s), LexicalClean(Absolute(s), Components(s)))

\* resolve.
Resolve(home, base, s) ==
  LET expanded == ExpandTilde(home, s)
  IN  Clean(IF expanded = <<>> THEN base
            ELSE IF Absolute(expanded) THEN expanded ELSE base \o <<"/">> \o expanded)

\* split_input: the directory that is typed, and what its entries are searched for.
SplitInput(s) ==
  LET slash == {n \in DOMAIN s : s[n] = "/"}
      end == IF slash = {} THEN 0 ELSE CHOOSE n \in slash : \A m \in slash : m <= n
  IN  <<SubSeq(s, 1, end), From(s, end + 1)>>

\* enter_dir: what is typed for the user.
EnterDir(home, dir) == Abbreviate(home, dir) \o <<"/">>

-----------------------------------------------------------------------------
(* Properties.                                                             *)

\* The label of a directory whose name is text leads back to it, so that no two of these share
\* one (abbreviate), and so does what the picker types when it enters one. What is typed resolves
\* to a clean path, and is searched in a directory for a fragment without slashes (resolve,
\* split_input). Of a name that is no text nothing is said: two of these may share a label.
LabelsLeadBack ==
  \A home \in Homes, base \in Bases, s \in Inputs :
    LET p == Resolve(home, base, s)
        split == SplitInput(s)
        entered == SplitInput(EnterDir(home, p))
    IN  /\ IsText(s) /\ Absolute(s) /\ Clean(s) = s => Resolve(home, base, Abbreviate(home, s)) = s
        /\ Absolute(p) /\ Clean(p) = p /\ \A n \in DOMAIN Components(p) : Components(p)[n] # Up
        /\ IsText(p) => Resolve(home, base, entered[1]) = p /\ entered[2] = <<>>
        /\ split[1] \o split[2] = s /\ \A n \in DOMAIN split[2] : split[2][n] # "/"
=============================================================================
