------------------------------- MODULE Emulator --------------------------------
(***************************************************************************)
(* What a task's emulator (emulator.rs) tells the dashboard: the last line *)
(* of the live screen, the alternate screen, and the titles a child sets.  *)
(* Parser events change it as the wrapped terminal applies them, also when *)
(* they come out of a synchronized update. A screen is its last line.      *)
(***************************************************************************)
EXTENDS Naturals, Sequences, SequencesExt

CONSTANTS Text,      \* last lines; "" is a blank screen
          Raw,       \* titles as the child writes them; " " is blank once sanitized
          MaxStack   \* TITLE_STACK_SHADOW_MAX

NoTitle == "none"
ASSUME EmulatorAssumption ==
  "" \in Text /\ NoTitle \notin Raw /\ "" \notin Raw /\ MaxStack \in Nat \ {0}

\* sanitize_title, for titles without controls: a blank one is none.
Sanitize(raw) == IF raw = " " THEN NoTitle ELSE raw

\* Floor of one grid, alternate grid, AltTitleState; then the backend's own title and
\* stack, and, for the properties, who the title last set belongs to.
NewEmulator ==
  [alt |-> FALSE, main |-> "", over |-> "",
   epoch |-> 0, leave |-> NoTitle, title |-> [text |-> NoTitle, epoch |-> 0],
   staged |-> NoTitle, primary |-> NoTitle, raw |-> NoTitle, stack |-> <<>>,
   name |-> NoTitle, names |-> <<>>, owner |-> "nobody"]

LiveFloor(e) == IF e.alt THEN e.over ELSE e.main

\* Emulator::title
TitleOf(e) ==
  IF ~e.alt /\ e.staged # NoTitle THEN e.staged
  ELSE IF e.title.epoch = e.epoch THEN e.title.text ELSE NoTitle

\* Who a title set now belongs to.
Owner(e, raw) ==
  IF Sanitize(raw) = NoTitle THEN "nobody" ELSE IF e.alt THEN "session" ELSE "primary"

\* observe_title
ObserveTitle(e, raw) ==
  LET text == Sanitize(raw)
  IN IF text = NoTitle
       THEN [e EXCEPT !.raw = raw, !.title.text = NoTitle, !.staged = NoTitle, !.primary = NoTitle,
                      !.owner = Owner(e, raw)]
     ELSE IF e.alt
       THEN [e EXCEPT !.raw = raw, !.title = [text |-> text, epoch |-> e.epoch],
                      !.owner = Owner(e, raw)]
     ELSE [e EXCEPT !.raw = raw, !.staged = text, !.primary = text, !.owner = Owner(e, raw)]

\* The title that an entry promotes.
Promoted(e) ==
  IF e.staged = NoTitle THEN e.title ELSE [text |-> e.staged, epoch |-> e.epoch + 1]

\* Mutant: the staged title is copied, and can be promoted again.
EnteredCloning(e) ==
  [e EXCEPT !.alt = TRUE, !.over = "", !.epoch = @ + 1, !.title = Promoted(e),
            !.owner = IF @ = "primary" THEN "session" ELSE "nobody"]

Entered(e) ==
  [e EXCEPT !.alt = TRUE, !.over = "", !.epoch = @ + 1, !.title = Promoted(e), !.staged = NoTitle,
            !.owner = IF @ = "primary" THEN "session" ELSE "nobody"]

\* observe_alt, after a mode that leaves the backend at now.
ObserveAlt(e, now) ==
  CASE now /\ ~e.alt -> Entered(e)
    [] ~now /\ e.alt -> [e EXCEPT !.alt = FALSE, !.leave = e.main]
    [] now = e.alt -> e

\* Handler::input. What is printed replaces the last line.
Printed(e, t) ==
  [IF e.alt THEN [e EXCEPT !.over = t] ELSE [e EXCEPT !.main = t]
   EXCEPT !.staged = NoTitle, !.owner = IF @ = "primary" THEN "nobody" ELSE @]

\* clear_screen and the like: control traffic prints nothing.
Cleared(e) == IF e.alt THEN [e EXCEPT !.over = ""] ELSE [e EXCEPT !.main = ""]

\* reset_state: RIS leaves the alternate screen, on a blank one.
WasReset(e) ==
  [ObserveAlt([e EXCEPT !.main = "", !.over = ""], FALSE)
   EXCEPT !.raw = NoTitle, !.stack = <<>>, !.staged = NoTitle, !.primary = NoTitle,
          !.name = NoTitle, !.names = <<>>, !.owner = "nobody"]

\* A bounded push drops the oldest.
Bounded(s, x) == Append(IF Len(s) >= MaxStack THEN Tail(s) ELSE s, x)

\* push_title
PushTitle(e) == [e EXCEPT !.names = Bounded(@, e.name), !.stack = Bounded(@, e.raw)]

\* pop_title in the backend, which restores through its own set_title.
Popped(e) ==
  IF e.names = <<>> THEN e ELSE [e EXCEPT !.name = Last(e.names), !.names = Front(@)]

\* pop_title: the wrapper replays it against the shadow.
PopTitle(e) ==
  LET b == Popped(e)
      o == IF e.stack = <<>> THEN b ELSE ObserveTitle([b EXCEPT !.stack = Front(@)], Last(e.stack))
  IN IF e.names = <<>> THEN o ELSE [o EXCEPT !.owner = Owner(e, b.name)]

Events ==
  [op : {"print"}, arg : Text \ {""}] \cup [op : {"title"}, arg : Raw]
  \cup [op : {"clear", "enter", "leave", "reset", "push", "pop"}, arg : {""}]

\* ObservedTerm: one parser event.
Handle(e, ev) ==
  CASE ev.op = "print" -> Printed(e, ev.arg)
    [] ev.op = "title" -> ObserveTitle([e EXCEPT !.name = ev.arg], ev.arg)
    [] ev.op = "clear" -> Cleared(e)
    [] ev.op = "enter" -> ObserveAlt(e, TRUE)
    [] ev.op = "leave" -> ObserveAlt(e, FALSE)
    [] ev.op = "reset" -> WasReset(e)
    [] ev.op = "push" -> PushTitle(e)
    [] ev.op = "pop" -> PopTitle(e)

\* stop_sync: what was held back, in its order.
Land(e, buf) ==
  LET after[i \in 0..Len(buf)] == IF i = 0 THEN e ELSE Handle(after[i - 1], buf[i])
  IN after[Len(buf)]

\* Emulator::resize: reflow makes main and alternate lines others. An untouched restored
\* floor is snapshotted again.
Reflowed(e, main, over) ==
  LET r == [e EXCEPT !.main = main, !.over = over]
  IN [r EXCEPT !.leave = IF @ # NoTitle /\ LiveFloor(e) = @ THEN LiveFloor(r) ELSE @]
=============================================================================
