-------------------------------- MODULE Preview --------------------------------
(***************************************************************************)
(* The preview of one run (preview.rs, task.rs): at every tick of the core *)
(* a cascade picks the best source the screen, the adapter and the agent's *)
(* registry offer, and hold timers keep what is shown from flickering. The *)
(* child writes, resizes come, and the run ends, between ticks.            *)
(***************************************************************************)
EXTENDS Emulator, Ansi, Anchors

CONSTANTS Busy,      \* lines an adapter's live_preview recognizes
          Known,     \* titles an adapter normalizes
          TitleHold, DemotionHold, ProbeHold, SyncHold,  \* in units of the clock
          Past,      \* bound: what the child may have written before the first tick
          MaxOut,    \* bound: what the child, the registry and resizes do
          MaxHeld    \* bound: events in a synchronized update

ASSUME PreviewAssumption ==
  /\ Past \subseteq Seq(Events)
  /\ Busy \subseteq Text \ {""} /\ Known \subseteq Raw
  /\ {TitleHold, DemotionHold, ProbeHold, SyncHold} \subseteq Nat \ {0}

\* PreviewSource, in its order.
Rank(s) == CASE s = "floor" -> 1 [] s = "marker" -> 2 [] s = "title" -> 3 [] s = "anchor" -> 4

Shown(source, text, working) ==
  [source |-> source, text |-> text, working |-> working, frozen |-> FALSE]
FloorShown(text) == Shown("floor", text, FALSE)

VARIABLES
  emu,        \* Emulator
  fresh,      \* its revision is that of the last resolution's key
  sync,       \* the parser's synchronized update: whether it is open, what it holds, its age
  adapter,    \* the run has a summary adapter
  asks,       \* what the agent's registry says: blocked on the user
  blocked, probeAge,  \* Process::blocked, blocked_probed
  rendered, candidate, underAlt,  \* PreviewState
  pendingAge, \* downgrade_pending_since, or Never
  titleAge,   \* last_title_render
  gone, eof,  \* the leader has exited; the reader thread is done
  ranked,     \* for DemotionHeld: since a resolution found a source as high
  out         \* bound

screenVars == <<emu, adapter, asks, gone, eof, out>>
holdVars   == <<rendered, candidate, underAlt, pendingAge, titleAge, ranked>>
vars == <<screenVars, fresh, sync, blocked, probeAge, holdVars>>

NoSync == [open |-> FALSE, held |-> <<>>, age |-> 0]
Expired == sync.open /\ sync.age >= SyncHold
Never == DemotionHold + 1  \* the age of a demotion that is not pending

-----------------------------------------------------------------------------
(* Resolution.                                                             *)

\* cascade. (A model label only prefixes the text.)
Cascade(e, withAdapter, ask) ==
  CASE ask -> Shown("anchor", "asks", FALSE)
    [] ~ask /\ withAdapter /\ LiveFloor(e) \in Busy -> Shown("anchor", LiveFloor(e), TRUE)
    [] ~ask /\ ~(withAdapter /\ LiveFloor(e) \in Busy) ->
         IF e.alt
         THEN IF TitleOf(e) = NoTitle THEN Shown("marker", "full-screen", FALSE)
              ELSE Shown("title", TitleOf(e), withAdapter /\ TitleOf(e) \in Known)
         ELSE IF withAdapter /\ e.primary \in Known THEN Shown("title", e.primary, TRUE)
              ELSE FloorShown(LiveFloor(e))

Below(c) == Rank(c.source) < Rank(rendered.source)
Level(c) == c.source = rendered.source

\* The demotion that a step with candidate c finds pending, or starts.
Waited == IF pendingAge = Never THEN 0 ELSE pendingAge
Demoted(c) == Below(c) /\ Waited >= DemotionHold

\* Mutant: a rank that recovers does not cancel the demotion that is pending.
PendingAfterKept(c) ==
  IF Below(c) /\ ~Demoted(c) THEN Waited ELSE IF Level(c) THEN pendingAge ELSE Never

PendingAfter(c) == IF Below(c) /\ ~Demoted(c) THEN Waited ELSE Never

\* Whether a step shows c.
Shows(c) ==
  IF Below(c) THEN Demoted(c)
  ELSE Level(c) => /\ c # rendered /\ c.source # "marker"
                   /\ c.source = "title" => titleAge >= TitleHold

\* PreviewState::step, with render.
Step(c, alt) ==
  /\ pendingAge' = PendingAfter(c)
  /\ IF Shows(c)
       THEN /\ rendered' = c /\ underAlt' = alt
            /\ titleAge' = IF c.source = "title" THEN 0 ELSE titleAge
       ELSE UNCHANGED <<rendered, underAlt, titleAge>>
  /\ ranked' = IF Below(c) /\ ~Demoted(c) THEN ranked ELSE 0

\* PreviewState::resolve, not frozen: the cascade runs again only for another key.
Resolve(e, same, ask) ==
  LET c == IF same THEN candidate ELSE Cascade(e, adapter, ask)
  IN candidate' = c /\ fresh' = TRUE /\ Step(c, e.alt)

\* PreviewState::finalize, once output is complete: no holds, no registry, no title of
\* the primary screen; a restored floor does not replace what the alternate screen showed.
Finalize(e) ==
  LET restored == underAlt /\ ~e.alt /\ e.leave # NoTitle /\ LiveFloor(e) = e.leave
      last == Cascade(e, adapter, FALSE)
      p == IF restored THEN rendered
           ELSE IF ~e.alt /\ last.source = "title" THEN Cascade(e, FALSE, FALSE) ELSE last
  IN /\ rendered' = [p EXCEPT !.frozen = TRUE, !.working = FALSE]
     /\ UNCHANGED <<candidate, fresh, underAlt, pendingAge, titleAge, ranked>>

-----------------------------------------------------------------------------
(* The core: reap, then the views of a tick.                               *)

\* refresh_blocked
Probes == adapter /\ ~gone /\ probeAge >= ProbeHold
Blocked == IF ~adapter \/ gone THEN FALSE ELSE IF Probes THEN asks ELSE blocked

\* Mutant: land_sync_frame keeps the revision.
SameScreenSilent == fresh

\* The revision is still that of the key: nothing was parsed and no frame lands.
SameScreen == fresh /\ ~Expired

\* flush_expired_sync, then resolve_preview.
Look ==
  LET e == IF Expired THEN Land(emu, sync.held) ELSE emu
  IN /\ emu' = e /\ sync' = IF Expired THEN NoSync ELSE sync
     /\ blocked' = Blocked /\ probeAge' = IF Probes THEN 0 ELSE probeAge
     /\ Resolve(e, SameScreen /\ blocked' = blocked, blocked')

\* Supervisor::tick for this run. finish_output lands what an open update holds.
Tick ==
  /\ ~rendered.frozen
  /\ IF gone /\ eof
       THEN LET e == IF sync.open THEN Land(emu, sync.held) ELSE emu
            IN emu' = e /\ sync' = NoSync /\ Finalize(e) /\ UNCHANGED <<blocked, probeAge>>
       ELSE Look
  /\ UNCHANGED <<adapter, asks, gone, eof, out>>

-----------------------------------------------------------------------------
(* The child, its reader thread, resizes, the registry and the clock.      *)

Acts == ~eof /\ out < MaxOut /\ out' = out + 1
Elsewhere == UNCHANGED <<adapter, blocked, probeAge, gone, eof, holdVars>>

\* Emulator::process, for one event. An expired update ends when bytes arrive.
Output(ev) ==
  LET e == IF Expired THEN Land(emu, sync.held) ELSE emu
  IN /\ Acts
     /\ IF sync.open /\ ~Expired
          THEN /\ Len(sync.held) < MaxHeld
               /\ sync' = [sync EXCEPT !.held = Append(@, ev)] /\ emu' = emu
          ELSE sync' = NoSync /\ emu' = Handle(e, ev)
     /\ fresh' = FALSE
     /\ UNCHANGED asks /\ Elsewhere

\* Mode 2026: begin, or extend; end.
Begin ==
  /\ Acts /\ sync' = [sync EXCEPT !.open = TRUE, !.age = 0] /\ fresh' = FALSE
  /\ UNCHANGED <<emu, asks>> /\ Elsewhere
End ==
  /\ Acts /\ sync.open /\ sync' = NoSync /\ emu' = Land(emu, sync.held) /\ fresh' = FALSE
  /\ UNCHANGED asks /\ Elsewhere

Resize ==
  /\ ~rendered.frozen /\ out < MaxOut /\ out' = out + 1
  /\ \E main, over \in Text :
       /\ (main = "") = (emu.main = "") /\ (over = "") = (emu.over = "")
       /\ emu' = Reflowed(emu, main, over)
  /\ fresh' = FALSE
  /\ UNCHANGED <<sync, asks>> /\ Elsewhere

\* The agent starts or stops waiting for its user.
Asks ==
  /\ adapter /\ ~gone /\ Acts /\ asks' = ~asks
  /\ UNCHANGED <<emu, sync, fresh>> /\ Elsewhere

\* The leader exits and the last descriptor is closed, in any order.
Exit == ~gone /\ gone' = TRUE /\ UNCHANGED <<emu, sync, adapter, asks, eof, out, fresh,
                                             blocked, probeAge, holdVars>>
Eof  == ~eof /\ eof' = TRUE /\ UNCHANGED <<emu, sync, adapter, asks, gone, out, fresh,
                                           blocked, probeAge, holdVars>>

Older(age, most) == IF age < most THEN age + 1 ELSE age

\* A frozen preview has no use for time.
Elapse ==
  /\ ~rendered.frozen
  /\ sync' = [sync EXCEPT !.age = IF sync.open THEN Older(@, SyncHold) ELSE @]
  /\ probeAge' = Older(probeAge, ProbeHold)
  /\ titleAge' = Older(titleAge, TitleHold) /\ ranked' = Older(ranked, DemotionHold)
  /\ pendingAge' = IF pendingAge = Never THEN Never ELSE Older(pendingAge, DemotionHold)
  /\ UNCHANGED <<screenVars, fresh, blocked, rendered, candidate, underAlt>>

-----------------------------------------------------------------------------

Init ==
  /\ emu \in {Land(NewEmulator, p) : p \in Past} /\ sync = NoSync
  /\ adapter \in BOOLEAN /\ asks = FALSE /\ blocked = FALSE /\ probeAge = ProbeHold
  /\ rendered = FloorShown("") /\ candidate = FloorShown("") /\ underAlt = FALSE
  /\ pendingAge = Never /\ titleAge = TitleHold /\ ranked = 0
  /\ fresh = FALSE /\ gone = FALSE /\ eof = FALSE /\ out = 0

Child == Begin \/ End \/ (\E ev \in Events : Output(ev))
Next == Tick \/ Child \/ Resize \/ Asks \/ Exit \/ Eof \/ Elapse

Spec == Init /\ [][Next]_vars

\* The loop ticks at least every 200 ms, and time passes.
FairSpec == Spec /\ WF_vars(Tick) /\ WF_vars(Elapse)

-----------------------------------------------------------------------------
(* Properties.                                                             *)

\* On the alternate screen the title is the one the child has set, if it was set in this
\* session or announced right before it, and none otherwise: titles of earlier programs,
\* and the pops and resets the backend does not report, do not come back.
TitleIsOurs ==
  emu.alt => TitleOf(emu) = IF emu.owner = "session" THEN Sanitize(emu.name) ELSE NoTitle

\* A live preview falls to a lower source only when for the whole hold no resolution has
\* found a source of its rank: flapping sources do not flicker.
DemotionHeld ==
  [][~rendered'.frozen /\ Rank(rendered'.source) < Rank(rendered.source)
       => ranked >= DemotionHold]_vars

\* Whatever the child does, in the end the preview is that of the screen, landed updates
\* and resizes included; and of a run that is over it is frozen, and reports no work.
Current ==
  IF gone /\ eof THEN rendered.frozen /\ ~rendered.working
  ELSE ~sync.open /\ rendered = Cascade(emu, adapter, asks /\ ~gone)
PreviewSettles == <>[]Current

\* What the timers and the shadow of the title stack hold.
TypeOK ==
  /\ pendingAge \in 0..DemotionHold \cup {Never}
  /\ titleAge \in 0..TitleHold /\ ranked \in 0..DemotionHold
  /\ Len(emu.stack) <= MaxStack

\* Of what a child has drawn, but for grids that are Unfaithful, a client is shown what is displayed
\* (ansi.rs:3-8); what an agent's conversation quotes is not taken for its status, but for heads
\* of menus in reach of a dialog, quoted boxes above one, and what is typed as a menu into Codex's
\* composer (summary.rs:20-30). The exclusions are cases the code gets wrong.
ScreensHold == out > 0 => ReplayShows /\ AnchorsHold
================================================================================
