----------------------------- MODULE PreviewProofs ----------------------------
(***************************************************************************)
(* A demotion of the preview waits out its hold, and the title on the      *)
(* alternate screen is the child's own, whatever the child writes and      *)
(* whatever the holds and the bound of the title stack are; the status of  *)
(* an agent is read where the agent puts it, and a client's copy of the    *)
(* screen shows what the child displays, on screens of any size.           *)
(***************************************************************************)
EXTENDS Preview, SequenceTheorems, FiniteSetTheorems, WellFoundedInduction, TLAPS

Sources == {"floor", "marker", "title", "anchor"}

\* A preview: it has its four fields, and a rank.
IsPreview(p) ==
  /\ p = [source |-> p.source, text |-> p.text, working |-> p.working, frozen |-> p.frozen]
  /\ p.source \in Sources

\* The two timers, and the sources that are compared.
Timers ==
  /\ pendingAge \in 0..DemotionHold \cup {Never}
  /\ ranked \in 0..DemotionHold

\* Every resolution since the pending demotion began was below what is shown.
PendingIsBacked == pendingAge # Never => ranked >= pendingAge

HoldInv ==
  /\ Timers
  /\ PendingIsBacked
  /\ IsPreview(rendered) /\ IsPreview(candidate)

LEMMA HoldIsPositive == DemotionHold \in Nat \ {0} /\ Never = DemotionHold + 1
BY PreviewAssumption DEF Never

\* What the cascade chooses has a rank, and so has a resolution (PreviewSource).
LEMMA CascadeSource ==
  ASSUME NEW e, NEW a, NEW ask
  PROVE  IsPreview(Cascade(e, a, ask))
BY DEF Cascade, Shown, FloorShown, Sources, IsPreview

LEMMA RankIsNat == ASSUME NEW s \in Sources PROVE Rank(s) \in Nat
BY DEF Rank, Sources

-----------------------------------------------------------------------------
\* A step of the hold state machine keeps the timers in order, and falls only when the
\* timer of the demotion has run out (PreviewState::step).
LEMMA StepHolds ==
  ASSUME HoldInv, NEW c, IsPreview(c), NEW alt, Step(c, alt)
  PROVE  /\ Timers' /\ PendingIsBacked'
         /\ rendered' \in {rendered, c}
         /\ Rank(rendered'.source) < Rank(rendered.source) => ranked >= DemotionHold
<1> USE HoldIsPositive
<1>1. Rank(c.source) \in Nat /\ Rank(rendered.source) \in Nat
  BY RankIsNat DEF HoldInv, IsPreview
<1>2. CASE Below(c) /\ ~Demoted(c)
  <2>1. pendingAge' = Waited /\ ranked' = ranked /\ rendered' = rendered
    BY <1>2 DEF Step, PendingAfter, Shows
  <2>2. Waited < DemotionHold /\ Waited \in Nat
    BY <1>2 DEF Demoted, Waited, HoldInv, Timers
  <2>3. ranked >= Waited
    BY DEF Waited, HoldInv, Timers, PendingIsBacked
  <2> QED BY <2>1, <2>2, <2>3, <1>1 DEF HoldInv, Timers, PendingIsBacked
<1>3. CASE Demoted(c)
  <2>1. pendingAge' = Never /\ ranked' = 0 /\ rendered' = c
    BY <1>3 DEF Step, PendingAfter, Shows, Demoted
  <2>2. pendingAge # Never /\ pendingAge >= DemotionHold
    BY <1>3 DEF Demoted, Waited, HoldInv, Timers
  <2>3. ranked >= DemotionHold
    BY <2>2 DEF HoldInv, Timers, PendingIsBacked
  <2> QED BY <2>1, <2>3 DEF Timers, PendingIsBacked
<1>4. CASE ~Below(c)
  <2>1. pendingAge' = Never /\ ranked' = 0
    BY <1>4 DEF Step, PendingAfter
  <2>2. rendered' \in {rendered, c}
    BY DEF Step
  <2>3. ~(Rank(rendered'.source) < Rank(rendered.source))
    BY <2>2, <1>1, <1>4 DEF Below
  <2> QED BY <2>1, <2>2, <2>3 DEF Timers, PendingIsBacked
<1> QED BY <1>2, <1>3, <1>4 DEF Demoted

\* A resolution is a step with a candidate that has a rank.
LEMMA ResolveHolds ==
  ASSUME HoldInv, NEW e, NEW same, NEW ask, Resolve(e, same, ask)
  PROVE  /\ HoldInv'
         /\ Rank(rendered'.source) < Rank(rendered.source) => ranked >= DemotionHold
<1> DEFINE c == IF same THEN candidate ELSE Cascade(e, adapter, ask)
<1>1. IsPreview(c)
  BY CascadeSource DEF HoldInv
<1>2. candidate' = c /\ Step(c, e.alt)
  BY DEF Resolve
<1> HIDE DEF c
<1>3. /\ Timers' /\ PendingIsBacked' /\ rendered' \in {rendered, c}
      /\ Rank(rendered'.source) < Rank(rendered.source) => ranked >= DemotionHold
  BY <1>1, <1>2, StepHolds
<1> QED BY <1>1, <1>2, <1>3 DEF HoldInv

\* Finalizing freezes, and leaves the timers alone (PreviewState::finalize).
LEMMA FinalizeHolds ==
  ASSUME HoldInv, NEW e, Finalize(e)
  PROVE  HoldInv' /\ rendered'.frozen
<1> DEFINE last == Cascade(e, adapter, FALSE)
           restored == underAlt /\ ~e.alt /\ e.leave # NoTitle /\ LiveFloor(e) = e.leave
           p == IF restored THEN rendered
                ELSE IF ~e.alt /\ last.source = "title" THEN Cascade(e, FALSE, FALSE) ELSE last
<1>1. p \in {rendered, last, Cascade(e, FALSE, FALSE)}
  OBVIOUS
<1>2. IsPreview(p)
  BY <1>1, CascadeSource DEF HoldInv
<1>3. rendered' = [p EXCEPT !.frozen = TRUE, !.working = FALSE]
  BY DEF Finalize
<1>4. rendered' = [source |-> p.source, text |-> p.text, working |-> FALSE, frozen |-> TRUE]
  BY <1>2, <1>3 DEF IsPreview
<1> HIDE DEF p
<1>5. IsPreview(rendered') /\ rendered'.frozen
  BY <1>2, <1>4 DEF IsPreview
<1> QED BY <1>5 DEF Finalize, HoldInv, Timers, PendingIsBacked

-----------------------------------------------------------------------------
LEMMA InitHolds == Init => HoldInv
<1> SUFFICES ASSUME Init PROVE HoldInv
  OBVIOUS
<1>1. rendered = FloorShown("") /\ candidate = FloorShown("")
  BY DEF Init
<1>2. IsPreview(FloorShown(""))
  BY DEF IsPreview, Sources, FloorShown, Shown
<1>3. pendingAge = Never /\ ranked = 0
  BY DEF Init
<1>4. Timers /\ PendingIsBacked
  BY <1>3, HoldIsPositive DEF Timers, PendingIsBacked
<1> QED BY <1>1, <1>2, <1>4 DEF HoldInv

\* One more unit of time keeps two ages in order.
LEMMA OlderIsMonotone ==
  ASSUME NEW most \in Nat, NEW a \in 0..most, NEW b \in 0..most, a >= b
  PROVE  /\ Older(a, most) \in 0..most /\ Older(b, most) \in 0..most
         /\ Older(a, most) >= Older(b, most)
BY DEF Older

\* The demotion timer of every step: no step but a resolution touches the holds, apart
\* from the clock.
LEMMA NextHolds ==
  ASSUME HoldInv, [Next]_vars
  PROVE  /\ HoldInv'
         /\ ~rendered'.frozen /\ Rank(rendered'.source) < Rank(rendered.source)
              => ranked >= DemotionHold
<1> USE HoldIsPositive
<1>1. Rank(rendered.source) \in Nat
  BY RankIsNat DEF HoldInv, IsPreview
<1>2. CASE Tick
  <2>1. CASE gone /\ eof
    <3>1. PICK e : Finalize(e)
      BY <1>2, <2>1 DEF Tick
    <3> QED BY <3>1, FinalizeHolds
  <2>2. CASE ~(gone /\ eof)
    <3>1. \E e, same, ask : Resolve(e, same, ask)
      BY <1>2, <2>2 DEF Tick, Look
    <3> QED BY <3>1, ResolveHolds
  <2> QED BY <2>1, <2>2
<1>3. CASE Elapse
  <2>1. rendered' = rendered /\ candidate' = candidate
    BY <1>3 DEF Elapse
  <2>2. ranked' = Older(ranked, DemotionHold)
        /\ pendingAge' = IF pendingAge = Never THEN Never ELSE Older(pendingAge, DemotionHold)
    BY <1>3 DEF Elapse
  <2>3. Timers' /\ PendingIsBacked'
    <3>1. CASE pendingAge = Never
      BY <2>2, <3>1 DEF HoldInv, Timers, PendingIsBacked, Older
    <3>2. CASE pendingAge # Never
      <4>1. pendingAge \in 0..DemotionHold /\ ranked \in 0..DemotionHold /\ ranked >= pendingAge
        BY <3>2 DEF HoldInv, Timers, PendingIsBacked
      <4> QED BY <2>2, <3>2, <4>1, OlderIsMonotone DEF Timers, PendingIsBacked
    <3> QED BY <3>1, <3>2
  <2> QED BY <1>1, <2>1, <2>3 DEF HoldInv
<1>4. CASE UNCHANGED holdVars
  BY <1>1, <1>4 DEF holdVars, HoldInv, Timers, PendingIsBacked
<1>5. Child \/ Resize \/ Asks \/ Exit \/ Eof \/ UNCHANGED vars => UNCHANGED holdVars
  BY DEF Child, Begin, End, Output, Resize, Asks, Exit, Eof, Elsewhere, vars, holdVars
<1> QED BY <1>2, <1>3, <1>4, <1>5 DEF Next

\* The timers stay in order, and within their holds, in every behaviour.
THEOREM HoldsInOrder == Spec => []HoldInv
<1>1. HoldInv /\ [Next]_vars => HoldInv'
  BY NextHolds
<1> QED BY InitHolds, <1>1, PTL DEF Spec

\* What is shown of a live run falls to a lower source only after a whole hold in which
\* no resolution found one of its rank (PreviewState::step and its downgrade timer).
THEOREM FlapsDoNotFlicker == Spec => DemotionHeld
<1>1. HoldInv /\ [Next]_vars
        => [~rendered'.frozen /\ Rank(rendered'.source) < Rank(rendered.source)
              => ranked >= DemotionHold]_vars
  BY NextHolds
<1> QED BY <1>1, HoldsInOrder, PTL DEF Spec, DemotionHeld

-----------------------------------------------------------------------------
(* Titles. What every parser event keeps of an emulator.                   *)

Fields == {"alt", "main", "over", "epoch", "leave", "title", "staged", "primary", "raw",
           "stack", "name", "names", "owner"}

\* An emulator has its fields; a title was set in this session of the alternate screen,
\* or in an earlier one.
IsEmulator(e) ==
  /\ DOMAIN e = Fields /\ DOMAIN e.title = {"text", "epoch"}
  /\ e.alt \in BOOLEAN
  /\ e.epoch \in Nat /\ e.title.epoch \in Nat /\ e.title.epoch <= e.epoch

\* The wrapper's shadow holds what the backend's own title and stack hold.
Shadowed(e) == e.raw = e.name /\ e.stack = e.names

\* The staged title is the primary screen's, the one of this epoch the session's, and
\* each is the name the backend has.
Owned(e) ==
  IF e.alt
  THEN /\ e.staged = NoTitle /\ e.owner # "primary"
       /\ e.owner = "session" <=> e.title.epoch = e.epoch /\ e.title.text # NoTitle
       /\ e.owner = "session" => e.title.text = Sanitize(e.name)
  ELSE /\ e.owner = "primary" <=> e.staged # NoTitle
       /\ e.staged # NoTitle => e.staged = Sanitize(e.name)

EmulatorInv(e) == IsEmulator(e) /\ Shadowed(e) /\ Owned(e)

LEMMA NewOwned == EmulatorInv(NewEmulator)
BY DEF EmulatorInv, IsEmulator, Fields, Shadowed, Owned, NewEmulator

LEMMA PrintedOwned ==
  ASSUME NEW e, EmulatorInv(e), NEW t PROVE EmulatorInv(Printed(e, t))
BY DEF EmulatorInv, IsEmulator, Fields, Shadowed, Owned, Printed

LEMMA ClearedOwned ==
  ASSUME NEW e, EmulatorInv(e) PROVE EmulatorInv(Cleared(e))
BY DEF EmulatorInv, IsEmulator, Fields, Shadowed, Owned, Cleared

LEMMA PushOwned ==
  ASSUME NEW e, EmulatorInv(e) PROVE EmulatorInv(PushTitle(e))
BY DEF EmulatorInv, IsEmulator, Fields, Shadowed, Owned, PushTitle

LEMMA ReflowedOwned ==
  ASSUME NEW e, EmulatorInv(e), NEW main, NEW over PROVE EmulatorInv(Reflowed(e, main, over))
BY DEF EmulatorInv, IsEmulator, Fields, Shadowed, Owned, Reflowed

LEMMA ResetOwned ==
  ASSUME NEW e, EmulatorInv(e) PROVE EmulatorInv(WasReset(e))
BY DEF EmulatorInv, IsEmulator, Fields, Shadowed, Owned, ObserveAlt, WasReset

\* A new session starts with the announced title, or with none: those of earlier epochs
\* are not its own.
LEMMA EnteredOwned ==
  ASSUME NEW e, EmulatorInv(e), ~e.alt PROVE EmulatorInv(Entered(e))
BY DEF EmulatorInv, IsEmulator, Fields, Shadowed, Owned, Entered, Promoted

LEMMA AltOwned ==
  ASSUME NEW e, EmulatorInv(e), NEW now \in BOOLEAN PROVE EmulatorInv(ObserveAlt(e, now))
<1>0. e.alt \in BOOLEAN
  BY DEF EmulatorInv, IsEmulator
<1>1. CASE now /\ ~e.alt
  BY <1>0, <1>1, EnteredOwned DEF ObserveAlt
<1>2. CASE ~now /\ e.alt
  <2>1. ObserveAlt(e, now) = [e EXCEPT !.alt = FALSE, !.leave = e.main]
    BY <1>2 DEF ObserveAlt
  <2>2. EmulatorInv([e EXCEPT !.alt = FALSE, !.leave = e.main])
    BY <1>2 DEF EmulatorInv, IsEmulator, Fields, Shadowed, Owned
  <2> QED
    BY <2>1, <2>2
<1>3. CASE now = e.alt
  BY <1>0, <1>3 DEF ObserveAlt
<1> QED
  BY <1>0, <1>1, <1>2, <1>3

LEMMA TitleOwned ==
  ASSUME NEW e, EmulatorInv(e), NEW raw
  PROVE  EmulatorInv(ObserveTitle([e EXCEPT !.name = raw], raw))
BY DEF EmulatorInv, IsEmulator, Fields, Shadowed, Owned, ObserveTitle, Owner

\* A pop is a title that the backend sets itself; the shadow has the same one.
LEMMA PopOwned ==
  ASSUME NEW e, EmulatorInv(e) PROVE EmulatorInv(PopTitle(e))
<1>1. CASE e.stack = <<>>
  BY <1>1 DEF EmulatorInv, Shadowed, PopTitle, Popped
<1>2. CASE e.stack # <<>>
  <2>1. e.stack = e.names /\ e.names # <<>>
    BY <1>2 DEF EmulatorInv, Shadowed
  <2>2. IsEmulator(PopTitle(e))
    BY <2>1 DEF EmulatorInv, IsEmulator, Fields, PopTitle, Popped, ObserveTitle, Owner
  <2>3. Shadowed(PopTitle(e))
    BY <2>1 DEF EmulatorInv, IsEmulator, Fields, Shadowed, PopTitle, Popped, ObserveTitle
  <2>4. Owned(PopTitle(e))
    BY <2>1 DEF EmulatorInv, IsEmulator, Fields, Owned, PopTitle, Popped, ObserveTitle, Owner
  <2> QED
    BY <2>2, <2>3, <2>4 DEF EmulatorInv
<1> QED
  BY <1>1, <1>2

LEMMA HandleOwned ==
  ASSUME NEW e, EmulatorInv(e), NEW ev \in Events PROVE EmulatorInv(Handle(e, ev))
<1>1. ev.op \in {"print", "title", "clear", "enter", "leave", "reset", "push", "pop"}
  BY DEF Events
<1>2. CASE ev.op = "print"
  BY <1>2, PrintedOwned DEF Handle
<1>3. CASE ev.op = "title"
  BY <1>3, TitleOwned DEF Handle
<1>4. CASE ev.op = "clear"
  BY <1>4, ClearedOwned DEF Handle
<1>5. CASE ev.op \in {"enter", "leave"}
  BY <1>5, AltOwned DEF Handle
<1>6. CASE ev.op = "reset"
  BY <1>6, ResetOwned DEF Handle
<1>7. CASE ev.op = "push"
  BY <1>7, PushOwned DEF Handle
<1>8. CASE ev.op = "pop"
  BY <1>8, PopOwned DEF Handle
<1> QED
  BY <1>1, <1>2, <1>3, <1>4, <1>5, <1>6, <1>7, <1>8

-----------------------------------------------------------------------------
(* Events that land together. Induction over their positions comes from    *)
(* the order of the naturals, which is well-founded.                       *)

LEMMA LeastNatural ==
  ASSUME NEW T, T \subseteq Nat, T # {}
  PROVE  \E x \in T : \A y \in T : x <= y
<1> DEFINE R == OpToRel(<, Nat)
<1>1. IsWellFoundedOn(R, Nat)
  BY NatLessThanWellFounded, Zenon
<1>2. ASSUME NEW x \in Nat, NEW y \in Nat, y < x PROVE <<y, x>> \in R
  BY <1>2, Zenon DEF OpToRel
<1> HIDE DEF R
<1>3. PICK x \in T : \A y \in T : ~ (<<y, x>> \in R)
  BY <1>1, WFMin, Zenon
<1>4. ASSUME NEW y \in T PROVE x <= y
  <2>1. x \in Nat /\ y \in Nat
    OBVIOUS
  <2>2. ~ (y < x)
    BY <2>1, <1>2, <1>3
  <2> QED
    BY <2>1, <2>2
<1> QED
  BY <1>4

LEMMA UpTo ==
  ASSUME NEW n \in Nat, NEW S, 0 \in S, \A i \in 1 .. n : i - 1 \in S => i \in S
  PROVE  \A i \in 0 .. n : i \in S
<1> DEFINE T == {i \in 0 .. n : i \notin S}
<1> SUFFICES ASSUME T # {} PROVE FALSE
  OBVIOUS
<1>1. T \subseteq Nat
  OBVIOUS
<1> HIDE DEF T
<1>2. PICK x \in T : \A y \in T : x <= y
  BY <1>1, LeastNatural
<1>3. x \in 0 .. n /\ x \notin S
  BY DEF T
<1>4. x \in 1 .. n /\ x - 1 \in 0 .. n /\ ~(x <= x - 1)
  BY <1>3
<1>5. x - 1 \notin T
  BY <1>2, <1>4
<1>6. x - 1 \in S
  BY <1>4, <1>5 DEF T
<1> QED
  BY <1>3, <1>4, <1>6

\* g is e after each of the first n events of buf.
Run(g, e, buf, n) ==
  g = [i \in 0 .. n |-> IF i = 0 THEN e ELSE Handle(g[i - 1], buf[i])]

LEMMA RunExists ==
  ASSUME NEW e, NEW buf, Len(buf) \in Nat
  PROVE  \E g : Run(g, e, buf, Len(buf))
<1> DEFINE S == {n \in 0 .. Len(buf) : \E g : Run(g, e, buf, n)}
<1>1. 0 \in S
  <2>1. Run([i \in 0 .. 0 |-> e], e, buf, 0)
    BY DEF Run
  <2> QED
    BY <2>1
<1>2. ASSUME NEW n \in 1 .. Len(buf), n - 1 \in S PROVE n \in S
  <2>1. PICK g : Run(g, e, buf, n - 1)
    BY <1>2
  <2> DEFINE h == [i \in 0 .. n |-> IF i = n THEN Handle(g[n - 1], buf[n]) ELSE g[i]]
  <2>2. ASSUME NEW i \in 0 .. n
        PROVE  h[i] = IF i = 0 THEN e ELSE Handle(h[i - 1], buf[i])
    <3>1. CASE i = n
      <4>1. n - 1 \in 0 .. n /\ n - 1 # n /\ n # 0
        OBVIOUS
      <4>2. h[n - 1] = g[n - 1] /\ h[n] = Handle(g[n - 1], buf[n])
        BY <4>1
      <4> QED
        BY <3>1, <4>1, <4>2
    <3>2. CASE i # n
      <4>1. i \in 0 .. n - 1
        BY <3>2
      <4>2. g[i] = IF i = 0 THEN e ELSE Handle(g[i - 1], buf[i])
        BY <2>1, <4>1 DEF Run
      <4>3. i # 0 => h[i - 1] = g[i - 1]
        BY <4>1
      <4>4. h[i] = g[i]
        BY <3>2
      <4> QED
        BY <4>2, <4>3, <4>4
    <3> QED
      BY <3>1, <3>2
  <2>3. Run(h, e, buf, n)
    BY <2>2 DEF Run
  <2> HIDE DEF h
  <2> QED
    BY <2>3
<1> HIDE DEF S
<1>3. Len(buf) \in S
  <2>1. \A i \in 0 .. Len(buf) : i \in S
    BY <1>1, <1>2, UpTo
  <2> QED
    BY <2>1
<1> QED
  BY <1>3 DEF S

\* What an update held back, landing in its order, is no different from events that come
\* one by one (Emulator::stop_sync).
LEMMA LandOwned ==
  ASSUME NEW e, EmulatorInv(e), NEW buf \in Seq(Events)
  PROVE  EmulatorInv(Land(e, buf))
<1> DEFINE g == CHOOSE f : Run(f, e, buf, Len(buf))
<1>1. Len(buf) \in Nat /\ \A i \in 1 .. Len(buf) : buf[i] \in Events
  BY LenProperties, ElementOfSeq
<1>2. Run(g, e, buf, Len(buf))
  BY <1>1, RunExists
<1>3. Land(e, buf) = g[Len(buf)]
  BY DEF Land, Run
<1> HIDE DEF g
<1> DEFINE S == {i \in 0 .. Len(buf) : EmulatorInv(g[i])}
<1>4. 0 \in S
  BY <1>1, <1>2 DEF Run
<1>5. ASSUME NEW i \in 1 .. Len(buf), i - 1 \in S PROVE i \in S
  <2>1. i \in 0 .. Len(buf) /\ i # 0
    BY <1>1
  <2>2. g[i] = Handle(g[i - 1], buf[i])
    BY <2>1, <1>2 DEF Run
  <2>3. EmulatorInv(g[i - 1]) /\ buf[i] \in Events
    BY <1>1, <1>5
  <2> QED
    BY <2>1, <2>2, <2>3, HandleOwned
<1> HIDE DEF S
<1>6. Len(buf) \in S
  <2>1. \A i \in 0 .. Len(buf) : i \in S
    BY <1>1, <1>4, <1>5, UpTo
  <2> QED
    BY <2>1, <1>1
<1> QED
  BY <1>3, <1>6 DEF S

\* The emulator of a run, and the events its parser holds back.
ScreenInv ==
  /\ EmulatorInv(emu)
  /\ DOMAIN sync = {"open", "held", "age"} /\ sync.held \in Seq(Events)

LEMMA ScreenInit == Init => ScreenInv
<1> SUFFICES ASSUME Init PROVE ScreenInv
  OBVIOUS
<1>1. PICK p \in Past : emu = Land(NewEmulator, p)
  BY DEF Init
<1>2. p \in Seq(Events)
  BY PreviewAssumption
<1>3. EmulatorInv(emu)
  BY <1>1, <1>2, NewOwned, LandOwned
<1>4. sync = NoSync /\ <<>> \in Seq(Events)
  BY EmptySeq DEF Init
<1> QED
  BY <1>3, <1>4 DEF ScreenInv, NoSync

LEMMA ScreenStep ==
  ASSUME ScreenInv, [Next]_vars PROVE ScreenInv'
<1>1. /\ EmulatorInv(emu) /\ EmulatorInv(Land(emu, sync.held))
      /\ DOMAIN NoSync = {"open", "held", "age"} /\ NoSync.held \in Seq(Events)
  BY LandOwned, EmptySeq DEF ScreenInv, NoSync
<1>2. CASE Tick
  <2>1. emu' \in {emu, Land(emu, sync.held)} /\ sync' \in {sync, NoSync}
    BY <1>2 DEF Tick, Look
  <2> QED
    BY <1>1, <2>1 DEF ScreenInv
<1>3. ASSUME NEW ev \in Events, Output(ev) PROVE ScreenInv'
  <2>1. CASE sync.open /\ ~Expired
    <3>1. emu' = emu /\ sync' = [sync EXCEPT !.held = Append(@, ev)]
      BY <1>3, <2>1 DEF Output
    <3>2. Append(sync.held, ev) \in Seq(Events)
      BY AppendProperties DEF ScreenInv
    <3> QED
      BY <1>1, <3>1, <3>2 DEF ScreenInv
  <2>2. CASE ~(sync.open /\ ~Expired)
    <3>1. PICK e \in {emu, Land(emu, sync.held)} : emu' = Handle(e, ev) /\ sync' = NoSync
      BY <1>3, <2>2 DEF Output
    <3> QED
      BY <1>1, <3>1, HandleOwned DEF ScreenInv
  <2> QED
    BY <2>1, <2>2
<1>4. CASE Begin \/ End
  <2>1. /\ emu' \in {emu, Land(emu, sync.held)}
        /\ sync' \in {NoSync, [sync EXCEPT !.open = TRUE, !.age = 0]}
    BY <1>4 DEF Begin, End
  <2> QED
    BY <1>1, <2>1 DEF ScreenInv
<1>5. CASE Resize
  <2>1. sync' = sync /\ \E main, over \in Text : emu' = Reflowed(emu, main, over)
    BY <1>5 DEF Resize
  <2> QED
    BY <1>1, <2>1, ReflowedOwned DEF ScreenInv
<1>6. CASE Asks \/ Exit \/ Eof \/ UNCHANGED vars
  <2>1. UNCHANGED <<emu, sync>>
    BY <1>6 DEF Asks, Exit, Eof, vars, screenVars
  <2> QED
    BY <2>1 DEF ScreenInv
<1>7. CASE Elapse
  <2>1. emu' = emu /\ \E age : sync' = [sync EXCEPT !.age = age]
    BY <1>7 DEF Elapse, screenVars
  <2> QED
    BY <2>1 DEF ScreenInv
<1> QED
  BY <1>2, <1>3, <1>4, <1>5, <1>6, <1>7 DEF Next, Child

\* On the alternate screen the title is the one the child has set there, or announced right
\* before it, and none otherwise, however deep the stack of titles is and in whatever
\* order updates land (AltTitleState, and the shadow of the title stack).
THEOREM AltTitleIsOurs == Spec => []TitleIsOurs
<1>1. ScreenInv /\ [Next]_vars => ScreenInv'
  BY ScreenStep
<1>2. ScreenInv => TitleIsOurs
  <2> SUFFICES ASSUME EmulatorInv(emu), emu.alt
               PROVE  TitleOf(emu) = IF emu.owner = "session" THEN Sanitize(emu.name) ELSE NoTitle
    BY DEF ScreenInv, TitleIsOurs
  <2> QED
    BY DEF EmulatorInv, IsEmulator, Owned, TitleOf
<1> QED
  BY ScreenInit, <1>1, <1>2, PTL DEF Spec

-----------------------------------------------------------------------------
(* Where the adapters find an agent's status. A row is looked for from     *)
(* below or from above.                                                    *)

LEMMA LowestIs ==
  ASSUME NEW S, S \subseteq Nat, NEW m \in S, \A j \in S : j <= m
  PROVE  Lowest(S) = m
<1>1. S # {}
  OBVIOUS
<1>2. \A i \in S : (\A j \in S : j <= i) => i = m
  OBVIOUS
<1>3. (CHOOSE i \in S : \A j \in S : j <= i) = m
  BY <1>2
<1> QED
  BY <1>1, <1>3 DEF Lowest

LEMMA HighestIs ==
  ASSUME NEW S, S \subseteq Nat, NEW m \in S, \A j \in S : m <= j
  PROVE  Highest(S) = m
<1>1. S # {}
  OBVIOUS
<1>2. \A i \in S : (\A j \in S : j >= i) => i = m
  OBVIOUS
<1>3. (CHOOSE i \in S : \A j \in S : j >= i) = m
  BY <1>2
<1> QED
  BY <1>1, <1>3 DEF Highest

LEMMA NoneIsZero == Lowest({}) = 0 /\ Highest({}) = 0
BY DEF Lowest, Highest

\* Of finitely many rows there is a lowest.
LEMMA LowestExists ==
  ASSUME NEW n \in Nat, NEW S, S \subseteq 1 .. n, S # {}
  PROVE  Lowest(S) \in S
<1> DEFINE U == {n - y : y \in S}
<1>1. U \subseteq Nat /\ U # {}
  <2>1. \A y \in S : n - y \in Nat
    OBVIOUS
  <2>2. PICK y \in S : TRUE
    OBVIOUS
  <2>3. n - y \in U
    BY <2>2
  <2> QED
    BY <2>1, <2>3
<1>2. PICK u \in U : \A v \in U : u <= v
  BY <1>1, LeastNatural
<1>3. PICK x \in S : u = n - x
  BY <1>2
<1>4. \A y \in S : y <= x
  <2> TAKE y \in S
  <2>1. n - x <= n - y
    BY <1>2, <1>3
  <2>2. x \in Nat /\ y \in Nat
    OBVIOUS
  <2> QED
    BY <2>1, <2>2
<1>5. S \subseteq Nat
  OBVIOUS
<1> QED
  BY <1>4, <1>5, LowestIs

\* The rows of one part of a screen are no more than those it was painted from.
LEMMA ShiftedCount ==
  ASSUME NEW k \in Nat, NEW T, IsFiniteSet(T), NEW S, S \subseteq Nat,
         \A i \in S : i - k \in T
  PROVE  IsFiniteSet(S) /\ Cardinality(S) <= Cardinality(T)
<1> DEFINE f == [i \in S |-> i - k]
<1>1. f \in [S -> T]
  OBVIOUS
<1>2. \A i, j \in S : f[i] = f[j] => i = j
  OBVIOUS
<1>3. f \in Injection(S, T)
  BY <1>1, <1>2 DEF Injection, IsInjective
<1> HIDE DEF f
<1> QED
  BY <1>3, FS_Injection

LEMMA OnScreenIsFinite ==
  ASSUME NEW A, NEW s \in Seq(A)
  PROVE  /\ IsFiniteSet(OnScreen(s) \cap 1 .. Len(s)) /\ OnScreen(s) \subseteq 1 .. Len(s)
         /\ Count(s, 1, Len(s)) \in Nat
<1>1. Len(s) \in Nat /\ DOMAIN s = 1 .. Len(s)
  BY LenProperties
<1>2. OnScreen(s) \subseteq 1 .. Len(s)
  BY <1>1 DEF OnScreen
<1>3. IsFiniteSet(OnScreen(s) \cap 1 .. Len(s))
  <2>1. IsFiniteSet(1 .. Len(s))
    BY <1>1, FS_Interval
  <2> QED
    BY <2>1, FS_Intersection
<1> QED
  BY <1>2, <1>3, FS_CardinalityType DEF Count

LEMMA BoundedSequence ==
  ASSUME NEW A, NEW n \in Nat, NEW s \in SeqOf(A, n)
  PROVE  s \in Seq(A) /\ Len(s) \in 0 .. n
<1>1. PICK m \in 0 .. n : s \in [1 .. m -> A]
  BY DEF SeqOf
<1> QED
  BY <1>1

\* r is t painted below s.
IsBelow(A, r, s, t) ==
  /\ r \in Seq(A) /\ Len(r) = Len(s) + Len(t)
  /\ \A i \in 1 .. Len(s) : r[i] = s[i]
  /\ \A i \in 1 .. Len(t) : r[Len(s) + i] = t[i]

LEMMA JoinedIsBelow ==
  ASSUME NEW A, NEW s \in Seq(A), NEW t \in Seq(A)
  PROVE  s \o t \in Seq(A) /\ IsBelow(A, s \o t, s, t)
<1>1. Len(s) \in Nat /\ Len(t) \in Nat
  BY LenProperties
<1> QED
  BY <1>1, ConcatProperties DEF IsBelow

LEMMA BoxTopIs ==
  ASSUME NEW A, NEW rows \in Seq(A), NEW head, NEW foot, NEW inside, NEW top \in Nat, NEW bottom \in Nat,
         1 <= top, top < bottom, bottom <= Len(rows), bottom <= top + BoxRows,
         rows[top] = head, rows[bottom] = foot,
         \A i \in bottom + 1 .. Len(rows) : rows[i] # foot,
         \A i \in top + 1 .. bottom - 1 : rows[i] # head,
         \E i \in top + 1 .. bottom - 1 : rows[i] \in inside
  PROVE  BoxTop(rows, head, foot, inside) = top
<1>0. Len(rows) \in Nat /\ DOMAIN rows = 1 .. Len(rows) /\ BoxRows \in Nat
  BY LenProperties, AnchorsAssumption
<1> DEFINE F == {i \in DOMAIN rows : rows[i] = foot}
           H == {i \in DOMAIN rows : i < bottom /\ bottom <= i + BoxRows /\ rows[i] = head}
<1>1. Lowest(F) = bottom
  <2>1. F \subseteq Nat /\ bottom \in F /\ \A j \in F : j <= bottom
    BY <1>0
  <2> HIDE DEF F
  <2> QED
    BY <2>1, LowestIs
<1>2. Lowest(H) = top
  <2>1. H \subseteq Nat /\ top \in H /\ \A j \in H : j <= top
    BY <1>0
  <2> HIDE DEF H
  <2> QED
    BY <2>1, LowestIs
<1>3. BoxTop(rows, head, foot, inside)
        = IF top > 0 /\ \E i \in top + 1 .. bottom - 1 : rows[i] \in inside THEN top ELSE 0
  BY <1>1, <1>2 DEF BoxTop
<1> QED
  BY <1>3

\* The next row up, or down, over blank ones.
LEMMA NextUpIs ==
  ASSUME NEW A, NEW rows \in Seq(A), NEW n \in Nat, NEW m \in Nat,
         1 <= m, m < n, n <= Len(rows) + 1, rows[m] # "blank",
         \A j \in m + 1 .. n - 1 : rows[j] = "blank"
  PROVE  NextUp(rows, n) = m
<1>0. Len(rows) \in Nat /\ DOMAIN rows = 1 .. Len(rows)
  BY LenProperties
<1> DEFINE S == {j \in OnScreen(rows) : j < n}
<1>1. S \subseteq Nat /\ m \in S /\ \A j \in S : j <= m
  BY <1>0 DEF OnScreen
<1>2. NextUp(rows, n) = Lowest(S)
  BY DEF NextUp
<1> HIDE DEF S
<1> QED
  BY <1>1, <1>2, LowestIs

LEMMA NextDownIs ==
  ASSUME NEW A, NEW rows \in Seq(A), NEW n \in Nat, NEW m \in Nat,
         n < m, m <= Len(rows), rows[m] # "blank",
         \A j \in n + 1 .. m - 1 : rows[j] = "blank"
  PROVE  NextDown(rows, n) = m
<1>0. Len(rows) \in Nat /\ DOMAIN rows = 1 .. Len(rows)
  BY LenProperties
<1> DEFINE S == {j \in OnScreen(rows) : j > n}
<1>1. S \subseteq Nat /\ m \in S /\ \A j \in S : m <= j
  BY <1>0 DEF OnScreen
<1>2. NextDown(rows, n) = Highest(S)
  BY DEF NextDown
<1> HIDE DEF S
<1> QED
  BY <1>1, <1>2, HighestIs

\* The row found in the last rows on the screen is the only one of its kind there.
LEMMA MenuHeadIs ==
  ASSUME NEW A, NEW rows \in Seq(A), NEW heads, NEW head \in Nat, NEW last \in Nat,
         1 <= head, head <= last, last < head + MenuRows, last <= Len(rows),
         rows[last] # "blank", \A j \in last + 1 .. Len(rows) : rows[j] = "blank",
         rows[head] \in heads,
         \A j \in 1 .. head - 1 : rows[j] \in heads => ~ (last < j + MenuRows)
  PROVE  MenuHead(rows, heads) = head
<1>0. Len(rows) \in Nat /\ DOMAIN rows = 1 .. Len(rows) /\ MenuRows \in Nat
  BY LenProperties, AnchorsAssumption
<1> DEFINE H == {i \in DOMAIN rows : i <= last /\ last < i + MenuRows /\ rows[i] \in heads}
<1>1. Lowest(OnScreen(rows)) = last
  <2>1. OnScreen(rows) \subseteq Nat /\ last \in OnScreen(rows) /\ \A j \in OnScreen(rows) : j <= last
    BY <1>0 DEF OnScreen
  <2> QED
    BY <2>1, LowestIs
<1>2. H \subseteq Nat /\ head \in H /\ \A j \in H : head <= j
  BY <1>0
<1>3. MenuHead(rows, heads) = Highest(H)
  BY <1>1 DEF MenuHead
<1> HIDE DEF H
<1> QED
  BY <1>2, <1>3, HighestIs

-----------------------------------------------------------------------------
(* Claude Code.                                                            *)

\* A screen of Claude: its box from top to bottom, the row that tells, and what is attached.
ClaudePaints(rows, above, row, hints, top, bottom) ==
  /\ rows \in Seq(ClaudeRows) /\ top = Len(above) + Len(hints) + 2
  /\ bottom \in top + 2 .. top + BoxRows /\ bottom <= Len(rows)
  /\ \A i \in 1 .. Len(above) : rows[i] = above[i]
  /\ rows[Len(above) + 1] = row
  /\ \A i \in 1 .. Len(hints) : rows[Len(above) + 1 + i] = hints[i]
  /\ rows[top] = "rule" /\ rows[top + 1] = "prompt" /\ rows[bottom] = "rule"
  /\ \A i \in top + 1 .. Len(rows) : rows[i] = "rule" => i = bottom

\* The box: a rule, a prompt, its other rows, a rule.
LEMMA ClaudeBoxIs ==
  ASSUME NEW box \in ClaudeBoxes
  PROVE  /\ box \in Seq(ClaudeRows) /\ Len(box) \in 3 .. BoxRows + 1
         /\ box[1] = "rule" /\ box[2] = "prompt" /\ box[Len(box)] = "rule"
         /\ \A i \in 2 .. Len(box) - 1 : box[i] # "rule"
<1>0. BoxRows \in Nat /\ BoxRows - 2 \in Nat
  BY AnchorsAssumption
<1>1. PICK more \in SeqOf({"hint"}, BoxRows - 2) : box = <<"rule", "prompt">> \o more \o <<"rule">>
  BY DEF ClaudeBoxes
<1>2. more \in Seq({"hint"}) /\ Len(more) \in 0 .. BoxRows - 2
  BY <1>0, <1>1, BoundedSequence
<1>3. more \in Seq(ClaudeRows) /\ \A i \in 1 .. Len(more) : more[i] = "hint"
  BY <1>2 DEF ClaudeRows
<1> DEFINE head == <<"rule", "prompt">>
           both == head \o more
           foot == <<"rule">>
<1>4. /\ head \in Seq(ClaudeRows) /\ Len(head) = 2 /\ head[1] = "rule" /\ head[2] = "prompt"
      /\ foot \in Seq(ClaudeRows) /\ Len(foot) = 1 /\ foot[1] = "rule"
  BY DEF ClaudeRows
<1> HIDE DEF head, foot
<1>5. /\ both \in Seq(ClaudeRows) /\ Len(both) = Len(head) + Len(more)
      /\ \A i \in 1 .. Len(head) : both[i] = head[i]
      /\ \A i \in 1 .. Len(more) : both[Len(head) + i] = more[i]
  <2>1. both \in Seq(ClaudeRows) /\ IsBelow(ClaudeRows, both, head, more)
    BY <1>3, <1>4, JoinedIsBelow
  <2> HIDE DEF both
  <2> QED
    BY <2>1 DEF IsBelow
<1>6. box = both \o foot
  BY <1>1 DEF head, foot
<1> HIDE DEF both
<1>7. /\ box \in Seq(ClaudeRows) /\ Len(box) = Len(both) + Len(foot)
      /\ \A i \in 1 .. Len(both) : box[i] = both[i]
      /\ \A i \in 1 .. Len(foot) : box[Len(both) + i] = foot[i]
  <2>1. box \in Seq(ClaudeRows) /\ IsBelow(ClaudeRows, box, both, foot)
    BY <1>4, <1>5, <1>6, JoinedIsBelow
  <2> QED
    BY <2>1 DEF IsBelow
<1>8. Len(box) = Len(more) + 3 /\ box[Len(box)] = "rule"
  <2>1. Len(both) \in Nat
    BY <1>5, LenProperties
  <2> QED
    BY <1>2, <1>4, <1>5, <1>7, <2>1
<1>9. box[1] = "rule" /\ box[2] = "prompt"
  BY <1>2, <1>4, <1>5, <1>7
<1>10. \A i \in 2 .. Len(box) - 1 : box[i] # "rule"
  <2> TAKE i \in 2 .. Len(box) - 1
  <2>1. CASE i = 2
    BY <2>1, <1>9
  <2>2. CASE i # 2
    <3>1. i - 2 \in 1 .. Len(more) /\ i = 2 + (i - 2) /\ i \in 1 .. Len(both)
      BY <2>2, <1>2, <1>4, <1>5, <1>8
    <3>2. box[i] = more[i - 2]
      BY <3>1, <1>4, <1>5, <1>7
    <3> QED
      BY <3>1, <3>2, <1>3
  <2> QED
    BY <2>1, <2>2
<1> QED
  BY <1>0, <1>2, <1>7, <1>8, <1>9, <1>10

LEMMA FootIs ==
  ASSUME NEW foot \in Foot
  PROVE  foot \in Seq({"blank", "hint"}) /\ Len(foot) \in Nat
<1>1. CASE foot = <<>>
  BY <1>1
<1>2. CASE foot = <<"hint">>
  BY <1>2
<1>3. CASE foot = <<"blank", "hint">>
  BY <1>3
<1> QED
  BY <1>1, <1>2, <1>3 DEF Foot

LEMMA ClaudePainted ==
  ASSUME NEW above \in Seq(ClaudeRows), NEW row \in ClaudeRows,
         NEW hints \in Seq({"blank", "hint"}), NEW box \in ClaudeBoxes, NEW foot \in Foot
  PROVE  ClaudePaints(above \o <<row>> \o hints \o box \o foot, above, row, hints,
                      Len(above) + Len(hints) + 2, Len(above) + Len(hints) + 1 + Len(box))
<1> DEFINE one == <<row>>
           s1 == above \o one
           s2 == s1 \o hints
           s3 == s2 \o box
           rows == s3 \o foot
           a == Len(above)
           h == Len(hints)
           b == Len(box)
<1>0. a \in Nat /\ h \in Nat
  BY LenProperties
<1>1. one \in Seq(ClaudeRows) /\ Len(one) = 1 /\ one[1] = row
  OBVIOUS
<1>2. hints \in Seq(ClaudeRows)
  BY DEF ClaudeRows
<1>3. foot \in Seq(ClaudeRows) /\ Len(foot) \in Nat /\ \A i \in 1 .. Len(foot) : foot[i] # "rule"
  BY FootIs DEF ClaudeRows
<1>4. /\ box \in Seq(ClaudeRows) /\ b \in 3 .. BoxRows + 1
      /\ box[1] = "rule" /\ box[2] = "prompt" /\ box[b] = "rule"
      /\ \A i \in 2 .. b - 1 : box[i] # "rule"
  BY ClaudeBoxIs
<1>9. BoxRows \in Nat
  BY AnchorsAssumption
<1> HIDE DEF one
<1>5. /\ s1 \in Seq(ClaudeRows) /\ Len(s1) = Len(above) + Len(one)
      /\ \A i \in 1 .. Len(above) : s1[i] = above[i]
      /\ \A i \in 1 .. Len(one) : s1[Len(above) + i] = one[i]
  <2>1. s1 \in Seq(ClaudeRows) /\ IsBelow(ClaudeRows, s1, above, one)
    BY <1>1, JoinedIsBelow
  <2> HIDE DEF s1
  <2> QED
    BY <2>1 DEF IsBelow
<1> HIDE DEF s1
<1>6. /\ s2 \in Seq(ClaudeRows) /\ Len(s2) = Len(s1) + Len(hints)
      /\ \A i \in 1 .. Len(s1) : s2[i] = s1[i]
      /\ \A i \in 1 .. Len(hints) : s2[Len(s1) + i] = hints[i]
  <2>1. s2 \in Seq(ClaudeRows) /\ IsBelow(ClaudeRows, s2, s1, hints)
    BY <1>2, <1>5, JoinedIsBelow
  <2> HIDE DEF s2
  <2> QED
    BY <2>1 DEF IsBelow
<1> HIDE DEF s2
<1>7. /\ s3 \in Seq(ClaudeRows) /\ Len(s3) = Len(s2) + Len(box)
      /\ \A i \in 1 .. Len(s2) : s3[i] = s2[i]
      /\ \A i \in 1 .. Len(box) : s3[Len(s2) + i] = box[i]
  <2>1. s3 \in Seq(ClaudeRows) /\ IsBelow(ClaudeRows, s3, s2, box)
    BY <1>4, <1>6, JoinedIsBelow
  <2> HIDE DEF s3
  <2> QED
    BY <2>1 DEF IsBelow
<1> HIDE DEF s3
<1>8. /\ rows \in Seq(ClaudeRows) /\ Len(rows) = Len(s3) + Len(foot)
      /\ \A i \in 1 .. Len(s3) : rows[i] = s3[i]
      /\ \A i \in 1 .. Len(foot) : rows[Len(s3) + i] = foot[i]
  <2>1. rows \in Seq(ClaudeRows) /\ IsBelow(ClaudeRows, rows, s3, foot)
    BY <1>3, <1>7, JoinedIsBelow
  <2> HIDE DEF rows
  <2> QED
    BY <2>1 DEF IsBelow
<1> DEFINE top == a + h + 2
           bottom == a + h + 1 + b
<1>21. Len(above) = a /\ Len(hints) = h /\ Len(box) = b
  OBVIOUS
<1> HIDE DEF rows, a, h, b
<1>10. Len(s3) = bottom /\ Len(s2) = top - 1 /\ Len(s1) = a + 1 /\ Len(rows) = bottom + Len(foot)
  BY <1>0, <1>1, <1>4, <1>5, <1>6, <1>7, <1>8, <1>9, <1>21
<1>11. bottom \in top + 2 .. top + BoxRows /\ bottom <= Len(rows)
  BY <1>0, <1>3, <1>4, <1>9, <1>10
<1>12. \A i \in 1 .. a : rows[i] = above[i]
  <2> TAKE i \in 1 .. a
  <2>1. i \in 1 .. Len(s1) /\ i \in 1 .. Len(s2) /\ i \in 1 .. Len(s3)
    BY <1>0, <1>4, <1>9, <1>10
  <2> QED
    BY <2>1, <1>5, <1>6, <1>7, <1>8, <1>21
<1>13. rows[a + 1] = row
  <2>1. a + 1 \in 1 .. Len(s1) /\ a + 1 \in 1 .. Len(s2) /\ a + 1 \in 1 .. Len(s3) /\ 1 \in 1 .. 1
    BY <1>0, <1>4, <1>9, <1>10
  <2>2. s1[a + 1] = one[1]
    BY <2>1, <1>1, <1>5, <1>21
  <2> QED
    BY <2>1, <2>2, <1>1, <1>6, <1>7, <1>8
<1>14. \A i \in 1 .. h : rows[a + 1 + i] = hints[i]
  <2> TAKE i \in 1 .. h
  <2>1. Len(s1) + i \in 1 .. Len(s2) /\ Len(s1) + i \in 1 .. Len(s3) /\ Len(s1) + i = a + 1 + i
    BY <1>0, <1>4, <1>9, <1>10
  <2> QED
    BY <2>1, <1>6, <1>7, <1>8
<1>15. \A i \in 1 .. b : rows[top - 1 + i] = box[i]
  <2> TAKE i \in 1 .. b
  <2>1. Len(s2) + i \in 1 .. Len(s3) /\ Len(s2) + i = top - 1 + i
    BY <1>0, <1>4, <1>9, <1>10
  <2> QED
    BY <2>1, <1>7, <1>8
<1>16. rows[top] = "rule" /\ rows[top + 1] = "prompt" /\ rows[bottom] = "rule"
  <2>1. 1 \in 1 .. b /\ 2 \in 1 .. b /\ b \in 1 .. b
    BY <1>4, <1>9
  <2>2. top - 1 + 1 = top /\ top - 1 + 2 = top + 1 /\ top - 1 + b = bottom
    BY <1>0, <1>4, <1>9
  <2> HIDE DEF top, bottom
  <2>3. rows[top - 1 + 1] = box[1] /\ rows[top - 1 + 2] = box[2] /\ rows[top - 1 + b] = box[b]
    BY <2>1, <1>15
  <2> QED
    BY <2>2, <2>3, <1>4
<1>17. \A i \in top + 1 .. Len(rows) : rows[i] = "rule" => i = bottom
  <2> SUFFICES ASSUME NEW i \in top + 1 .. Len(rows), i # bottom PROVE rows[i] # "rule"
    OBVIOUS
  <2>1. CASE i < bottom
    <3>1. i - (top - 1) \in 2 .. b - 1 /\ i - (top - 1) \in 1 .. b /\ top - 1 + (i - (top - 1)) = i
      BY <2>1, <1>0, <1>4, <1>9
    <3> HIDE DEF top, bottom
    <3>2. rows[i] = box[i - (top - 1)]
      BY <3>1, <1>15
    <3> QED
      BY <3>1, <3>2, <1>4
  <2>2. CASE i > bottom
    <3>1. i - bottom \in 1 .. Len(foot) /\ Len(s3) + (i - bottom) = i
      BY <2>2, <1>0, <1>3, <1>4, <1>9, <1>10
    <3> HIDE DEF top, bottom
    <3>2. rows[i] = foot[i - bottom]
      BY <3>1, <1>8
    <3> QED
      BY <3>1, <3>2, <1>3
  <2> QED
    BY <2>1, <2>2, <1>0, <1>4, <1>9, <1>10
<1>18. rows = above \o <<row>> \o hints \o box \o foot
  BY DEF rows, s3, s2, s1, one
<1>19. rows \in Seq(ClaudeRows)
  BY <1>8
<1> HIDE DEF top, bottom
<1>20. ClaudePaints(rows, above, row, hints, top, bottom)
  BY <1>19, <1>11, <1>12, <1>13, <1>14, <1>16, <1>17 DEF ClaudePaints, top, a, h
<1> QED
  BY <1>18, <1>20 DEF top, bottom, a, h, b

\* Attachments and the row above them are within the window.
LEMMA WithinWindow ==
  ASSUME NEW A, NEW rows \in Seq(A), NEW B, NEW hints \in Seq(B), NEW n \in Nat, NEW w \in Nat,
         Count(hints, 1, Len(hints)) <= w,
         \A i \in 1 .. Len(hints) : rows[n + i] = hints[i]
  PROVE  Count(rows, n, n + Len(hints)) <= w + 1
<1> DEFINE h == Len(hints)
           S == OnScreen(rows) \cap n + 1 .. n + h
           T == OnScreen(hints) \cap 1 .. h
           U == OnScreen(rows) \cap n .. n + h
<1>0. h \in Nat /\ DOMAIN hints = 1 .. h
  BY LenProperties
<1>1. IsFiniteSet(T) /\ Cardinality(T) \in Nat /\ Cardinality(T) <= w
  BY OnScreenIsFinite DEF Count
<1>2. S \subseteq Nat /\ \A i \in S : i - n \in T
  <2>1. S \subseteq Nat
    BY <1>0
  <2>2. ASSUME NEW i \in S PROVE i - n \in T
    <3>1. i \in n + 1 .. n + h /\ rows[i] # "blank"
      BY DEF OnScreen
    <3>2. i - n \in 1 .. h /\ n + (i - n) = i
      BY <3>1, <1>0
    <3>3. rows[i] = hints[i - n]
      BY <3>2
    <3> QED
      BY <1>0, <3>1, <3>2, <3>3 DEF OnScreen
  <2> QED
    BY <2>1, <2>2
<1>3. IsFiniteSet(S) /\ Cardinality(S) <= Cardinality(T)
  <2> HIDE DEF S, T
  <2> QED
    BY <1>1, <1>2, ShiftedCount
<1>4. U \subseteq S \cup {n}
  <2> SUFFICES ASSUME NEW i \in U, i # n PROVE i \in S
    OBVIOUS
  <2> QED
    BY <1>0
<1>5. IsFiniteSet(U) /\ Cardinality(U) <= Cardinality(S) + 1 /\ Cardinality(U) \in Nat
  <2> HIDE DEF U, S
  <2>1. IsFiniteSet(S \cup {n}) /\ Cardinality(S \cup {n}) <= Cardinality(S) + 1
    <3>1. Cardinality(S) \in Nat
      BY <1>3, FS_CardinalityType
    <3>2. /\ IsFiniteSet(S \cup {n})
          /\ Cardinality(S \cup {n}) = IF n \in S THEN Cardinality(S) ELSE Cardinality(S) + 1
      BY <1>3, FS_AddElement
    <3> QED
      BY <3>1, <3>2
  <2> QED
    BY <1>3, <1>4, <2>1, FS_Subset, FS_CardinalityType
<1>6. Cardinality(S) \in Nat
  BY <1>3, FS_CardinalityType
<1>7. Count(rows, n, n + Len(hints)) = Cardinality(U)
  BY DEF Count
<1> HIDE DEF U, S, T
<1> QED
  BY <1>1, <1>3, <1>5, <1>6, <1>7

\* What is on the screen above a row is what is there above it.
LEMMA SameAbove ==
  ASSUME NEW A, NEW rows \in Seq(A), NEW B, NEW above \in Seq(B), Len(above) < Len(rows),
         \A i \in 1 .. Len(above) : rows[i] = above[i], NEW Of
  PROVE  LET n == Len(above) + 1
         IN  /\ NextUp(rows, n) = NextUp(above, n)
             /\ In(rows, NextUp(rows, n), Of) <=> In(above, NextUp(above, n), Of)
<1> DEFINE n == Len(above) + 1
           S == {j \in OnScreen(rows) : j < n}
           T == {j \in OnScreen(above) : j < n}
           up == NextUp(above, n)
<1>0. Len(above) \in Nat /\ DOMAIN above = 1 .. Len(above) /\ Len(rows) \in Nat /\ DOMAIN rows = 1 .. Len(rows)
  BY LenProperties
<1>1. S = T
  BY <1>0 DEF OnScreen
<1>2. NextUp(rows, n) = up /\ up = Lowest(T)
  BY <1>1 DEF NextUp
<1>3. T \subseteq 1 .. Len(above)
  BY <1>0 DEF OnScreen
<1>4. up \in 1 .. Len(above) \/ up = 0
  <2>1. CASE T = {}
    BY <2>1, <1>2, NoneIsZero
  <2>2. CASE T # {}
    <3> HIDE DEF T, up
    <3>1. Lowest(T) \in T
      BY <2>2, <1>0, <1>3, LowestExists
    <3> QED
      BY <3>1, <1>2, <1>3
  <2> QED
    BY <2>1, <2>2
<1>5. In(rows, up, Of) <=> In(above, up, Of)
  <2> HIDE DEF up
  <2> QED
    BY <1>0, <1>4 DEF In
<1> QED
  BY <1>2, <1>5

\* The first row at column 0 above the box is the one that tells.
LEMMA ClaudeLooksAt ==
  ASSUME NEW rows, NEW above \in Seq(ClaudeRows), NEW row \in ClaudeRows \ (Indented \cup {"blank"}),
         NEW hints \in Seq({"blank", "hint"}), NEW top, NEW bottom,
         Count(hints, 1, Len(hints)) <= ClaudeWindow - 1,
         ClaudePaints(rows, above, row, hints, top, bottom)
  PROVE  LET n == Len(above) + 1
         IN  ClaudeLive(rows) = CASE row = "spinner" -> ClaudeWorking(rows, n)
                                  [] row = "waiting" -> Found("claude:waiting", n)
                                  [] OTHER -> NotFound
<1> DEFINE n == Len(above) + 1
           S == {i \in OnScreen(rows) : i < top /\ rows[i] \notin Indented}
<1>0. /\ Len(above) \in Nat /\ Len(hints) \in Nat /\ DOMAIN hints = 1 .. Len(hints)
      /\ rows \in Seq(ClaudeRows) /\ Len(rows) \in Nat /\ DOMAIN rows = 1 .. Len(rows)
      /\ BoxRows \in Nat /\ ClaudeWindow \in Nat /\ ClaudeWindow > 0
  BY LenProperties, AnchorsAssumption DEF ClaudePaints
<1>1. /\ n \in Nat /\ top \in Nat /\ bottom \in Nat /\ top = n + Len(hints) + 1 /\ 1 <= top
      /\ bottom \in top + 2 .. top + BoxRows /\ bottom <= Len(rows) /\ 1 <= n /\ n < top
  BY <1>0 DEF ClaudePaints
<1>2. BoxTop(rows, "rule", "rule", {"prompt", "echo"}) = top
  <2>1. rows[top] = "rule" /\ rows[top + 1] = "prompt" /\ rows[bottom] = "rule"
    BY DEF ClaudePaints
  <2>2. \A i \in bottom + 1 .. Len(rows) : rows[i] # "rule"
    BY <1>1 DEF ClaudePaints
  <2>3. \A i \in top + 1 .. bottom - 1 : rows[i] # "rule"
    BY <1>1 DEF ClaudePaints
  <2>4. \E i \in top + 1 .. bottom - 1 : rows[i] \in {"prompt", "echo"}
    <3>1. top + 1 \in top + 1 .. bottom - 1
      BY <1>1
    <3> QED
      BY <2>1, <3>1
  <2>5. top < bottom /\ bottom <= top + BoxRows
    BY <1>0, <1>1
  <2> DEFINE rule == "rule"
             inside == {"prompt", "echo"}
  <2>6. /\ rows[top] = rule /\ rows[bottom] = rule
        /\ \A i \in bottom + 1 .. Len(rows) : rows[i] # rule
        /\ \A i \in top + 1 .. bottom - 1 : rows[i] # rule
        /\ \E i \in top + 1 .. bottom - 1 : rows[i] \in inside
    BY <2>1, <2>2, <2>3, <2>4
  <2> HIDE DEF n, rule, inside
  <2>7. BoxTop(rows, rule, rule, inside) = top
    BY <1>0, <1>1, <2>5, <2>6, BoxTopIs
  <2> QED
    BY <2>7 DEF rule, inside
<1>3. rows[n] = row /\ \A i \in 1 .. Len(hints) : rows[n + i] = hints[i]
  BY DEF ClaudePaints
<1>4. Lowest(S) = n
  <2>1. S \subseteq Nat
    BY <1>0 DEF OnScreen
  <2>2. n \in S
    <3>1. row \notin Indented /\ row # "blank"
      OBVIOUS
    <3> QED
      BY <1>0, <1>1, <1>3, <3>1 DEF OnScreen
  <2>3. \A j \in S : j <= n
    <3> SUFFICES ASSUME NEW j \in S, j > n PROVE FALSE
      BY <2>1, <1>1
    <3>1. j - n \in 1 .. Len(hints) /\ n + (j - n) = j
      BY <2>1, <1>0, <1>1
    <3>2. rows[j] = hints[j - n] /\ hints[j - n] \in {"blank", "hint"}
      BY <3>1, <1>0, <1>3
    <3> QED
      BY <3>2 DEF OnScreen, Indented
  <2> HIDE DEF S
  <2> QED
    BY <2>1, <2>2, <2>3, LowestIs
<1>5. ~ (Count(rows, n, top - 1) > ClaudeWindow)
  <2>1. ClaudeWindow - 1 \in Nat /\ top - 1 = n + Len(hints)
    BY <1>0, <1>1
  <2> HIDE DEF n
  <2>2. Count(rows, n, n + Len(hints)) <= ClaudeWindow - 1 + 1
    BY <1>0, <1>1, <1>3, <2>1, WithinWindow
  <2>3. Count(rows, n, n + Len(hints)) <= ClaudeWindow
    BY <1>0, <2>2
  <2>4. Count(rows, n, n + Len(hints)) \in Nat
    <3>1. IsFiniteSet(n .. n + Len(hints))
      BY <1>0, <1>1, FS_Interval
    <3>2. IsFiniteSet(OnScreen(rows) \cap n .. n + Len(hints))
      BY <3>1, FS_Intersection
    <3> QED
      BY <3>2, FS_CardinalityType DEF Count
  <2> QED
    BY <1>0, <2>1, <2>3, <2>4
<1>6. ClaudeLive(rows) = ClaudeStatus(rows, top)
  BY <1>1, <1>2 DEF ClaudeLive
<1>7. ClaudeStatus(rows, top) = CASE row = "spinner" -> ClaudeWorking(rows, n)
                                  [] row = "waiting" -> Found("claude:waiting", n)
                                  [] OTHER -> NotFound
  <2>1. n # 0
    BY <1>1
  <2> HIDE DEF n
  <2> QED
    BY <1>3, <1>4, <1>5, <2>1 DEF ClaudeStatus
<1> QED
  BY <1>6, <1>7

\* A working Claude is read from its spinner or its action, a waiting one from what it waits
\* for, and an idle one not at all, whatever its conversation quotes or keeps (summary.rs:20-30,
\* claude_spinner_status).
LEMMA ClaudeIsRead == ClaudeRead
<1> SUFFICES ASSUME NEW above \in Conversations(ClaudeRows), NEW hints \in Attached(ClaudeWindow - 1),
                    NEW box \in ClaudeBoxes, NEW foot \in Foot
             PROVE  LET n == Len(above) + 1
                        found(row) == ClaudeLive(above \o <<row>> \o hints \o box \o foot)
                    IN /\ found("waiting") = Found("claude:waiting", n)
                       /\ found("prose") = NotFound
                       /\ found("spinner") = IF In(above, NextUp(above, n), {"action"})
                                             THEN Found("claude:action-row", NextUp(above, n))
                                             ELSE Found("claude:spinner", n)
  BY DEF ClaudeRead
<1> DEFINE n == Len(above) + 1
           screen(row) == above \o <<row>> \o hints \o box \o foot
           top == Len(above) + Len(hints) + 2
           bottom == Len(above) + Len(hints) + 1 + Len(box)
<1>1. above \in Seq(ClaudeRows)
  BY AnchorsAssumption, BoundedSequence DEF Conversations
<1>2. hints \in Seq({"blank", "hint"}) /\ Count(hints, 1, Len(hints)) <= ClaudeWindow - 1
  <2>1. ClaudeWindow - 1 + 1 \in Nat
    BY AnchorsAssumption
  <2> QED
    BY <2>1, BoundedSequence DEF Attached
<1>3. ASSUME NEW row \in ClaudeRows
      PROVE  ClaudePaints(screen(row), above, row, hints, top, bottom)
  BY <1>1, <1>2, ClaudePainted
<1>4. ASSUME NEW row \in ClaudeRows \ (Indented \cup {"blank"})
      PROVE  ClaudeLive(screen(row)) = CASE row = "spinner" -> ClaudeWorking(screen(row), n)
                                         [] row = "waiting" -> Found("claude:waiting", n)
                                         [] OTHER -> NotFound
  <2>1. ClaudePaints(screen(row), above, row, hints, top, bottom)
    BY <1>3
  <2> HIDE DEF screen, top, bottom
  <2> QED
    BY <1>1, <1>2, <2>1, ClaudeLooksAt
<1>5. {"spinner", "waiting", "prose"} \subseteq ClaudeRows \ (Indented \cup {"blank"})
  BY DEF ClaudeRows, Indented
<1>6. ClaudeLive(screen("waiting")) = Found("claude:waiting", n)
  <2> HIDE DEF screen, n
  <2> QED
    BY <1>4, <1>5
<1>7. ClaudeLive(screen("prose")) = NotFound
  <2> HIDE DEF screen, n
  <2> QED
    BY <1>4, <1>5
<1>8. ClaudeLive(screen("spinner")) = IF In(above, NextUp(above, n), {"action"})
                                      THEN Found("claude:action-row", NextUp(above, n))
                                      ELSE Found("claude:spinner", n)
  <2> DEFINE rows == screen("spinner")
             action == {"action"}
             up == NextUp(above, n)
  <2>1. ClaudeLive(rows) = ClaudeWorking(rows, n)
    <3> HIDE DEF screen, n
    <3> QED
      BY <1>4, <1>5
  <2>2. ClaudePaints(rows, above, "spinner", hints, top, bottom)
    BY <1>3, <1>5
  <2> HIDE DEF rows, screen, top, bottom
  <2>3. /\ rows \in Seq(ClaudeRows) /\ Len(above) < Len(rows)
        /\ \A i \in 1 .. Len(above) : rows[i] = above[i]
    <3>1. Len(above) \in Nat /\ Len(hints) \in Nat /\ BoxRows \in Nat
      BY <1>1, <1>2, LenProperties, AnchorsAssumption
    <3>2. /\ rows \in Seq(ClaudeRows) /\ top = Len(above) + Len(hints) + 2
          /\ bottom \in top + 2 .. top + BoxRows /\ bottom <= Len(rows)
          /\ \A i \in 1 .. Len(above) : rows[i] = above[i]
      BY <2>2 DEF ClaudePaints
    <3>3. Len(rows) \in Nat
      BY <3>2, LenProperties
    <3> QED
      BY <3>1, <3>2, <3>3
  <2>4. NextUp(rows, n) = up /\ (In(rows, up, action) <=> In(above, up, action))
    <3> HIDE DEF action
    <3>1. /\ NextUp(rows, Len(above) + 1) = NextUp(above, Len(above) + 1)
          /\ In(rows, NextUp(rows, Len(above) + 1), action)
               <=> In(above, NextUp(above, Len(above) + 1), action)
      BY <1>1, <2>3, SameAbove
    <3> QED
      BY <3>1
  <2>5. ClaudeWorking(rows, n) = IF In(rows, up, action) THEN Found("claude:action-row", up)
                                                         ELSE Found("claude:spinner", n)
    <3> HIDE DEF n, up
    <3> QED
      BY <2>4 DEF ClaudeWorking
  <2>6. ClaudeLive(rows) = IF In(above, up, action) THEN Found("claude:action-row", up)
                                                    ELSE Found("claude:spinner", n)
    <3> HIDE DEF n, up, action
    <3> QED
      BY <2>1, <2>4, <2>5
  <2> QED
    BY <2>6 DEF rows
<1> QED
  BY <1>6, <1>7, <1>8

-----------------------------------------------------------------------------
(* Screens of more parts.                                                  *)

\* Below the first `off` rows of r comes p.
Part(r, off, p) == off + Len(p) <= Len(r) /\ \A i \in 1 .. Len(p) : r[off + i] = p[i]

LEMMA PartOfMore ==
  ASSUME NEW A, NEW r \in Seq(A), NEW t \in Seq(A)
  PROVE  /\ r \o t \in Seq(A) /\ Len(r \o t) = Len(r) + Len(t)
         /\ Part(r \o t, 0, r) /\ Part(r \o t, Len(r), t)
         /\ \A off \in Nat : \A p \in Seq(A) : Part(r, off, p) => Part(r \o t, off, p)
<1>1. Len(r) \in Nat /\ Len(t) \in Nat
  BY LenProperties
<1>2. r \o t \in Seq(A) /\ IsBelow(A, r \o t, r, t)
  BY JoinedIsBelow
<1> DEFINE s == r \o t
<1> HIDE DEF s
<1>3. /\ Len(s) = Len(r) + Len(t) /\ \A i \in 1 .. Len(r) : s[i] = r[i]
      /\ \A i \in 1 .. Len(t) : s[Len(r) + i] = t[i]
  BY <1>2 DEF IsBelow, s
<1>4. Part(s, 0, r) /\ Part(s, Len(r), t)
  BY <1>1, <1>3 DEF Part
<1>5. ASSUME NEW off \in Nat, NEW p \in Seq(A), Part(r, off, p) PROVE Part(s, off, p)
  <2>1. Len(p) \in Nat
    BY LenProperties
  <2>2. off + Len(p) <= Len(s)
    BY <1>1, <1>3, <1>5, <2>1 DEF Part
  <2>3. \A i \in 1 .. Len(p) : s[off + i] = p[i]
    <3> TAKE i \in 1 .. Len(p)
    <3>1. off + i \in 1 .. Len(r) /\ r[off + i] = p[i]
      BY <1>1, <1>5, <2>1 DEF Part
    <3> QED
      BY <3>1, <1>3
  <2> QED
    BY <2>2, <2>3 DEF Part
<1> QED
  BY <1>2, <1>3, <1>4, <1>5 DEF s

\* Five parts, from the top.
Painted(A, r, a, b, c, d, e) ==
  /\ r \in Seq(A) /\ Len(r) = Len(a) + Len(b) + Len(c) + Len(d) + Len(e)
  /\ Part(r, 0, a) /\ Part(r, Len(a), b) /\ Part(r, Len(a) + Len(b), c)
  /\ Part(r, Len(a) + Len(b) + Len(c), d) /\ Part(r, Len(a) + Len(b) + Len(c) + Len(d), e)

LEMMA PartsArePainted ==
  ASSUME NEW A, NEW a \in Seq(A), NEW b \in Seq(A), NEW c \in Seq(A), NEW d \in Seq(A), NEW e \in Seq(A)
  PROVE  Painted(A, a \o b \o c \o d \o e, a, b, c, d, e)
<1>0. Len(a) \in Nat /\ Len(b) \in Nat /\ Len(c) \in Nat /\ Len(d) \in Nat /\ Len(e) \in Nat
  BY LenProperties
<1> DEFINE ab == a \o b
           abc == ab \o c
           abcd == abc \o d
           r == abcd \o e
           n2 == Len(a) + Len(b)
           n3 == n2 + Len(c)
           n4 == n3 + Len(d)
<1>1. n2 \in Nat /\ n3 \in Nat /\ n4 \in Nat
  BY <1>0
<1>2. ab \in Seq(A) /\ Len(ab) = n2 /\ Part(ab, 0, a) /\ Part(ab, Len(a), b)
  BY PartOfMore
<1> HIDE DEF ab
<1>3. /\ abc \in Seq(A) /\ Len(abc) = Len(ab) + Len(c) /\ Part(abc, Len(ab), c)
      /\ Part(abc, 0, a) /\ Part(abc, Len(a), b)
  BY <1>0, <1>2, PartOfMore
<1>4. Len(abc) = n3 /\ Part(abc, n2, c)
  BY <1>2, <1>3
<1> HIDE DEF abc, n2
<1>5. /\ abcd \in Seq(A) /\ Len(abcd) = Len(abc) + Len(d) /\ Part(abcd, Len(abc), d)
      /\ Part(abcd, 0, a) /\ Part(abcd, Len(a), b) /\ Part(abcd, n2, c)
  BY <1>0, <1>1, <1>3, <1>4, PartOfMore
<1>6. Len(abcd) = n4 /\ Part(abcd, n3, d)
  BY <1>4, <1>5
<1> HIDE DEF abcd, n3
<1>7. /\ r \in Seq(A) /\ Len(r) = Len(abcd) + Len(e) /\ Part(r, Len(abcd), e)
      /\ Part(r, 0, a) /\ Part(r, Len(a), b) /\ Part(r, n2, c) /\ Part(r, n3, d)
  BY <1>0, <1>1, <1>5, <1>6, PartOfMore
<1>8. Len(r) = n4 + Len(e) /\ Part(r, n4, e)
  BY <1>6, <1>7
<1>9. r = a \o b \o c \o d \o e
  BY DEF abcd, abc, ab
<1> HIDE DEF r, n4
<1>10. Painted(A, r, a, b, c, d, e)
  BY <1>7, <1>8 DEF Painted, n2, n3, n4
<1> QED
  BY <1>9, <1>10

LEMMA GapIs == ASSUME NEW gap \in Gaps PROVE gap \in Seq({"blank"}) /\ Len(gap) \in 0 .. 1
BY BoundedSequence DEF Gaps

\* A dialog of Claude, in the place of its box, below a conversation that quotes none and has no
\* other head of a menu in reach.
LEMMA ClaudeDialogIsRead == ClaudeAsks
<1> SUFFICES ASSUME NEW above \in Conversations(ClaudeRows), NEW gap \in Gaps, ~ Boxed(above),
                    ~ HeadAbove(above, {"pick", "echo"}, Len(above) + 1 + Len(gap) + 1)
             PROVE  ClaudeLive(above \o <<"pick">> \o gap \o <<"option">> \o gap)
                      = Found("claude:approval-menu", Len(above) + 1)
  BY DEF ClaudeAsks
<1> DEFINE pick == <<"pick">>
           option == <<"option">>
           rows == above \o pick \o gap \o option \o gap
           n == Len(above) + 1
           last == n + Len(gap) + 1
<1>1. above \in Seq(ClaudeRows) /\ Len(above) \in Nat
  BY AnchorsAssumption, BoundedSequence, LenProperties DEF Conversations
<1>2. /\ above \in Seq(ClaudeRows)
      /\ \A i \in 1 .. Len(above) : above[i] \in {"pick", "echo"} => ~ (last < i + MenuRows)
  BY <1>1 DEF HeadAbove
<1>3. gap \in Seq(ClaudeRows) /\ Len(gap) \in 0 .. 1 /\ \A i \in 1 .. Len(gap) : gap[i] = "blank"
  BY GapIs DEF ClaudeRows
<1>4. /\ pick \in Seq(ClaudeRows) /\ Len(pick) = 1 /\ pick[1] = "pick"
      /\ option \in Seq(ClaudeRows) /\ Len(option) = 1 /\ option[1] = "option"
  BY DEF ClaudeRows
<1> HIDE DEF pick, option
<1>5. Painted(ClaudeRows, rows, above, pick, gap, option, gap)
  BY <1>2, <1>3, <1>4, PartsArePainted
<1> HIDE DEF rows
<1>6. /\ rows \in Seq(ClaudeRows) /\ Len(rows) = last + Len(gap) /\ DOMAIN rows = 1 .. Len(rows)
      /\ n \in Nat /\ last \in Nat /\ 1 <= n /\ n < last /\ last <= n + 2 /\ last <= Len(rows)
  <2>1. rows \in Seq(ClaudeRows) /\ DOMAIN rows = 1 .. Len(rows)
    BY <1>5, LenProperties DEF Painted
  <2>2. Len(rows) = Len(above) + 1 + Len(gap) + 1 + Len(gap)
    BY <1>4, <1>5 DEF Painted
  <2>3. Len(gap) = 0 \/ Len(gap) = 1
    BY <1>3
  <2>4. n \in Nat /\ last \in Nat /\ 1 <= n /\ n < last /\ last <= n + 2
    <3>1. \A x \in Nat : \A y \in {0, 1} :
             /\ x + 1 \in Nat /\ x + 1 + y + 1 \in Nat /\ 1 <= x + 1 /\ x + 1 < x + 1 + y + 1
             /\ x + 1 + y + 1 <= x + 1 + 2
      OBVIOUS
    <3>2. Len(above) \in Nat /\ Len(gap) \in {0, 1}
      BY <1>1, <2>3
    <3> QED
      BY <3>1, <3>2
  <2>5. Len(rows) = last + Len(gap) /\ last <= Len(rows)
    BY <1>1, <2>2, <2>3
  <2> QED
    BY <2>1, <2>4, <2>5
<1>7. /\ \A i \in 1 .. n - 1 : rows[i] = above[i]
      /\ rows[n] = "pick" /\ rows[last] = "option"
      /\ \A i \in n + 1 .. last - 1 : rows[i] = "blank"
      /\ \A i \in last + 1 .. Len(rows) : rows[i] = "blank"
  <2>1. /\ Part(rows, 0, above) /\ Part(rows, n - 1, pick) /\ Part(rows, n, gap)
        /\ Part(rows, last - 1, option) /\ Part(rows, last, gap)
    <3>1. /\ Len(above) = n - 1 /\ Len(above) + Len(pick) = n
          /\ Len(above) + Len(pick) + Len(gap) = last - 1
          /\ Len(above) + Len(pick) + Len(gap) + Len(option) = last
      BY <1>1, <1>3, <1>4
    <3> HIDE DEF n, last
    <3> QED
      BY <1>5, <3>1 DEF Painted
  <2>2. \A i \in 1 .. n - 1 : rows[i] = above[i]
    BY <2>1, <1>1 DEF Part
  <2>3. rows[n] = "pick" /\ rows[last] = "option"
    BY <2>1, <1>1, <1>3, <1>4 DEF Part
  <2>4. ASSUME NEW i \in n + 1 .. last - 1 PROVE rows[i] = "blank"
    <3>1. i - n \in 1 .. Len(gap) /\ n + (i - n) = i
      BY <1>6, <1>3
    <3> HIDE DEF n, last
    <3> QED
      BY <2>1, <3>1, <1>3 DEF Part
  <2>5. ASSUME NEW i \in last + 1 .. Len(rows) PROVE rows[i] = "blank"
    <3>1. i - last \in 1 .. Len(gap) /\ last + (i - last) = i
      BY <1>6, <1>3
    <3> HIDE DEF n, last
    <3> QED
      BY <2>1, <3>1, <1>3 DEF Part
  <2> QED
    BY <2>2, <2>3, <2>4, <2>5
<1>8. MenuHead(rows, {"pick", "echo"}) = n
  <2> DEFINE heads == {"pick", "echo"}
  <2>1. /\ rows[last] # "blank" /\ rows[n] \in heads
        /\ \A j \in 1 .. n - 1 : rows[j] \in heads => ~ (last < j + MenuRows)
        /\ \A i \in last + 1 .. Len(rows) : rows[i] = "blank"
    <3>1. n - 1 = Len(above)
      BY <1>1
    <3> HIDE DEF last
    <3> QED
      BY <1>2, <1>7, <3>1
  <2>2. last < n + MenuRows
    BY <1>6, AnchorsAssumption
  <2> HIDE DEF heads, n, last
  <2>3. n <= last
    BY <1>6
  <2>4. MenuHead(rows, heads) = n
    BY <1>6, <2>1, <2>2, <2>3, MenuHeadIs
  <2> QED
    BY <2>4 DEF heads
<1>9. NextDown(rows, n) = last
  <2>1. rows[last] # "blank"
    BY <1>7
  <2> HIDE DEF n, last
  <2> QED
    BY <1>6, <1>7, <2>1, NextDownIs
<1>10. BoxTop(rows, "rule", "rule", {"prompt", "echo"}) = 0
  <2> DEFINE inside == {"prompt", "echo"}
             F == {i \in DOMAIN rows : rows[i] = "rule"}
             bottom == Lowest(F)
             H == {i \in DOMAIN rows : i < bottom /\ bottom <= i + BoxRows /\ rows[i] = "rule"}
             top == Lowest(H)
  <2>1. ASSUME NEW i \in DOMAIN rows, rows[i] \in {"rule", "prompt", "echo"}
        PROVE  i \in DOMAIN above /\ above[i] = rows[i]
    <3>1. i \in 1 .. n - 1 \/ i = n \/ i \in n + 1 .. last - 1 \/ i = last \/ i \in last + 1 .. Len(rows)
      BY <1>6
    <3>2. DOMAIN above = 1 .. n - 1
      BY <1>1, LenProperties
    <3> HIDE DEF n, last
    <3> QED
      BY <2>1, <3>1, <3>2, <1>7
  <2>2. F \subseteq 1 .. Len(rows) /\ H \subseteq 1 .. Len(rows) /\ Len(rows) \in Nat
    BY <1>6, LenProperties
  <2>3. ASSUME top > 0, NEW i \in top + 1 .. bottom - 1, rows[i] \in inside PROVE FALSE
    <3>1. H # {}
      <4>1. CASE H = {}
        <5> HIDE DEF H
        <5>1. top = 0
          BY <4>1, NoneIsZero
        <5> QED
          BY <2>3, <5>1
      <4> QED
        BY <4>1
    <3>2. top \in H
      <4> HIDE DEF H
      <4> QED
        BY <2>2, <3>1, LowestExists
    <3>3. F # {}
      <4>1. top \in F
        BY <3>2
      <4> QED
        BY <4>1
    <3>4. bottom \in F
      <4> HIDE DEF F
      <4> QED
        BY <2>2, <3>3, LowestExists
    <3>5. /\ top \in DOMAIN rows /\ rows[top] = "rule" /\ top < bottom /\ bottom <= top + BoxRows
          /\ bottom \in DOMAIN rows /\ rows[bottom] = "rule"
      BY <3>2, <3>4
    <3> HIDE DEF top, bottom
    <3>6. i \in DOMAIN rows /\ top < i /\ i < bottom
      BY <1>6, <2>3, <3>5
    <3>7. /\ top \in DOMAIN above /\ above[top] = "rule" /\ bottom \in DOMAIN above
          /\ above[bottom] = "rule" /\ i \in DOMAIN above /\ above[i] \in {"prompt", "echo"}
      BY <2>1, <2>3, <3>5, <3>6
    <3> QED
      BY <3>5, <3>6, <3>7 DEF Boxed
  <2>4. BoxTop(rows, "rule", "rule", inside)
          = IF top > 0 /\ \E i \in top + 1 .. bottom - 1 : rows[i] \in inside THEN top ELSE 0
    BY DEF BoxTop
  <2> HIDE DEF top, bottom, inside
  <2>5. BoxTop(rows, "rule", "rule", inside) = 0
    BY <2>3, <2>4
  <2> QED
    BY <2>5 DEF inside
<1>11. ClaudeLive(rows) = ClaudeApproval(rows)
  BY <1>10 DEF ClaudeLive
<1>12. In(rows, last, {"option"})
  BY <1>6, <1>7 DEF In
<1>13. ClaudeApproval(rows) = Found("claude:approval-menu", n)
  <2>1. n > 0
    BY <1>6
  <2> HIDE DEF n, last
  <2> QED
    BY <1>8, <1>9, <1>12, <2>1 DEF ClaudeApproval
<1> QED
  BY <1>11, <1>13 DEF rows, pick, option

-----------------------------------------------------------------------------
(* Codex.                                                                  *)

LEMMA HighestExists ==
  ASSUME NEW S, S \subseteq Nat, S # {}
  PROVE  Highest(S) \in S
<1>1. PICK x \in S : \A y \in S : x <= y
  BY LeastNatural
<1> QED
  BY <1>1, HighestIs

LEMMA QueueIs ==
  ASSUME NEW queue \in CodexQueues
  PROVE  /\ queue \in Seq(CodexRows) /\ Len(queue) \in Nat
         /\ \A i \in 1 .. Len(queue) : queue[i] \in {"queued", "hint"}
         /\ Len(queue) > 0 => queue[1] = "queued"
<1>1. CASE queue = <<>>
  BY <1>1
<1>2. CASE \E more \in SeqOf({"hint"}, CodexWindow + 1) : queue = <<"queued">> \o more
  <2>1. PICK more \in SeqOf({"hint"}, CodexWindow + 1) : queue = <<"queued">> \o more
    BY <1>2
  <2>2. more \in Seq({"hint"}) /\ Len(more) \in Nat
    BY AnchorsAssumption, BoundedSequence
  <2>3. more \in Seq(CodexRows) /\ \A i \in 1 .. Len(more) : more[i] = "hint"
    BY <2>2 DEF CodexRows
  <2> DEFINE head == <<"queued">>
  <2>4. head \in Seq(CodexRows) /\ Len(head) = 1 /\ head[1] = "queued"
    BY DEF CodexRows
  <2>5. queue = head \o more
    BY <2>1
  <2> HIDE DEF head
  <2>6. queue \in Seq(CodexRows) /\ IsBelow(CodexRows, queue, head, more)
    BY <2>3, <2>4, <2>5, JoinedIsBelow
  <2>7. /\ Len(queue) = 1 + Len(more) /\ queue[1] = "queued"
        /\ \A i \in 1 .. Len(more) : queue[1 + i] = "hint"
    BY <2>2, <2>3, <2>4, <2>6 DEF IsBelow
  <2>8. ASSUME NEW i \in 1 .. Len(queue) PROVE queue[i] \in {"queued", "hint"}
    <3>1. CASE i = 1
      BY <3>1, <2>7
    <3>2. CASE i # 1
      <4>1. i - 1 \in 1 .. Len(more) /\ 1 + (i - 1) = i
        BY <3>2, <2>2, <2>7
      <4> QED
        BY <4>1, <2>7
    <3> QED
      BY <3>1, <3>2
  <2> QED
    BY <2>2, <2>6, <2>7, <2>8
<1> QED
  BY <1>1, <1>2 DEF CodexQueues

\* A screen of Codex: the row that tells, what is attached to it, a queue, the composer.
CodexPaints(rows, n, row, hints, composer) ==
  /\ rows \in Seq(CodexRows) /\ n \in Nat \ {0} /\ rows[n] = row
  /\ n + Len(hints) < composer /\ composer <= Len(rows) /\ composer \in Nat
  /\ \A i \in 1 .. Len(hints) : rows[n + i] = hints[i]
  /\ \A i \in n + Len(hints) + 1 .. composer - 1 : rows[i] \in {"queued", "hint"}
  /\ n + Len(hints) + 1 < composer => rows[n + Len(hints) + 1] = "queued"
  /\ rows[composer] = "composer"
  /\ \A i \in composer + 1 .. Len(rows) : rows[i] \in {"blank", "hint"}

LEMMA CodexPainted ==
  ASSUME NEW above \in Seq(CodexRows), NEW row \in CodexRows, NEW hints \in Seq({"blank", "hint"}),
         NEW queue \in CodexQueues, NEW foot \in Foot
  PROVE  CodexPaints(above \o <<row>> \o hints \o queue \o <<"composer">> \o foot, Len(above) + 1,
                     row, hints, Len(above) + Len(hints) + Len(queue) + 2)
<1> DEFINE one == <<row>>
           box == <<"composer">>
           inner == above \o one \o hints \o queue \o box
           rows == inner \o foot
           n == Len(above) + 1
           h == Len(hints)
           q == Len(queue)
           composer == n + h + q + 1
<1>1. Len(above) \in Nat /\ h \in Nat /\ n \in Nat
  BY LenProperties
<1>2. /\ one \in Seq(CodexRows) /\ Len(one) = 1 /\ one[1] = row
      /\ box \in Seq(CodexRows) /\ Len(box) = 1 /\ box[1] = "composer"
  BY DEF CodexRows
<1>3. hints \in Seq(CodexRows)
  BY DEF CodexRows
<1>4. /\ queue \in Seq(CodexRows) /\ q \in Nat /\ (q > 0 => queue[1] = "queued")
      /\ \A i \in 1 .. q : queue[i] \in {"queued", "hint"}
  BY QueueIs
<1>5. foot \in Seq(CodexRows) /\ Len(foot) \in Nat /\ \A i \in 1 .. Len(foot) : foot[i] \in {"blank", "hint"}
  BY FootIs DEF CodexRows
<1> HIDE DEF one, box
<1>6. Painted(CodexRows, inner, above, one, hints, queue, box)
  BY <1>2, <1>3, <1>4, PartsArePainted
<1> HIDE DEF inner
<1>7. /\ inner \in Seq(CodexRows) /\ Len(inner) = composer /\ Part(inner, n - 1, one) /\ Part(inner, n, hints)
      /\ Part(inner, n + h, queue) /\ Part(inner, composer - 1, box)
  <2>1. /\ Len(above) = n - 1 /\ Len(above) + Len(one) = n /\ Len(above) + Len(one) + Len(hints) = n + h
        /\ Len(above) + Len(one) + Len(hints) + Len(queue) = composer - 1
        /\ Len(above) + Len(one) + Len(hints) + Len(queue) + Len(box) = composer
    BY <1>1, <1>2, <1>4
  <2> HIDE DEF n, h, q, composer
  <2> QED
    BY <1>6, <2>1 DEF Painted
<1>8. n - 1 \in Nat /\ n + h \in Nat /\ composer - 1 \in Nat /\ composer \in Nat
  BY <1>1, <1>4
<1>9. /\ rows \in Seq(CodexRows) /\ Len(rows) = composer + Len(foot) /\ Part(rows, composer, foot)
      /\ Part(rows, n - 1, one) /\ Part(rows, n, hints)
      /\ Part(rows, n + h, queue) /\ Part(rows, composer - 1, box)
  <2> HIDE DEF n, h, q, composer
  <2> QED
    BY <1>1, <1>2, <1>3, <1>4, <1>5, <1>7, <1>8, PartOfMore
<1> HIDE DEF rows
<1>10. rows[n] = row /\ rows[composer] = "composer"
  <2>1. n - 1 + 1 = n /\ composer - 1 + 1 = composer
    BY <1>1, <1>4
  <2> HIDE DEF n, composer
  <2> QED
    BY <1>2, <1>9, <2>1 DEF Part
<1>11. \A i \in 1 .. h : rows[n + i] = hints[i]
  BY <1>9 DEF Part
<1>12. \A i \in n + h + 1 .. composer - 1 : rows[i] \in {"queued", "hint"}
  <2> TAKE i \in n + h + 1 .. composer - 1
  <2>1. i - (n + h) \in 1 .. q /\ (n + h) + (i - (n + h)) = i
    BY <1>1, <1>4
  <2>2. rows[i] = queue[i - (n + h)]
    <3> HIDE DEF n, h
    <3> QED
      BY <1>9, <2>1 DEF Part
  <2> HIDE DEF n, h, composer
  <2> QED
    BY <1>4, <2>1, <2>2
<1>13. n + h + 1 < composer => rows[n + h + 1] = "queued"
  <2> SUFFICES ASSUME n + h + 1 < composer PROVE rows[n + h + 1] = "queued"
    OBVIOUS
  <2>1. q > 0 /\ 1 \in 1 .. q
    BY <1>1, <1>4
  <2> HIDE DEF n, h, composer
  <2> QED
    BY <1>4, <1>9, <2>1 DEF Part
<1>14. \A i \in composer + 1 .. Len(rows) : rows[i] \in {"blank", "hint"}
  <2> TAKE i \in composer + 1 .. Len(rows)
  <2>1. i - composer \in 1 .. Len(foot) /\ composer + (i - composer) = i
    BY <1>5, <1>8, <1>9
  <2> HIDE DEF composer
  <2>2. rows[i] = foot[i - composer]
    BY <1>9, <2>1 DEF Part
  <2> QED
    BY <1>5, <2>1, <2>2
<1>15. /\ n \in Nat \ {0} /\ n + h < composer /\ composer <= Len(rows)
       /\ composer = Len(above) + h + q + 2
  BY <1>1, <1>4, <1>5, <1>9
<1>16. CodexPaints(rows, n, row, hints, composer)
  <2>1. Len(hints) = h /\ composer \in Nat
    BY <1>8
  <2> HIDE DEF n, h, composer
  <2> QED
    BY <1>9, <1>10, <1>11, <1>12, <1>13, <1>14, <1>15, <2>1 DEF CodexPaints
<1>17. rows = above \o <<row>> \o hints \o queue \o <<"composer">> \o foot
  BY DEF rows, inner, one, box
<1>18. CodexPaints(rows, Len(above) + 1, row, hints, Len(above) + Len(hints) + Len(queue) + 2)
  <2>1. n = Len(above) + 1 /\ composer = Len(above) + Len(hints) + Len(queue) + 2
    BY <1>15
  <2> HIDE DEF n, composer
  <2> QED
    BY <1>16, <2>1
<1> QED
  BY <1>17, <1>18

\* The first row above the composer that is no queue and not attached is the one that tells,
\* and what is attached is within the window.
LEMMA CodexStatusIs ==
  ASSUME NEW rows, NEW n, NEW row \in CodexRows \ {"blank", "hint", "option", "queued"},
         NEW hints \in Seq({"blank", "hint"}), NEW composer,
         Count(hints, 1, Len(hints)) <= CodexWindow,
         CodexPaints(rows, n, row, hints, composer)
  PROVE  CodexStatus(rows, composer)
           = IF row \in {"worked", "ran", "working"} THEN Found("codex:" \o row, n) ELSE NotFound
<1> DEFINE h == Len(hints)
           S == {i \in OnScreen(rows) : i < composer
                                      /\ rows[i] \notin (Indented \ {"worked"}) \cup {"queued"}}
           heads == {i \in n + 1 .. composer - 1 : rows[i] = "queued"}
           end == IF heads = {} THEN composer ELSE Highest(heads)
           C == {i \in n + 1 .. end - 1 : rows[i] \in Indented}
           T == OnScreen(hints) \cap 1 .. h
<1>0. /\ h \in Nat /\ DOMAIN hints = 1 .. h /\ Len(rows) \in Nat /\ DOMAIN rows = 1 .. Len(rows)
      /\ n \in Nat /\ n > 0 /\ composer \in Nat /\ n + h < composer /\ composer <= Len(rows)
  BY LenProperties DEF CodexPaints
<1>1. rows[n] = row /\ \A i \in 1 .. h : rows[n + i] = hints[i] /\ hints[i] \in {"blank", "hint"}
  BY <1>0 DEF CodexPaints
<1>2. \A i \in n + 1 .. n + h : rows[i] \in {"blank", "hint"}
  <2> TAKE i \in n + 1 .. n + h
  <2>1. i - n \in 1 .. h /\ n + (i - n) = i
    BY <1>0
  <2> QED
    BY <1>1, <2>1
<1>3. \A i \in n + h + 1 .. composer - 1 : rows[i] \in {"queued", "hint"}
  BY DEF CodexPaints
<1>4. Lowest(S) = n
  <2>1. S \subseteq Nat
    BY <1>0 DEF OnScreen
  <2>2. n \in S
    <3>1. n \in OnScreen(rows)
      BY <1>0, <1>1 DEF OnScreen
    <3>2. n < composer
      BY <1>0
    <3>3. rows[n] \notin (Indented \ {"worked"}) \cup {"queued"}
      BY <1>1 DEF Indented, CodexRows
    <3> QED
      BY <3>1, <3>2, <3>3
  <2>3. ASSUME NEW j \in S PROVE j <= n
    <3>1. rows[j] \notin {"blank", "hint", "queued"} /\ j < composer /\ j \in Nat
      BY <2>1 DEF OnScreen, Indented
    <3>2. ~ (j \in n + 1 .. n + h) /\ ~ (j \in n + h + 1 .. composer - 1)
      BY <1>2, <1>3, <3>1
    <3> QED
      BY <1>0, <3>1, <3>2
  <2> HIDE DEF S
  <2> QED
    BY <2>1, <2>2, <2>3, LowestIs
<1>5. end = n + h + 1
  <2>1. CASE n + h + 1 = composer
    <3>1. heads = {}
      <4> SUFFICES ASSUME NEW i \in n + 1 .. composer - 1 PROVE rows[i] # "queued"
        OBVIOUS
      <4>1. i \in n + 1 .. n + h
        BY <1>0, <2>1
      <4> QED
        BY <4>1, <1>2
    <3> QED
      BY <3>1, <2>1
  <2>2. CASE n + h + 1 < composer
    <3>1. n + h + 1 \in heads
      <4>1. n + h + 1 \in n + 1 .. composer - 1
        BY <1>0, <2>2
      <4>2. rows[n + h + 1] = "queued"
        BY <2>2 DEF CodexPaints
      <4> QED
        BY <4>1, <4>2
    <3>2. heads \subseteq Nat
      BY <1>0
    <3>3. ASSUME NEW j \in heads PROVE n + h + 1 <= j
      <4>1. ~ (j \in n + 1 .. n + h)
        BY <1>2
      <4> QED
        BY <1>0, <4>1
    <3> HIDE DEF heads, h
    <3>4. n + h + 1 \in Nat
      BY <1>0
    <3>5. Highest(heads) = n + h + 1
      BY <3>1, <3>2, <3>3, <3>4, HighestIs
    <3>6. heads # {}
      BY <3>1
    <3> QED
      BY <3>5, <3>6
  <2> QED
    BY <1>0, <2>1, <2>2
<1>6. IsFiniteSet(T) /\ Cardinality(T) \in Nat /\ Cardinality(T) <= CodexWindow
  BY OnScreenIsFinite DEF Count
<1>7. Cardinality(C) <= CodexWindow
  <2>1. C \subseteq Nat
    BY <1>0, <1>5
  <2>2. ASSUME NEW i \in C PROVE i - n \in T
    <3>1. i \in n + 1 .. n + h /\ rows[i] # "blank"
      BY <1>0, <1>5 DEF Indented
    <3>2. i - n \in 1 .. h /\ n + (i - n) = i
      BY <1>0, <3>1
    <3>3. hints[i - n] # "blank"
      BY <1>1, <3>1, <3>2
    <3> QED
      BY <1>0, <3>2, <3>3 DEF OnScreen
  <2> HIDE DEF C, T
  <2>3. IsFiniteSet(C) /\ Cardinality(C) <= Cardinality(T)
    BY <1>0, <1>6, <2>1, <2>2, ShiftedCount
  <2>4. Cardinality(C) \in Nat
    BY <2>3, FS_CardinalityType
  <2> QED
    BY <1>6, <2>3, <2>4, AnchorsAssumption
<1>8. CodexStatus(rows, composer)
        = IF n > 0 /\ Cardinality(C) <= CodexWindow /\ rows[n] \in {"worked", "ran", "working"}
          THEN Found("codex:" \o rows[n], n) ELSE NotFound
  BY <1>4 DEF CodexStatus
<1> HIDE DEF C
<1> QED
  BY <1>0, <1>1, <1>7, <1>8

\* The composer is found, and a menu above it is not taken for a dialog.
LEMMA CodexLooksAt ==
  ASSUME NEW rows, NEW n, NEW row, NEW hints \in Seq({"blank", "hint"}), NEW composer,
         CodexPaints(rows, n, row, hints, composer)
  PROVE  CodexLive(rows) = CodexStatus(rows, composer)
<1> DEFINE K == {i \in DOMAIN rows : rows[i] = "composer"}
           last == Lowest(OnScreen(rows))
           H == {i \in DOMAIN rows : i <= last /\ last < i + MenuRows /\ rows[i] \in {"menu"}}
<1>0. /\ Len(rows) \in Nat /\ DOMAIN rows = 1 .. Len(rows) /\ composer \in Nat
      /\ composer > 0 /\ composer <= Len(rows) /\ rows[composer] = "composer"
      /\ \A i \in composer + 1 .. Len(rows) : rows[i] \in {"blank", "hint"}
  BY LenProperties DEF CodexPaints
<1>1. Lowest(K) = composer
  <2>1. K \subseteq Nat /\ composer \in K
    BY <1>0
  <2>2. ASSUME NEW j \in K PROVE j <= composer
    <3>1. ~ (j \in composer + 1 .. Len(rows))
      BY <1>0
    <3> QED
      BY <1>0, <3>1
  <2> HIDE DEF K
  <2> QED
    BY <2>1, <2>2, LowestIs
<1>2. \A i \in H : i < composer
  <2> TAKE i \in H
  <2>1. i # composer /\ ~ (i \in composer + 1 .. Len(rows)) /\ i \in 1 .. Len(rows)
    BY <1>0
  <2> QED
    BY <1>0, <2>1
<1>3. H \subseteq Nat
  BY <1>0
<1>4. Highest(H) = 0 \/ Highest(H) < composer
  <2> HIDE DEF H
  <2>1. CASE H = {}
    BY <2>1, NoneIsZero
  <2>2. CASE H # {}
    BY <2>2, <1>2, <1>3, HighestExists
  <2> QED
    BY <2>1, <2>2
<1>5. MenuHead(rows, {"menu"}) = Highest(H)
  BY DEF MenuHead
<1>6. CodexApproval(rows) = NotFound
  <2> HIDE DEF H
  <2>1. \A head : (head = Highest(H) /\ head > 0) => composer > head
    BY <1>0, <1>4
  <2>2. composer \in DOMAIN rows
    BY <1>0
  <2> QED
    BY <1>0, <1>5, <2>1, <2>2 DEF CodexApproval
<1> QED
  BY <1>0, <1>1, <1>6 DEF CodexLive

\* A Codex that works, runs or has worked is read from that row over whatever is attached and
\* queued below it, and an idle one not at all (summary.rs:20-30, codex_status).
LEMMA CodexIsRead == CodexRead
<1> SUFFICES ASSUME NEW above \in Conversations(CodexRows), NEW hints \in Attached(CodexWindow),
                    NEW queue \in CodexQueues, NEW foot \in Foot
             PROVE  LET found(row) == CodexLive(above \o <<row>> \o hints \o queue \o <<"composer">> \o foot)
                    IN /\ \A row \in {"working", "ran", "worked"} :
                            found(row) = Found("codex:" \o row, Len(above) + 1)
                       /\ found("prose") = NotFound
  BY DEF CodexRead
<1> DEFINE n == Len(above) + 1
           screen(row) == above \o <<row>> \o hints \o queue \o <<"composer">> \o foot
           composer == Len(above) + Len(hints) + Len(queue) + 2
<1>1. above \in Seq(CodexRows)
  BY AnchorsAssumption, BoundedSequence DEF Conversations
<1>2. hints \in Seq({"blank", "hint"}) /\ Count(hints, 1, Len(hints)) <= CodexWindow
  <2>1. CodexWindow + 1 \in Nat
    BY AnchorsAssumption
  <2> QED
    BY <2>1, BoundedSequence DEF Attached
<1>3. ASSUME NEW row \in CodexRows \ {"blank", "hint", "option", "queued"}
      PROVE  CodexLive(screen(row))
               = IF row \in {"worked", "ran", "working"} THEN Found("codex:" \o row, n) ELSE NotFound
  <2>1. CodexPaints(screen(row), n, row, hints, composer)
    BY <1>1, <1>2, CodexPainted
  <2> HIDE DEF screen, n, composer
  <2>2. CodexLive(screen(row)) = CodexStatus(screen(row), composer)
    BY <1>2, <2>1, CodexLooksAt
  <2>3. CodexStatus(screen(row), composer)
          = IF row \in {"worked", "ran", "working"} THEN Found("codex:" \o row, n) ELSE NotFound
    BY <1>2, <2>1, CodexStatusIs
  <2> QED
    BY <2>2, <2>3
<1>4. {"working", "ran", "worked", "prose"} \subseteq CodexRows \ {"blank", "hint", "option", "queued"}
  BY DEF CodexRows
<1>5. ASSUME NEW row \in {"working", "ran", "worked"}
      PROVE  CodexLive(screen(row)) = Found("codex:" \o row, n)
  <2>1. row \in CodexRows \ {"blank", "hint", "option", "queued"} /\ row \in {"worked", "ran", "working"}
    BY <1>4
  <2> HIDE DEF screen, n
  <2> QED
    BY <1>3, <2>1
<1>6. CodexLive(screen("prose")) = NotFound
  <2>1. "prose" \in CodexRows \ {"blank", "hint", "option", "queued"} /\ "prose" \notin {"worked", "ran", "working"}
    BY <1>4
  <2> HIDE DEF screen, n
  <2> QED
    BY <1>3, <2>1
<1> QED
  BY <1>5, <1>6

\* A menu of Codex: its head, and options above or below it.
LEMMA CodexMenuIs ==
  ASSUME NEW box \in CodexMenus
  PROVE  /\ box \in Seq(CodexRows) /\ Len(box) \in 2 .. 3
         /\ \E k \in 1 .. 2 : box[k] = "menu" /\ \A i \in 1 .. Len(box) : i # k => box[i] = "option"
<1>1. CASE box = <<"menu", "option">>
  <2>1. box \in Seq(CodexRows) /\ Len(box) = 2 /\ box[1] = "menu" /\ box[2] = "option"
    BY <1>1 DEF CodexRows
  <2>2. \A i \in 1 .. Len(box) : i # 1 => box[i] = "option"
    BY <2>1
  <2> QED
    BY <2>1, <2>2
<1>2. CASE box = <<"option", "menu">>
  <2>1. box \in Seq(CodexRows) /\ Len(box) = 2 /\ box[1] = "option" /\ box[2] = "menu"
    BY <1>2 DEF CodexRows
  <2>2. \A i \in 1 .. Len(box) : i # 2 => box[i] = "option"
    BY <2>1
  <2> QED
    BY <2>1, <2>2
<1>3. CASE box = <<"option", "menu", "option">>
  <2>1. /\ box \in Seq(CodexRows) /\ Len(box) = 3
        /\ box[1] = "option" /\ box[2] = "menu" /\ box[3] = "option"
    BY <1>3 DEF CodexRows
  <2>2. \A i \in 1 .. Len(box) : i # 2 => box[i] = "option"
    BY <2>1
  <2> QED
    BY <2>1, <2>2
<1> QED
  BY <1>1, <1>2, <1>3 DEF CodexMenus

\* A dialog of Codex is found at its head, unless another one is in reach above it.
LEMMA CodexDialogIsRead == CodexAsks
<1> SUFFICES ASSUME NEW above \in Conversations(CodexRows), NEW box \in CodexMenus, NEW foot \in Gaps,
                    ~ HeadAbove(above, {"menu"}, Len(above) + Len(box))
             PROVE  LET rows == above \o box \o foot
                    IN CodexLive(rows)
                         = Found("codex:approval-menu", Lowest({i \in DOMAIN rows : rows[i] = "menu"}))
  BY DEF CodexAsks
<1> DEFINE inner == above \o box
           rows == inner \o foot
           a == Len(above)
           m == Len(box)
           last == a + m
           M == {i \in DOMAIN rows : rows[i] = "menu"}
<1>1. above \in Seq(CodexRows) /\ a \in Nat
  BY AnchorsAssumption, BoundedSequence, LenProperties DEF Conversations
<1>2. /\ above \in Seq(CodexRows)
      /\ \A i \in 1 .. a : above[i] \in {"menu"} => ~ (last < i + MenuRows)
  BY <1>1 DEF HeadAbove
<1>3. foot \in Seq(CodexRows) /\ Len(foot) \in 0 .. 1 /\ \A i \in 1 .. Len(foot) : foot[i] = "blank"
  BY GapIs DEF CodexRows
<1>4. box \in Seq(CodexRows) /\ Len(box) \in 2 .. 3
  BY CodexMenuIs
<1>25. m = 2 \/ m = 3
  BY <1>4
<1>5. PICK k \in 1 .. 2 : box[k] = "menu" /\ \A i \in 1 .. Len(box) : i # k => box[i] = "option"
  BY CodexMenuIs
<1>6. /\ inner \in Seq(CodexRows) /\ Len(inner) = last /\ Part(inner, 0, above) /\ Part(inner, a, box)
  BY <1>2, <1>4, PartOfMore
<1> HIDE DEF inner
<1>7. last \in Nat
  BY <1>1, <1>4
<1>8. /\ rows \in Seq(CodexRows) /\ Len(rows) = last + Len(foot) /\ Part(rows, last, foot)
      /\ Part(rows, 0, above) /\ Part(rows, a, box)
  <2> HIDE DEF last, a
  <2> QED
    BY <1>1, <1>2, <1>3, <1>4, <1>6, PartOfMore
<1>9. rows = above \o box \o foot
  BY DEF inner
<1> HIDE DEF rows
<1> DEFINE head == a + k
<1>10. /\ Len(rows) \in Nat /\ DOMAIN rows = 1 .. Len(rows) /\ head \in Nat /\ 1 <= head /\ head <= last
       /\ last <= head + 2 /\ last <= Len(rows) /\ k \in 1 .. Len(box)
  <2>1. k = 1 \/ k = 2
    OBVIOUS
  <2>2. head \in Nat /\ 1 <= head /\ head <= last /\ last <= head + 2 /\ k \in 1 .. m
    <3> HIDE DEF a, m
    <3> QED
      BY <1>1, <1>25, <2>1
  <2>3. Len(rows) \in Nat /\ DOMAIN rows = 1 .. Len(rows) /\ last <= Len(rows)
    BY <1>3, <1>7, <1>8, LenProperties
  <2> QED
    BY <2>2, <2>3
<1>11. rows[head] = "menu"
  BY <1>5, <1>8, <1>10 DEF Part
<1>12. ASSUME NEW i \in 1 .. a PROVE rows[i] = above[i]
  BY <1>2, <1>8 DEF Part
<1>13. ASSUME NEW i \in a + 1 .. last, i # head PROVE rows[i] = "option"
  <2>1. i - a \in 1 .. Len(box) /\ a + (i - a) = i /\ i - a # k
    BY <1>1, <1>4, <1>13
  <2>2. rows[i] = box[i - a]
    <3> HIDE DEF a
    <3> QED
      BY <1>8, <2>1 DEF Part
  <2> QED
    BY <1>5, <2>1, <2>2
<1>14. ASSUME NEW i \in last + 1 .. Len(rows) PROVE rows[i] = "blank"
  <2>1. i - last \in 1 .. Len(foot) /\ last + (i - last) = i
    BY <1>3, <1>7, <1>8
  <2> HIDE DEF last
  <2>2. rows[i] = foot[i - last]
    BY <1>8, <2>1 DEF Part
  <2> QED
    BY <1>3, <2>1, <2>2
<1>15. ASSUME NEW i \in 1 .. Len(rows), rows[i] = "menu" PROVE i \in 1 .. a \/ i = head
  <2>1. ~ (i \in a + 1 .. last /\ i # head) /\ ~ (i \in last + 1 .. Len(rows))
    BY <1>13, <1>14, <1>15
  <2> QED
    BY <1>1, <1>7, <1>10, <2>1
<1>16. Lowest(M) = head
  <2>1. M \subseteq Nat /\ head \in M /\ \A j \in M : j <= head
    BY <1>1, <1>7, <1>10, <1>11, <1>15
  <2> HIDE DEF M, head
  <2> QED
    BY <2>1, LowestIs
<1>17. rows[last] # "blank"
  <2>1. CASE last = head
    BY <1>11, <2>1
  <2>2. CASE last # head
    <3>1. last \in a + 1 .. last
      <4> HIDE DEF a, m
      <4> QED
        BY <1>1, <1>25
    <3> HIDE DEF last, head
    <3>2. rows[last] = "option"
      BY <1>13, <2>2, <3>1
    <3> QED
      BY <3>2
  <2> QED
    BY <2>1, <2>2
<1>18. MenuHead(rows, {"menu"}) = head
  <2> DEFINE heads == {"menu"}
  <2>1. rows[head] \in heads
    BY <1>11
  <2>2. ASSUME NEW j \in 1 .. head - 1, rows[j] \in heads PROVE ~ (last < j + MenuRows)
    <3>1. j \in 1 .. Len(rows) /\ j # head
      BY <1>7, <1>10
    <3>2. j \in 1 .. a
      BY <1>15, <2>2, <3>1
    <3> HIDE DEF last, a
    <3> QED
      BY <1>2, <1>12, <2>2, <3>2
  <2>3. last < head + MenuRows
    BY <1>7, <1>10, AnchorsAssumption
  <2> HIDE DEF heads, head, last
  <2>4. MenuHead(rows, heads) = head
    BY <1>7, <1>8, <1>10, <1>14, <1>17, <2>1, <2>2, <2>3, MenuHeadIs
  <2> QED
    BY <2>4 DEF heads
<1>19. \E i \in Siblings(rows, head) : In(rows, i, {"option"})
  <2>1. CASE k = 1
    <3>1. head + 1 \in a + 1 .. last /\ head + 1 # head /\ head + 1 \in Nat
      <4> HIDE DEF a, m
      <4> QED
        BY <1>1, <1>25, <2>1
    <3>2. rows[head + 1] = "option"
      BY <1>13, <3>1
    <3>3. head < head + 1 /\ head + 1 <= Len(rows) /\ \A j \in head + 1 .. head + 1 - 1 : rows[j] = "blank"
      BY <1>10, <1>7, <3>1
    <3> HIDE DEF head
    <3>4. NextDown(rows, head) = head + 1
      <4>1. rows[head + 1] # "blank"
        BY <3>2
      <4> HIDE DEF last, a, M
      <4> QED
        BY <1>8, <1>10, <3>1, <3>3, <4>1, NextDownIs
    <3>5. In(rows, head + 1, {"option"})
      BY <1>10, <3>1, <3>2 DEF In
    <3> QED
      BY <3>4, <3>5 DEF Siblings
  <2>2. CASE k = 2
    <3>1. head - 1 \in a + 1 .. last /\ head - 1 # head /\ head - 1 \in Nat /\ 1 <= head - 1
      <4> HIDE DEF a, m
      <4> QED
        BY <1>1, <1>25, <2>2
    <3>2. rows[head - 1] = "option"
      BY <1>13, <3>1
    <3>3. head - 1 < head /\ head <= Len(rows) + 1 /\ \A j \in head - 1 + 1 .. head - 1 : rows[j] = "blank"
      BY <1>10, <1>7, <3>1
    <3> HIDE DEF head
    <3>4. NextUp(rows, head) = head - 1
      <4>1. rows[head - 1] # "blank"
        BY <3>2
      <4> QED
        BY <1>8, <1>10, <3>1, <3>3, <4>1, NextUpIs
    <3>5. In(rows, head - 1, {"option"})
      BY <1>10, <3>1, <3>2 DEF In
    <3> QED
      BY <3>4, <3>5 DEF Siblings
  <2> QED
    BY <2>1, <2>2
<1>20. \A i \in DOMAIN rows : i > head => rows[i] # "composer"
  <2> SUFFICES ASSUME NEW i \in 1 .. Len(rows), i > head PROVE rows[i] # "composer"
    BY <1>10
  <2>1. (i \in a + 1 .. last /\ i # head) \/ i \in last + 1 .. Len(rows)
    BY <1>1, <1>7, <1>10
  <2>2. rows[i] = "option" \/ rows[i] = "blank"
    BY <1>13, <1>14, <2>1
  <2> QED
    BY <2>2
<1>21. CodexApproval(rows) = Found("codex:approval-menu", head)
  <2>1. head > 0
    BY <1>10
  <2> HIDE DEF head
  <2> QED
    BY <1>18, <1>19, <1>20, <2>1 DEF CodexApproval
<1>22. CodexApproval(rows) # NotFound
  BY <1>21 DEF NotFound, Found
<1>23. CodexLive(rows) = Found("codex:approval-menu", head)
  BY <1>21, <1>22 DEF CodexLive
<1>24. CodexLive(rows) = Found("codex:approval-menu", Lowest(M))
  BY <1>16, <1>23
<1> HIDE DEF head
<1> QED
  BY <1>9, <1>24

-----------------------------------------------------------------------------
(* Grok.                                                                   *)

\* A panel of tasks, or none: its header, its tasks and a blank row.
LEMMA PanelIs ==
  ASSUME NEW panel \in GrokPanels
  PROVE  /\ panel \in Seq(GrokRows) /\ Len(panel) \in Nat
         /\ Len(panel) = 0
            \/ /\ Len(panel) >= 2 /\ panel[1] = "tasks" /\ panel[Len(panel)] = "blank"
               /\ \A i \in 2 .. Len(panel) - 1 : panel[i] = "prose"
<1>1. CASE panel = <<>>
  BY <1>1
<1>2. CASE \E more \in SeqOf({"prose"}, 2) : panel = <<"tasks">> \o more \o <<"blank">>
  <2>1. PICK more \in SeqOf({"prose"}, 2) : panel = <<"tasks">> \o more \o <<"blank">>
    BY <1>2
  <2>2. more \in Seq({"prose"}) /\ Len(more) \in Nat
    BY BoundedSequence
  <2>3. more \in Seq(GrokRows) /\ \A i \in 1 .. Len(more) : more[i] = "prose"
    BY <2>2 DEF GrokRows
  <2> DEFINE head == <<"tasks">>
             both == head \o more
             foot == <<"blank">>
  <2>4. /\ head \in Seq(GrokRows) /\ Len(head) = 1 /\ head[1] = "tasks"
        /\ foot \in Seq(GrokRows) /\ Len(foot) = 1 /\ foot[1] = "blank"
    BY DEF GrokRows
  <2> HIDE DEF head, foot
  <2>5. both \in Seq(GrokRows) /\ Len(both) = 1 + Len(more) /\ Part(both, 0, head) /\ Part(both, 1, more)
    BY <2>3, <2>4, PartOfMore
  <2>6. panel = both \o foot
    BY <2>1 DEF head, foot
  <2> HIDE DEF both
  <2>7. /\ panel \in Seq(GrokRows) /\ Len(panel) = 2 + Len(more)
        /\ Part(panel, 0, head) /\ Part(panel, 1, more) /\ Part(panel, 1 + Len(more), foot)
    <3>1. Len(both) = 1 + Len(more) /\ 1 \in Nat /\ 0 \in Nat
      BY <2>5
    <3>2. /\ panel \in Seq(GrokRows) /\ Len(panel) = Len(both) + 1
          /\ Part(panel, 0, head) /\ Part(panel, 1, more) /\ Part(panel, Len(both), foot)
      <4>1. 1 \in Nat /\ 0 \in Nat
        OBVIOUS
      <4>2. /\ panel \in Seq(GrokRows) /\ Len(panel) = Len(both) + Len(foot) /\ Part(panel, Len(both), foot)
            /\ \A off \in Nat : \A p \in Seq(GrokRows) : Part(both, off, p) => Part(panel, off, p)
        BY <2>4, <2>5, <2>6, PartOfMore
      <4>3. Part(panel, 0, head) /\ Part(panel, 1, more)
        BY <2>3, <2>4, <2>5, <4>1, <4>2
      <4> QED
        BY <2>4, <4>2, <4>3
    <3> QED
      BY <2>2, <3>1, <3>2
  <2>8. panel[1] = "tasks"
    BY <2>4, <2>7 DEF Part
  <2>9. panel[Len(panel)] = "blank"
    BY <2>2, <2>4, <2>7 DEF Part
  <2>10. ASSUME NEW i \in 2 .. Len(panel) - 1 PROVE panel[i] = "prose"
    <3>1. i - 1 \in 1 .. Len(more) /\ 1 + (i - 1) = i
      BY <2>2, <2>7
    <3> QED
      BY <2>3, <2>7, <3>1 DEF Part
  <2> QED
    BY <2>2, <2>7, <2>8, <2>9, <2>10
<1> QED
  BY <1>1, <1>2 DEF GrokPanels

\* A screen of Grok: the row that tells, blank rows up to p, a panel of tasks, the box.
GrokPaints(rows, n, row, p, panel, top) ==
  /\ rows \in Seq(GrokRows) /\ n \in Nat /\ p \in Nat /\ 1 < n /\ n < p
  /\ rows[n - 1] = "blank" /\ rows[n] = row
  /\ \A i \in n + 1 .. p : rows[i] = "blank"
  /\ \A i \in 1 .. Len(panel) : rows[p + i] = panel[i]
  /\ top = p + Len(panel) + 1 /\ top + 2 <= Len(rows)
  /\ rows[top] = "top" /\ rows[top + 1] = "side" /\ rows[top + 2] = "bottom"
  /\ \A i \in top + 3 .. Len(rows) : rows[i] = "blank"

LEMMA GrokPainted ==
  ASSUME NEW above \in Seq(GrokRows), NEW row \in GrokRows, NEW gap \in Gaps, NEW panel \in GrokPanels
  PROVE  GrokPaints(above \o <<"blank", row>> \o gap \o <<"blank">> \o panel \o GrokBox \o gap,
                    Len(above) + 2, row, Len(above) + Len(gap) + 3, panel,
                    Len(above) + Len(gap) + Len(panel) + 4)
<1> DEFINE two == <<"blank", row>>
           one == <<"blank">>
           inner == above \o two \o gap \o one \o panel
           box == GrokBox
           outer == inner \o box
           rows == outer \o gap
           a == Len(above)
           g == Len(gap)
           q == Len(panel)
           n == a + 2
           p == a + g + 3
           top == a + g + q + 4
<1>1. a \in Nat
  BY LenProperties
<1>2. /\ two \in Seq(GrokRows) /\ Len(two) = 2 /\ two[1] = "blank" /\ two[2] = row
      /\ one \in Seq(GrokRows) /\ Len(one) = 1 /\ one[1] = "blank"
  BY DEF GrokRows
<1>3. /\ box \in Seq(GrokRows) /\ Len(box) = 3
      /\ box[1] = "top" /\ box[2] = "side" /\ box[3] = "bottom"
  BY DEF GrokRows, GrokBox
<1>4. gap \in Seq(GrokRows) /\ g \in Nat /\ \A i \in 1 .. g : gap[i] = "blank"
  BY GapIs DEF GrokRows
<1>5. panel \in Seq(GrokRows) /\ q \in Nat
  BY PanelIs
<1> HIDE DEF two, one, box
<1>6. Painted(GrokRows, inner, above, two, gap, one, panel)
  BY <1>2, <1>4, <1>5, PartsArePainted
<1> HIDE DEF inner
<1>7. /\ inner \in Seq(GrokRows) /\ Len(inner) = top - 1 /\ Part(inner, a, two) /\ Part(inner, n, gap)
      /\ Part(inner, p - 1, one) /\ Part(inner, p, panel)
  <2>1. /\ Len(above) = a /\ Len(above) + Len(two) = n /\ Len(above) + Len(two) + Len(gap) = p - 1
        /\ Len(above) + Len(two) + Len(gap) + Len(one) = p
        /\ Len(above) + Len(two) + Len(gap) + Len(one) + Len(panel) = top - 1
    BY <1>1, <1>2, <1>4, <1>5
  <2> HIDE DEF a, g, q, n, p, top
  <2> QED
    BY <1>6, <2>1 DEF Painted
<1>8. n \in Nat /\ p \in Nat /\ p - 1 \in Nat /\ top \in Nat /\ top - 1 \in Nat
  BY <1>1, <1>4, <1>5
<1>9. /\ outer \in Seq(GrokRows) /\ Len(outer) = top + 2 /\ Part(outer, a, two) /\ Part(outer, n, gap)
      /\ Part(outer, p - 1, one) /\ Part(outer, p, panel) /\ Part(outer, top - 1, box)
  <2> HIDE DEF a, g, q, n, p, top
  <2>1. /\ outer \in Seq(GrokRows) /\ Len(outer) = Len(inner) + Len(box) /\ Part(outer, Len(inner), box)
        /\ \A off \in Nat : \A x \in Seq(GrokRows) : Part(inner, off, x) => Part(outer, off, x)
    BY <1>3, <1>7, PartOfMore
  <2>2. Len(outer) = top + 2
    BY <1>3, <1>7, <1>8, <2>1
  <2>3. Part(outer, a, two) /\ Part(outer, n, gap) /\ Part(outer, p - 1, one) /\ Part(outer, p, panel)
    BY <1>1, <1>2, <1>4, <1>5, <1>7, <1>8, <2>1
  <2> QED
    BY <1>7, <2>1, <2>2, <2>3
<1> HIDE DEF outer
<1>10. top + 2 \in Nat
  BY <1>8
<1>11. /\ rows \in Seq(GrokRows) /\ Len(rows) = top + 2 + g /\ Part(rows, a, two) /\ Part(rows, n, gap)
       /\ Part(rows, p - 1, one) /\ Part(rows, p, panel) /\ Part(rows, top - 1, box)
       /\ Part(rows, top + 2, gap)
  <2>0. Len(gap) = g
    OBVIOUS
  <2> HIDE DEF a, g, q, n, p, top
  <2>1. /\ rows \in Seq(GrokRows) /\ Len(rows) = Len(outer) + Len(gap) /\ Part(rows, Len(outer), gap)
        /\ \A off \in Nat : \A x \in Seq(GrokRows) : Part(outer, off, x) => Part(rows, off, x)
    BY <1>4, <1>9, PartOfMore
  <2>2. /\ Part(rows, a, two) /\ Part(rows, n, gap) /\ Part(rows, p - 1, one) /\ Part(rows, p, panel)
        /\ Part(rows, top - 1, box)
    BY <1>1, <1>2, <1>3, <1>4, <1>5, <1>8, <1>9, <2>1
  <2> QED
    BY <1>9, <2>0, <2>1, <2>2
<1> HIDE DEF rows
<1>12. rows[n - 1] = "blank" /\ rows[n] = row
  <2>1. a + 1 = n - 1 /\ a + 2 = n
    BY <1>1
  <2> HIDE DEF a, n
  <2> QED
    BY <1>2, <1>11, <2>1 DEF Part
<1>13. \A i \in n + 1 .. p : rows[i] = "blank"
  <2> TAKE i \in n + 1 .. p
  <2>1. CASE i = p
    <3>1. p - 1 + 1 = p
      BY <1>8
    <3> HIDE DEF p
    <3> QED
      BY <1>2, <1>11, <2>1, <3>1 DEF Part
  <2>2. CASE i # p
    <3>1. i - n \in 1 .. g /\ n + (i - n) = i
      BY <1>1, <1>4, <2>2
    <3>2. rows[i] = gap[i - n]
      <4> HIDE DEF n
      <4> QED
        BY <1>11, <3>1 DEF Part
    <3> HIDE DEF n, g
    <3> QED
      BY <1>4, <3>1, <3>2
  <2> QED
    BY <2>1, <2>2
<1>14. \A i \in 1 .. Len(panel) : rows[p + i] = panel[i]
  BY <1>11 DEF Part
<1>15. rows[top] = "top" /\ rows[top + 1] = "side" /\ rows[top + 2] = "bottom"
  <2>1. top - 1 + 1 = top /\ top - 1 + 2 = top + 1 /\ top - 1 + 3 = top + 2
    BY <1>8
  <2> HIDE DEF top
  <2>2. rows[top - 1 + 1] = box[1] /\ rows[top - 1 + 2] = box[2] /\ rows[top - 1 + 3] = box[3]
    BY <1>3, <1>11 DEF Part
  <2> QED
    BY <1>3, <2>1, <2>2
<1>16. \A i \in top + 3 .. Len(rows) : rows[i] = "blank"
  <2> TAKE i \in top + 3 .. Len(rows)
  <2>1. i - (top + 2) \in 1 .. g /\ (top + 2) + (i - (top + 2)) = i
    BY <1>4, <1>8, <1>11
  <2>2. rows[i] = gap[i - (top + 2)]
    <3> HIDE DEF top
    <3> QED
      BY <1>11, <2>1 DEF Part
  <2> HIDE DEF top, g
  <2> QED
    BY <1>4, <2>1, <2>2
<1>17. 1 < n /\ n < p /\ top = p + Len(panel) + 1 /\ top + 2 <= Len(rows)
  BY <1>1, <1>4, <1>5, <1>11
<1>18. GrokPaints(rows, n, row, p, panel, top)
  <2> HIDE DEF n, p, top
  <2> QED
    BY <1>8, <1>11, <1>12, <1>13, <1>14, <1>15, <1>16, <1>17 DEF GrokPaints
<1>19. rows = above \o <<"blank", row>> \o gap \o <<"blank">> \o panel \o GrokBox \o gap
  BY DEF rows, outer, inner, two, one, box
<1> QED
  BY <1>18, <1>19

\* The row above the box, or above its panel, is the one that tells.
LEMMA GrokLooksAt ==
  ASSUME NEW rows, NEW n, NEW row \in GrokRows \ {"blank", "tasks"}, NEW p, NEW panel \in GrokPanels, NEW top,
         GrokPaints(rows, n, row, p, panel, top)
  PROVE  GrokLive(rows) = IF row \in {"spinner", "worked"} THEN Found("grok:" \o row, n) ELSE NotFound
<1> DEFINE q == Len(panel)
           first == NextUp(rows, top)
           H == {i \in 1 .. first : rows[i] = "tasks" /\ i .. first \subseteq OnScreen(rows)}
           probe == IF Lowest(H) > 0 THEN NextUp(rows, Lowest(H)) ELSE first
<1>0. /\ rows \in Seq(GrokRows) /\ Len(rows) \in Nat /\ DOMAIN rows = 1 .. Len(rows)
      /\ n \in Nat /\ p \in Nat /\ 1 < n /\ n < p /\ q \in Nat
      /\ top = p + q + 1 /\ top + 2 <= Len(rows)
  BY LenProperties, PanelIs DEF GrokPaints
<1>1. /\ rows[n - 1] = "blank" /\ rows[n] = row /\ rows[n] # "blank"
      /\ \A i \in n + 1 .. p : rows[i] = "blank"
      /\ \A i \in 1 .. q : rows[p + i] = panel[i]
  BY DEF GrokPaints
<1>2. BoxTop(rows, "top", "bottom", {"side"}) = top
  <2> DEFINE head == "top"
             foot == "bottom"
             inside == {"side"}
             bottom == top + 2
  <2>1. /\ rows[top] = head /\ rows[bottom] = foot
        /\ \A i \in bottom + 1 .. Len(rows) : rows[i] # foot
    <3>1. \A i \in top + 3 .. Len(rows) : rows[i] = "blank"
      BY DEF GrokPaints
    <3>2. bottom + 1 = top + 3
      BY <1>0
    <3> QED
      BY <3>1, <3>2 DEF GrokPaints
  <2>2. \A i \in top + 1 .. bottom - 1 : rows[i] # head
    <3>1. \A i \in top + 1 .. bottom - 1 : i = top + 1
      BY <1>0
    <3> QED
      BY <3>1 DEF GrokPaints
  <2>3. \E i \in top + 1 .. bottom - 1 : rows[i] \in inside
    <3>1. top + 1 \in top + 1 .. bottom - 1
      BY <1>0
    <3>2. rows[top + 1] \in inside
      BY DEF GrokPaints
    <3> QED
      BY <3>1, <3>2
  <2>4. /\ top \in Nat /\ bottom \in Nat /\ 1 <= top /\ top < bottom /\ bottom <= Len(rows)
        /\ bottom <= top + BoxRows
    BY <1>0, AnchorsAssumption
  <2> HIDE DEF head, foot, inside, bottom
  <2>5. BoxTop(rows, head, foot, inside) = top
    BY <1>0, <2>1, <2>2, <2>3, <2>4, BoxTopIs
  <2> QED
    BY <2>5 DEF head, foot, inside
<1>3. probe = n
  <2>1. CASE q = 0
    <3>1. first = n
      <4>1. /\ top \in Nat /\ 1 <= n /\ n < top /\ top <= Len(rows) + 1
            /\ \A j \in n + 1 .. top - 1 : rows[j] = "blank"
        BY <1>0, <1>1, <2>1
      <4> QED
        BY <1>0, <1>1, <4>1, NextUpIs
    <3>2. H = {}
      <4> SUFFICES ASSUME NEW i \in 1 .. n, rows[i] = "tasks", i .. n \subseteq OnScreen(rows) PROVE FALSE
        BY <3>1
      <4>1. i # n
        BY <1>1
      <4>2. n - 1 \in i .. n
        BY <1>0, <4>1
      <4>3. n - 1 \notin OnScreen(rows)
        BY <1>1 DEF OnScreen
      <4> QED
        BY <4>2, <4>3
    <3> HIDE DEF H
    <3> QED
      BY <3>1, <3>2, NoneIsZero
  <2>2. CASE q > 0
    <3>1. /\ q >= 2 /\ panel[1] = "tasks" /\ panel[q] = "blank"
          /\ \A i \in 2 .. q - 1 : panel[i] = "prose"
      BY <1>0, <2>2, PanelIs
    <3> DEFINE last == p + q - 1
    <3>2. /\ last \in Nat /\ p + 1 \in Nat /\ p + 1 <= last /\ last < top /\ top \in Nat
          /\ 1 <= last /\ top <= Len(rows) + 1 /\ last <= Len(rows)
      BY <1>0, <3>1
    <3>3. rows[p + 1] = "tasks"
      BY <1>0, <1>1, <3>1
    <3>4. ASSUME NEW i \in p + 2 .. last PROVE rows[i] = "prose"
      <4>1. i - p \in 1 .. q /\ i - p \in 2 .. q - 1 /\ p + (i - p) = i
        BY <1>0, <3>1
      <4> QED
        BY <1>1, <3>1, <4>1
    <3>5. rows[last + 1] = "blank"
      <4>1. q \in 1 .. q /\ p + q = last + 1
        BY <1>0, <3>1
      <4> QED
        BY <1>1, <3>1, <4>1
    <3>6. ASSUME NEW i \in p + 1 .. last PROVE rows[i] \in {"tasks", "prose"} /\ i \in OnScreen(rows)
      <4>1. i = p + 1 \/ i \in p + 2 .. last
        BY <1>0
      <4>2. rows[i] \in {"tasks", "prose"}
        <5> HIDE DEF last
        <5> QED
          BY <3>3, <3>4, <4>1
      <4>3. i \in DOMAIN rows
        BY <1>0, <3>2
      <4> QED
        BY <4>2, <4>3 DEF OnScreen
    <3>7. first = last
      <4>1. rows[last] # "blank"
        <5>1. last \in p + 1 .. last
          BY <1>0, <3>1
        <5> HIDE DEF last
        <5> QED
          BY <3>6, <5>1
      <4>2. \A j \in last + 1 .. top - 1 : j = last + 1
        BY <1>0, <3>1
      <4>3. \A j \in last + 1 .. top - 1 : rows[j] = "blank"
        BY <3>5, <4>2
      <4> HIDE DEF last
      <4> QED
        BY <1>0, <3>2, <4>1, <4>3, NextUpIs
    <3>8. Lowest(H) = p + 1
      <4>1. H \subseteq Nat
        OBVIOUS
      <4>2. p + 1 \in H
        <5>1. p + 1 \in 1 .. first
          BY <1>0, <3>2, <3>7
        <5>2. p + 1 .. first \subseteq OnScreen(rows)
          <6> HIDE DEF last, first
          <6> QED
            BY <3>6, <3>7
        <5> QED
          BY <3>3, <5>1, <5>2
      <4>3. ASSUME NEW j \in H PROVE j <= p + 1
        <5>1. rows[j] # "prose" /\ j \in 1 .. last
          BY <3>7
        <5>2. ~ (j \in p + 2 .. last)
          <6> HIDE DEF last, H
          <6> QED
            BY <3>4, <5>1
        <5> QED
          BY <1>0, <3>2, <5>1, <5>2
      <4> HIDE DEF H
      <4> QED
        BY <1>0, <4>1, <4>2, <4>3, LowestIs
    <3>9. NextUp(rows, p + 1) = n
      <4>1. /\ p + 1 \in Nat /\ 1 <= n /\ n < p + 1 /\ p + 1 <= Len(rows) + 1
            /\ \A j \in n + 1 .. p + 1 - 1 : rows[j] = "blank"
        BY <1>0, <1>1
      <4> QED
        BY <1>0, <1>1, <4>1, NextUpIs
    <3>10. p + 1 > 0
      BY <1>0
    <3> HIDE DEF H
    <3> QED
      BY <3>8, <3>9, <3>10
  <2> QED
    BY <1>0, <2>1, <2>2
<1>4. GrokLive(rows) = IF In(rows, probe, {"spinner", "worked"})
                       THEN Found("grok:" \o rows[probe], probe) ELSE NotFound
  BY <1>2 DEF GrokLive
<1>5. In(rows, n, {"spinner", "worked"}) <=> row \in {"spinner", "worked"}
  BY <1>0, <1>1 DEF In
<1> HIDE DEF probe
<1> QED
  BY <1>1, <1>3, <1>4, <1>5

\* The same of Grok, with and without tasks in the background (summary.rs:20-30).
LEMMA GrokIsRead == GrokRead
<1> SUFFICES ASSUME NEW above \in Conversations(GrokRows), NEW gap \in Gaps, NEW panel \in GrokPanels
             PROVE  LET found(row) ==
                          GrokLive(above \o <<"blank", row>> \o gap \o <<"blank">> \o panel \o GrokBox \o gap)
                    IN /\ \A row \in {"spinner", "worked"} : found(row) = Found("grok:" \o row, Len(above) + 2)
                       /\ found("prose") = NotFound
  BY DEF GrokRead
<1> DEFINE n == Len(above) + 2
           screen(row) == above \o <<"blank", row>> \o gap \o <<"blank">> \o panel \o GrokBox \o gap
           p == Len(above) + Len(gap) + 3
           top == Len(above) + Len(gap) + Len(panel) + 4
<1>1. above \in Seq(GrokRows)
  BY AnchorsAssumption, BoundedSequence DEF Conversations
<1>2. ASSUME NEW row \in GrokRows \ {"blank", "tasks"}
      PROVE  GrokLive(screen(row))
               = IF row \in {"spinner", "worked"} THEN Found("grok:" \o row, n) ELSE NotFound
  <2>1. GrokPaints(screen(row), n, row, p, panel, top)
    BY <1>1, GrokPainted
  <2> HIDE DEF screen, n, p, top
  <2> QED
    BY <2>1, GrokLooksAt
<1>3. {"spinner", "worked", "prose"} \subseteq GrokRows \ {"blank", "tasks"}
  BY DEF GrokRows
<1>4. ASSUME NEW row \in {"spinner", "worked"} PROVE GrokLive(screen(row)) = Found("grok:" \o row, n)
  <2>1. row \in GrokRows \ {"blank", "tasks"}
    BY <1>3
  <2> HIDE DEF screen, n
  <2> QED
    BY <1>2, <2>1
<1>5. GrokLive(screen("prose")) = NotFound
  <2>1. "prose" \in GrokRows \ {"blank", "tasks"} /\ "prose" \notin {"spinner", "worked"}
    BY <1>3
  <2> HIDE DEF screen, n
  <2> QED
    BY <1>2, <2>1
<1> QED
  BY <1>4, <1>5

\* An agent's status is read where the agent puts it, on screens of any height and for windows of
\* any size: a working, waiting or idle one whatever its conversation quotes or keeps, one that asks
\* unless the conversation has another head of a menu in reach or, Claude's, quotes an input box;
\* and Codex's unless what is typed into its composer begins as a menu (summary.rs:20-30).
THEOREM StatusIsFound == AnchorsHold
BY ClaudeIsRead, ClaudeDialogIsRead, CodexIsRead, CodexDialogIsRead, GrokIsRead DEF AnchorsHold

-----------------------------------------------------------------------------
(* The serializer of screens. A stream is replayed one operation after     *)
(* the other, and its parts one after the other.                           *)

\* f is the terminal after each of the first n operations.
Replays(f, t, ops, n) == f = [i \in 0 .. n |-> IF i = 0 THEN t ELSE Apply(f[i - 1], ops[i])]

LEMMA ReplaysStep ==
  ASSUME NEW t, NEW ops, NEW n \in Nat, NEW f, Replays(f, t, ops, n)
  PROVE  /\ f[0] = t
         /\ \A i \in 1 .. n : f[i] = Apply(f[i - 1], ops[i])
<1>1. \A i \in 0 .. n : f[i] = IF i = 0 THEN t ELSE Apply(f[i - 1], ops[i])
  BY DEF Replays
<1>2. 0 \in 0 .. n /\ \A i \in 1 .. n : i \in 0 .. n /\ i # 0
  OBVIOUS
<1> QED
  BY <1>1, <1>2

LEMMA ReplaysExist ==
  ASSUME NEW t, NEW ops, NEW n \in Nat
  PROVE  \E f : Replays(f, t, ops, n)
<1> DEFINE S == {i \in 0 .. n : \E f : Replays(f, t, ops, i)}
<1>1. 0 \in S
  <2> DEFINE f == [i \in 0 .. 0 |-> t]
  <2>1. Replays(f, t, ops, 0)
    <3>1. \A i \in 0 .. 0 : i = 0
      OBVIOUS
    <3>2. f = [i \in 0 .. 0 |-> IF i = 0 THEN t ELSE Apply(f[i - 1], ops[i])]
      BY <3>1
    <3> QED
      BY <3>2 DEF Replays
  <2> QED
    BY <2>1
<1>2. ASSUME NEW k \in 1 .. n, k - 1 \in S PROVE k \in S
  <2>1. PICK f : Replays(f, t, ops, k - 1)
    BY <1>2
  <2>2. k - 1 \in Nat /\ k \in Nat /\ k # 0
    OBVIOUS
  <2>3. f[0] = t /\ \A i \in 1 .. k - 1 : f[i] = Apply(f[i - 1], ops[i])
    BY <2>1, <2>2, ReplaysStep
  <2> DEFINE g == [i \in 0 .. k |-> IF i = k THEN Apply(f[k - 1], ops[k]) ELSE f[i]]
  <2>4. \A i \in 0 .. k : g[i] = IF i = 0 THEN t ELSE Apply(g[i - 1], ops[i])
    <3> TAKE i \in 0 .. k
    <3>1. CASE i = 0
      BY <2>2, <2>3, <3>1
    <3>2. CASE i = k
      <4>1. k - 1 \in 0 .. k /\ k - 1 # k
        BY <2>2
      <4>2. g[k - 1] = f[k - 1] /\ g[k] = Apply(f[k - 1], ops[k])
        BY <4>1
      <4> QED
        BY <2>2, <3>2, <4>2
    <3>3. CASE i # 0 /\ i # k
      <4>1. i \in 1 .. k - 1 /\ i - 1 \in 0 .. k /\ i - 1 # k
        BY <2>2, <3>3
      <4>2. g[i] = f[i] /\ g[i - 1] = f[i - 1]
        BY <3>3, <4>1
      <4> QED
        BY <2>3, <3>3, <4>1, <4>2
    <3> QED
      BY <3>1, <3>2, <3>3
  <2>5. g = [i \in 0 .. k |-> g[i]]
    OBVIOUS
  <2> HIDE DEF g
  <2>6. g = [i \in 0 .. k |-> IF i = 0 THEN t ELSE Apply(g[i - 1], ops[i])]
    BY <2>4, <2>5
  <2> QED
    BY <2>6 DEF Replays
<1> HIDE DEF S
<1>3. n \in S
  BY <1>1, <1>2, UpTo
<1> QED
  BY <1>3 DEF S

LEMMA ReplaysOnce ==
  ASSUME NEW t, NEW ops, NEW n \in Nat, NEW f, NEW g, Replays(f, t, ops, n), Replays(g, t, ops, n)
  PROVE  f[n] = g[n]
<1> DEFINE S == {i \in 0 .. n : f[i] = g[i]}
<1>1. /\ f[0] = t /\ \A i \in 1 .. n : f[i] = Apply(f[i - 1], ops[i])
      /\ g[0] = t /\ \A i \in 1 .. n : g[i] = Apply(g[i - 1], ops[i])
  BY ReplaysStep
<1>2. 0 \in S /\ \A i \in 1 .. n : i - 1 \in S => i \in S
  BY <1>1
<1> HIDE DEF S
<1>3. n \in S
  BY <1>2, UpTo
<1> QED
  BY <1>3 DEF S

LEMMA ReplayIs ==
  ASSUME NEW A, NEW ops \in Seq(A), NEW t, NEW f, Replays(f, t, ops, Len(ops))
  PROVE  Replay(t, ops) = f[Len(ops)]
<1> DEFINE n == Len(ops)
           g == CHOOSE h : Replays(h, t, ops, n)
<1>1. n \in Nat
  BY LenProperties
<1>2. Replays(g, t, ops, n)
  BY Zenon
<1>3. Replay(t, ops) = g[n]
  BY DEF Replay, Replays
<1> HIDE DEF g, n
<1>4. g[n] = f[n]
  BY <1>1, <1>2, ReplaysOnce DEF n
<1> QED
  BY <1>3, <1>4 DEF n

LEMMA ReplayNone == ASSUME NEW t PROVE Replay(t, <<>>) = t
<1>1. PICK f : Replays(f, t, <<>>, 0)
  BY ReplaysExist
<1>2. <<>> \in Seq({}) /\ Len(<<>>) = 0
  OBVIOUS
<1>3. Replay(t, <<>>) = f[0]
  BY <1>1, <1>2, ReplayIs
<1>4. f[0] = t
  BY <1>1, ReplaysStep
<1> QED
  BY <1>3, <1>4

LEMMA ReplayJoined ==
  ASSUME NEW A, NEW a \in Seq(A), NEW b \in Seq(A), NEW t
  PROVE  Replay(t, a \o b) = Replay(Replay(t, a), b)
<1> DEFINE m == Len(a)
           n == Len(b)
           ops == a \o b
<1>0. m \in Nat /\ n \in Nat
  BY LenProperties
<1>1. PICK f : Replays(f, t, a, m)
  BY <1>0, ReplaysExist
<1>2. Replay(t, a) = f[m]
  BY <1>1, ReplayIs
<1>3. PICK h : Replays(h, f[m], b, n)
  BY <1>0, ReplaysExist
<1>4. Replay(f[m], b) = h[n]
  BY <1>3, ReplayIs
<1>5. /\ f[0] = t /\ \A i \in 1 .. m : f[i] = Apply(f[i - 1], a[i])
      /\ h[0] = f[m] /\ \A i \in 1 .. n : h[i] = Apply(h[i - 1], b[i])
  BY <1>0, <1>1, <1>3, ReplaysStep
<1>6. /\ ops \in Seq(A) /\ Len(ops) = m + n
      /\ \A i \in 1 .. m : ops[i] = a[i]
      /\ \A i \in m + 1 .. m + n : ops[i] = b[i - m]
  <2>1. ops \in Seq(A) /\ Len(ops) = m + n
    BY ConcatProperties
  <2>2. \A i \in 1 .. m + n : ops[i] = IF i <= m THEN a[i] ELSE b[i - m]
    BY ConcatProperties
  <2> HIDE DEF ops, m, n
  <2>3. \A i \in 1 .. m : i \in 1 .. m + n /\ i <= m
    BY <1>0
  <2>4. \A i \in m + 1 .. m + n : i \in 1 .. m + n /\ ~ (i <= m)
    BY <1>0
  <2> QED
    BY <2>1, <2>2, <2>3, <2>4
<1> DEFINE g == [i \in 0 .. m + n |-> IF i <= m THEN f[i] ELSE h[i - m]]
<1> HIDE DEF ops, m, n
<1>7. \A i \in 0 .. m + n : g[i] = IF i = 0 THEN t ELSE Apply(g[i - 1], ops[i])
  <2> TAKE i \in 0 .. m + n
  <2>1. CASE i = 0
    BY <1>0, <1>5, <2>1
  <2>2. CASE i \in 1 .. m
    <3>1. i \in 0 .. m + n /\ i - 1 \in 0 .. m + n /\ i <= m /\ i - 1 <= m /\ i # 0
      BY <1>0, <2>2
    <3>2. g[i] = f[i] /\ g[i - 1] = f[i - 1]
      BY <3>1
    <3> QED
      BY <1>5, <1>6, <2>2, <3>1, <3>2
  <2>3. CASE i = m + 1
    <3>1. i - 1 = m /\ i - m = 1 /\ ~ (i <= m) /\ m \in 0 .. m + n /\ m <= m /\ i # 0 /\ 1 \in 1 .. n
      BY <1>0, <2>3
    <3>2. g[i] = h[1] /\ g[i - 1] = f[m]
      BY <3>1
    <3>3. i \in m + 1 .. m + n
      BY <1>0, <2>3
    <3>4. ops[i] = b[1]
      BY <1>6, <3>1, <3>3
    <3>5. h[1] = Apply(h[0], b[1])
      <4>1. 1 - 1 = 0
        OBVIOUS
      <4> QED
        BY <1>5, <3>1, <4>1
    <3> HIDE DEF g
    <3> QED
      BY <1>5, <3>1, <3>2, <3>4, <3>5
  <2>4. CASE i > m + 1
    <3>1. /\ i - m \in 1 .. n /\ ~ (i <= m) /\ ~ (i - 1 <= m) /\ i - 1 \in 0 .. m + n
          /\ (i - 1) - m = (i - m) - 1 /\ i \in m + 1 .. m + n /\ i # 0
      BY <1>0, <2>4
    <3>2. g[i] = h[i - m] /\ g[i - 1] = h[(i - m) - 1]
      BY <3>1
    <3>3. ops[i] = b[i - m]
      BY <1>6, <3>1
    <3>4. h[i - m] = Apply(h[(i - m) - 1], b[i - m])
      BY <1>5, <3>1
    <3> HIDE DEF g
    <3> QED
      BY <3>1, <3>2, <3>3, <3>4
  <2> QED
    BY <1>0, <2>1, <2>2, <2>3, <2>4
<1>8. g = [i \in 0 .. m + n |-> g[i]]
  OBVIOUS
<1>9. g[m + n] = h[n]
  <2>1. CASE n = 0
    <3>1. m + n = m /\ m \in 0 .. m + n
      BY <1>0, <2>1
    <3>2. g[m] = f[m]
      BY <3>1
    <3> HIDE DEF g
    <3> QED
      BY <1>5, <2>1, <3>1, <3>2
  <2>2. CASE n # 0
    <3>1. m + n \in 0 .. m + n /\ ~ (m + n <= m) /\ (m + n) - m = n
      BY <1>0, <2>2
    <3> QED
      BY <3>1
  <2> QED
    BY <2>1, <2>2
<1> HIDE DEF g
<1>10. Replays(g, t, ops, m + n)
  <2>1. g = [i \in 0 .. m + n |-> IF i = 0 THEN t ELSE Apply(g[i - 1], ops[i])]
    BY <1>7, <1>8
  <2> QED
    BY <2>1 DEF Replays
<1>11. Replay(t, ops) = g[m + n]
  <2>1. Replays(g, t, ops, Len(ops))
    BY <1>6, <1>10
  <2>2. Replay(t, ops) = g[Len(ops)]
    BY <1>6, <2>1, ReplayIs
  <2> QED
    BY <1>6, <2>2
<1>12. Replay(t, ops) = Replay(Replay(t, a), b)
  BY <1>2, <1>4, <1>9, <1>11
<1> QED
  BY <1>12 DEF ops

LEMMA ReplayOne == ASSUME NEW t, NEW o PROVE Replay(t, <<o>>) = Apply(t, o)
<1>1. PICK f : Replays(f, t, <<o>>, 1)
  BY ReplaysExist
<1>2. <<o>> \in Seq({o}) /\ Len(<<o>>) = 1 /\ <<o>>[1] = o
  OBVIOUS
<1>3. Replay(t, <<o>>) = f[1]
  BY <1>1, <1>2, ReplayIs
<1>4. f[0] = t /\ f[1] = Apply(f[0], <<o>>[1])
  <2>1. f[0] = t /\ \A i \in 1 .. 1 : f[i] = Apply(f[i - 1], <<o>>[i])
    BY <1>1, ReplaysStep
  <2>2. 1 \in 1 .. 1 /\ 1 - 1 = 0
    OBVIOUS
  <2> QED
    BY <2>1, <2>2
<1> QED
  BY <1>2, <1>3, <1>4

-----------------------------------------------------------------------------
(* What one operation does to a terminal.                                  *)

\* What is in a cell or in an operation: a text, of which the provers have to be told that some
\* literals are.
Texts == STRING \cup {"", Blank, Tab, Plain}
Drawable == [c : Texts, part : {"whole", "wide", "spacer"}, style : Texts, marks : Seq(STRING)]

LEMMA TextsAre == "" \in Texts /\ Blank \in Texts /\ Tab \in Texts /\ Plain \in Texts
BY DEF Texts

\* R lines of C cells, a terminal that shows them, and lines with one cell set.
Lines(R, C) == [1 .. R -> [1 .. C -> Drawable]]
Term(L, R, row, col, wrap, style) ==
  [lines |-> L, rows |-> R, offset |-> 0, row |-> row, col |-> col, wrap |-> wrap, style |-> style,
   shown |-> TRUE]
\* The values of a pending wrap.
No == FALSE
Yes == TRUE
Waits(col, C) == IF col < C THEN No ELSE Yes
Next1(col, C) == IF col < C THEN col + 1 ELSE C

WithCell(L, row, col, cell) == [L EXCEPT ![row] = [L[row] EXCEPT ![col] = cell]]

LEMMA CellIs ==
  ASSUME NEW c \in Texts, NEW part \in {"whole", "wide", "spacer"}, NEW s \in Texts
  PROVE  /\ Cell(c, part, s, <<>>) \in Drawable
         /\ Cell(c, part, s, <<>>).part = part /\ Cell(c, part, s, <<>>).c = c
BY DEF Cell, Drawable

LEMMA SpacerIs ==
  ASSUME NEW s \in Texts
  PROVE  Cell(Blank, "spacer", s, <<>>) \in Drawable /\ Cell(Blank, "spacer", s, <<>>).part = "spacer"
<1>1. Blank \in Texts
  BY TextsAre
<1> QED
  BY <1>1 DEF Cell, Drawable

LEMMA ColsOfTerm ==
  ASSUME NEW R \in Nat \ {0}, NEW C \in Nat \ {0}, NEW L \in Lines(R, C),
         NEW row, NEW col, NEW wrap, NEW style
  PROVE  Cols(Term(L, R, row, col, wrap, style)) = C
<1>0. Term(L, R, row, col, wrap, style).lines = L
  BY DEF Term
<1>1. 1 \in 1 .. R
  OBVIOUS
<1>2. L[1] \in [1 .. C -> Drawable]
  BY <1>1 DEF Lines
<1>3. Len(L[1]) = C
  BY <1>2
<1> QED
  BY <1>3, <1>0 DEF Cols

LEMMA TermLines ==
  ASSUME NEW L, NEW R, NEW r, NEW c, NEW w, NEW s, NEW t, t = Term(L, R, r, c, w, s),
         NEW M, NEW u, u = [t EXCEPT !.lines = M]
  PROVE  u = Term(M, R, r, c, w, s)
BY DEF Term

LEMMA TermCol ==
  ASSUME NEW L, NEW R, NEW r, NEW c, NEW w, NEW s, NEW t, t = Term(L, R, r, c, w, s),
         NEW x, NEW u, u = [t EXCEPT !.col = x]
  PROVE  u = Term(L, R, r, x, w, s)
BY DEF Term

LEMMA TermWrap ==
  ASSUME NEW L, NEW R, NEW r, NEW c, NEW w, NEW s, NEW t, t = Term(L, R, r, c, w, s),
         NEW u, u = [t EXCEPT !.wrap = TRUE]
  PROVE  u = Term(L, R, r, c, Yes, s)
BY DEF Term, Yes

LEMMA TermStyle ==
  ASSUME NEW L, NEW R, NEW r, NEW c, NEW w, NEW s, NEW t, t = Term(L, R, r, c, w, s),
         NEW x, NEW u, u = [t EXCEPT !.style = x]
  PROVE  u = Term(L, R, r, c, w, x)
BY DEF Term

LEMMA TermFields ==
  ASSUME NEW L, NEW R, NEW r, NEW c, NEW w, NEW s, NEW t, t = Term(L, R, r, c, w, s)
  PROVE  t.lines = L /\ t.rows = R /\ t.row = r /\ t.col = c /\ t.wrap = w /\ t.style = s
BY DEF Term

LEMMA CellSet ==
  ASSUME NEW R \in Nat \ {0}, NEW C \in Nat \ {0}, NEW L \in Lines(R, C),
         NEW r \in 1 .. R, NEW c \in 1 .. C, NEW x \in Drawable
  PROVE  /\ WithCell(L, r, c, x) \in Lines(R, C)
         /\ L[r][c] \in Drawable /\ DOMAIN L[r] = 1 .. C
         /\ WithCell(L, r, c, x)[r][c] = x
         /\ \A j \in 1 .. C : j # c => WithCell(L, r, c, x)[r][j] = L[r][j]
         /\ \A i \in 1 .. R : i # r => WithCell(L, r, c, x)[i] = L[i]
         /\ \A y : WithCell(WithCell(L, r, c, x), r, c, y) = WithCell(L, r, c, y)
<1>1. L[r] \in [1 .. C -> Drawable]
  BY DEF Lines
<1>2. [L[r] EXCEPT ![c] = x] \in [1 .. C -> Drawable]
  BY <1>1
<1>3. WithCell(L, r, c, x) \in Lines(R, C)
  BY <1>2 DEF WithCell, Lines
<1>4. L[r][c] \in Drawable /\ DOMAIN L[r] = 1 .. C
  BY <1>1
<1>5. WithCell(L, r, c, x)[r] = [L[r] EXCEPT ![c] = x]
  BY DEF WithCell, Lines
<1>6. \A i \in 1 .. R : i # r => WithCell(L, r, c, x)[i] = L[i]
  BY DEF WithCell, Lines
<1>7. ASSUME NEW y PROVE WithCell(WithCell(L, r, c, x), r, c, y) = WithCell(L, r, c, y)
  <2>1. [WithCell(L, r, c, x)[r] EXCEPT ![c] = y] = [L[r] EXCEPT ![c] = y]
    BY <1>1, <1>5
  <2> QED
    BY <2>1 DEF WithCell, Lines
<1> QED
  BY <1>1, <1>3, <1>4, <1>5, <1>6, <1>7

LEMMA SetElsewhere ==
  ASSUME NEW R \in Nat \ {0}, NEW C \in Nat \ {0}, NEW L \in Lines(R, C),
         NEW r \in 1 .. R, NEW c \in 1 .. C, NEW x, NEW j \in 1 .. C, j # c
  PROVE  WithCell(L, r, c, x)[r][j] = L[r][j]
BY DEF WithCell, Lines

LEMMA ApplyCup ==
  ASSUME NEW R \in Nat \ {0}, NEW C \in Nat \ {0}, NEW L \in Lines(R, C),
         NEW r, NEW c, NEW w, NEW s, NEW row, NEW col
  PROVE  Replay(Term(L, R, r, c, w, s), Cup(row, col))
           = Term(L, R, row, IF col > C THEN C ELSE col, No, s)
<1> DEFINE t == Term(L, R, r, c, w, s)
           o == Op("cup", "", row, col)
<1>1. Cols(t) = C
  BY ColsOfTerm
<1>2. o.op = "cup" /\ o.row = row /\ o.col = col
  BY DEF Op
<1> DEFINE to == IF col > C THEN C ELSE col
<1>3. Apply(t, o) = [t EXCEPT !.row = row, !.col = to, !.wrap = FALSE]
  <2> HIDE DEF t, o
  <2> QED
    BY <1>1, <1>2 DEF Apply
<1>4. Apply(t, o) = Term(L, R, row, to, No, s)
  <2> DEFINE u == Apply(t, o)
  <2>1. u = [t EXCEPT !.row = row, !.col = to, !.wrap = FALSE]
    BY <1>3
  <2> HIDE DEF o, to, u
  <2> QED
    BY <2>1 DEF Term, No, u
<1>5. Replay(t, <<o>>) = Apply(t, o)
  BY ReplayOne
<1> QED
  BY <1>4, <1>5 DEF Cup

LEMMA ApplySgr ==
  ASSUME NEW L, NEW R, NEW r, NEW c, NEW w, NEW s, NEW style
  PROVE  Replay(Term(L, R, r, c, w, s), Sgr(style)) = Term(L, R, r, c, w, style)
<1> DEFINE t == Term(L, R, r, c, w, s)
           o == Op("sgr", style, 0, 0)
<1>2. o.op = "sgr" /\ o.text = style
  BY DEF Op
<1>3. Apply(t, o) = [t EXCEPT !.style = style]
  <2> HIDE DEF t, o
  <2> QED
    BY <1>2 DEF Apply
<1>4. Apply(t, o) = Term(L, R, r, c, w, style)
  <2>1. t = Term(L, R, r, c, w, s)
    OBVIOUS
  <2> HIDE DEF o, t
  <2> QED
    BY <1>3, <2>1, TermStyle
<1>5. Replay(t, <<o>>) = Apply(t, o)
  BY ReplayOne
<1> QED
  BY <1>4, <1>5 DEF Sgr

LEMMA ApplyPut ==
  ASSUME NEW t, NEW x
  PROVE  Replay(t, Put(x)) = PutChar(t, x)
<1> DEFINE o == Op("put", x, 0, 0)
<1>1. o.op = "put" /\ o.text = x
  BY DEF Op
<1>2. Apply(t, o) = PutChar(t, x)
  <2> HIDE DEF o
  <2> QED
    BY <1>1 DEF Apply
<1>3. Replay(t, <<o>>) = Apply(t, o)
  BY ReplayOne
<1> QED
  BY <1>2, <1>3 DEF Put

\* A cell that is no half is overwritten alone.
LEMMA WrittenIs ==
  ASSUME NEW R \in Nat \ {0}, NEW C \in Nat \ {0}, NEW L \in Lines(R, C),
         NEW r \in 1 .. R, NEW c \in 1 .. C, NEW w, NEW s, NEW x, L[r][c].part = "whole"
  PROVE  Written(Term(L, R, r, c, w, s), x) = Term(WithCell(L, r, c, x), R, r, c, w, s)
<1> DEFINE t == Term(L, R, r, c, w, s)
           M == WithCell(L, r, c, x)
           u == Written(t, x)
<1>1. t.lines = L /\ t.row = r /\ t.col = c
  BY DEF Term
<1>2. u = [t EXCEPT !.lines = M]
  <2>1. M = [L EXCEPT ![r] = [L[r] EXCEPT ![c] = x]]
    BY DEF WithCell
  <2> HIDE DEF t, M
  <2> QED
    BY <1>1, <2>1 DEF Written
<1>3. t = Term(L, R, r, c, w, s)
  OBVIOUS
<1> HIDE DEF t, u, M
<1>4. u = Term(M, R, r, c, w, s)
  BY <1>2, <1>3, TermLines
<1> QED
  BY <1>4 DEF t, u, M

LEMMA AdvancedIs ==
  ASSUME NEW R \in Nat \ {0}, NEW C \in Nat \ {0}, NEW L \in Lines(R, C),
         NEW r, NEW c \in 1 .. C, NEW s
  PROVE  Advanced(Term(L, R, r, c, No, s)) = Term(L, R, r, Next1(c, C), Waits(c, C), s)
<1> DEFINE t == Term(L, R, r, c, No, s)
           u == Advanced(t)
<1>1. Cols(t) = C
  BY ColsOfTerm
<1>2. t.col = c
  BY DEF Term
<1>3. t = Term(L, R, r, c, No, s)
  OBVIOUS
<1>4. CASE c < C
  <2> HIDE DEF t
  <2>1. u = [t EXCEPT !.col = c + 1]
    BY <1>1, <1>2, <1>4 DEF Advanced
  <2> HIDE DEF u
  <2>2. u = Term(L, R, r, c + 1, No, s)
    BY <1>3, <2>1, TermCol
  <2> QED
    BY <1>4, <2>2 DEF Next1, Waits, u, t
<1>5. CASE c = C
  <2> HIDE DEF t
  <2>1. u = [t EXCEPT !.wrap = TRUE]
    BY <1>1, <1>2, <1>5 DEF Advanced
  <2> HIDE DEF u
  <2>2. u = Term(L, R, r, c, Yes, s)
    BY <1>3, <2>1, TermWrap
  <2> QED
    BY <1>5, <2>2 DEF Next1, Waits, u, t
<1> QED
  BY <1>4, <1>5

LEMMA NotWrapped ==
  ASSUME NEW L, NEW R, NEW r, NEW c, NEW s
  PROVE  Wrapped(Term(L, R, r, c, No, s)) = Term(L, R, r, c, No, s)
BY DEF Term, Wrapped, No

LEMMA PutWhole ==
  ASSUME NEW R \in Nat \ {0}, NEW C \in Nat \ {0}, NEW L \in Lines(R, C),
         NEW r \in 1 .. R, NEW c \in 1 .. C, NEW s \in Texts, NEW x \in Texts, x # Tab, x \notin Wide,
         L[r][c].part = "whole"
  PROVE  /\ Cell(x, "whole", s, <<>>) \in Drawable
         /\ Replay(Term(L, R, r, c, No, s), Put(x))
              = Term(WithCell(L, r, c, Cell(x, "whole", s, <<>>)), R, r, Next1(c, C), Waits(c, C), s)
<1> DEFINE t == Term(L, R, r, c, No, s)
           y == Cell(x, "whole", s, <<>>)
           M == WithCell(L, r, c, y)
           u == Term(M, R, r, c, No, s)
<1>1. Wrapped(t) = t
  BY NotWrapped
<1>2. Written(t, y) = u
  <2> HIDE DEF y
  <2> QED
    BY WrittenIs
<1>3. t.style = s
  BY DEF Term
<1>4. PutChar(t, x) = Advanced(u)
  <2> HIDE DEF t, u
  <2> QED
    BY <1>1, <1>2, <1>3 DEF PutChar
<1>5. y \in Drawable
  BY DEF Cell, Drawable
<1>6. M \in Lines(R, C)
  <2> HIDE DEF y
  <2> QED
    BY <1>5, CellSet
<1>7. Advanced(u) = Term(M, R, r, Next1(c, C), Waits(c, C), s)
  <2> HIDE DEF M
  <2> QED
    BY <1>6, AdvancedIs
<1>8. Replay(t, Put(x)) = Advanced(u)
  BY <1>4, ApplyPut
<1> QED
  BY <1>5, <1>7, <1>8

\* A tab takes the place of a blank, and goes to the next stop.
LEMMA PutTabIs ==
  ASSUME NEW R \in Nat \ {0}, NEW C \in Nat \ {0}, NEW L \in Lines(R, C),
         NEW r \in 1 .. R, NEW c \in 1 .. C, NEW s, L[r][c].c = Blank
  PROVE  Replay(Term(L, R, r, c, No, s), Put(Tab))
           = Term(WithCell(L, r, c, [L[r][c] EXCEPT !.c = Tab]), R, r, NextStop(c, C), No, s)
<1> DEFINE t == Term(L, R, r, c, No, s)
           y == [L[r][c] EXCEPT !.c = Tab]
           M == WithCell(L, r, c, y)
           u == PutTab(t)
           v == [t EXCEPT !.lines = M]
           stop == NextStop(c, C)
<1>1. /\ t.lines = L /\ t.rows = R /\ t.row = r /\ t.col = c /\ t.wrap = No /\ t.style = s
      /\ t = Term(L, R, r, c, No, s)
  BY DEF Term
<1>2. Cols(t) = C
  BY ColsOfTerm
<1>3. u = [v EXCEPT !.col = stop]
  <2>1. ~ t.wrap
    BY <1>1 DEF No
  <2>2. u = [t EXCEPT !.lines[t.row][t.col].c = IF @ = Blank THEN Tab ELSE @,
                      !.col = NextStop(@, Cols(t))]
    <3> HIDE DEF t
    <3> QED
      BY <2>1 DEF PutTab
  <2>3. M = [L EXCEPT ![r][c].c = IF @ = Blank THEN Tab ELSE @]
    <3>1. [L[r] EXCEPT ![c].c = IF @ = Blank THEN Tab ELSE @] = [L[r] EXCEPT ![c] = y]
      OBVIOUS
    <3> QED
      BY <3>1 DEF WithCell
  <2> HIDE DEF t, M, stop
  <2>4. [t EXCEPT !.lines[t.row][t.col].c = IF @ = Blank THEN Tab ELSE @,
                  !.col = NextStop(@, Cols(t))]
          = [t EXCEPT !.lines = M, !.col = stop]
    BY <1>1, <1>2, <2>3 DEF stop
  <2> QED
    BY <2>2, <2>4
<1> HIDE DEF t, u, M, v, stop
<1>4. v = Term(M, R, r, c, No, s)
  <2>1. v = [t EXCEPT !.lines = M]
    BY DEF v
  <2> QED
    BY <1>1, <2>1, TermLines
<1>5. u = Term(M, R, r, stop, No, s)
  BY <1>3, <1>4, TermCol
<1>6. Replay(t, Put(Tab)) = u
  <2>1. PutChar(t, Tab) = PutTab(t)
    BY DEF PutChar
  <2> QED
    BY <2>1, ApplyPut DEF u
<1> QED
  BY <1>5, <1>6 DEF t, M, stop

\* A wide glyph and its spacer, on blank cells or on another one.
LEMMA PutWideIs ==
  ASSUME NEW R \in Nat \ {0}, NEW C \in Nat \ {0}, NEW L \in Lines(R, C),
         NEW r \in 1 .. R, NEW c \in 1 .. C, c < C, NEW s \in Texts, NEW x \in Texts, x \in Wide, x # Tab,
         \/ L[r][c].part = "whole" /\ L[r][c + 1].part = "whole"
         \/ L[r][c].part = "wide" /\ L[r][c + 1].part = "spacer"
  PROVE  Replay(Term(L, R, r, c, No, s), Put(x))
           = Term(WithCell(WithCell(L, r, c, Cell(x, "wide", s, <<>>)),
                           r, c + 1, Cell(Blank, "spacer", s, <<>>)),
                  R, r, Next1(c + 1, C), Waits(c + 1, C), s)
<1> DEFINE y == Cell(x, "wide", s, <<>>)
           z == Cell(Blank, "spacer", s, <<>>)
           M == WithCell(L, r, c, y)
           N == WithCell(M, r, c + 1, z)
           t == Term(L, R, r, c, No, s)
<1>0. c + 1 \in 1 .. C /\ c + 1 # c
  OBVIOUS
<1>1. y \in Drawable /\ z \in Drawable /\ y.part = "wide" /\ z.part = "spacer"
  <2>1. y \in Drawable /\ y.part = "wide"
    BY CellIs
  <2>2. z \in Drawable /\ z.part = "spacer"
    BY SpacerIs
  <2> QED
    BY <2>1, <2>2
<1> HIDE DEF y, z
<1>2. M \in Lines(R, C)
  BY <1>1, CellSet
<1>3. N \in Lines(R, C)
  <2> HIDE DEF M
  <2> QED
    BY <1>0, <1>1, <1>2, CellSet
<1>4. /\ t.lines = L /\ t.rows = R /\ t.row = r /\ t.col = c /\ t.wrap = No /\ t.style = s
      /\ t = Term(L, R, r, c, No, s)
  BY DEF Term
<1>5. Cols(t) = C
  <2>1. R \in Nat \ {0} /\ C \in Nat \ {0} /\ L \in Lines(R, C)
    OBVIOUS
  <2> QED
    BY ONLY <2>1, ColsOfTerm
\* The glyph, and at most the spacer right of it freed.
<1>6. \E K \in Lines(R, C) :
        /\ Written(t, y) = Term(K, R, r, c, No, s) /\ K[r][c + 1].part = "whole"
        /\ WithCell(K, r, c + 1, z) = N
  <2>1. CASE L[r][c].part = "whole" /\ L[r][c + 1].part = "whole"
    <3>1. Written(t, y) = Term(M, R, r, c, No, s)
      BY <2>1, WrittenIs
    <3>2. M[r][c + 1].part = "whole"
      <4>1. M[r][c + 1] = L[r][c + 1]
        BY <1>0, SetElsewhere
      <4> QED
        BY <2>1, <4>1
    <3> QED
      BY <1>2, <3>1, <3>2
  <2>2. CASE L[r][c].part = "wide" /\ L[r][c + 1].part = "spacer"
    <3> DEFINE blank == [L[r][c + 1] EXCEPT !.part = "whole", !.c = Blank]
               F == WithCell(L, r, c + 1, blank)
               K == WithCell(F, r, c, y)
               u == Written(t, y)
    <3>1. L[r] \in [1 .. C -> Drawable] /\ L[r][c + 1] \in Drawable
      BY <1>0 DEF Lines
    <3>2. blank \in Drawable /\ blank.part = "whole"
      <4> DEFINE x1 == L[r][c + 1]
      <4>1. x1 \in Drawable
        BY <3>1
      <4> HIDE DEF x1
      <4>2. [x1 EXCEPT !.part = "whole", !.c = Blank] \in Drawable
        BY <4>1 DEF Drawable, Texts
      <4>3. [x1 EXCEPT !.part = "whole", !.c = Blank].part = "whole"
        BY <4>1 DEF Drawable
      <4> QED
        BY <4>2, <4>3 DEF x1
    <3> HIDE DEF blank
    <3>3. F \in Lines(R, C) /\ F[r] = [L[r] EXCEPT ![c + 1] = blank]
      <4>1. F \in Lines(R, C)
        BY <1>0, <3>2, CellSet
      <4>2. F[r] = [L[r] EXCEPT ![c + 1] = blank]
        BY DEF WithCell, Lines
      <4> QED
        BY <4>1, <4>2
    <3>4. K \in Lines(R, C) /\ K[r][c + 1] = F[r][c + 1]
      <4>1. F \in Lines(R, C) /\ c + 1 \in 1 .. C /\ c + 1 # c /\ y \in Drawable
        BY <1>0, <1>1, <3>3
      <4> HIDE DEF F
      <4>2. K \in Lines(R, C)
        BY <4>1, CellSet
      <4>3. K[r][c + 1] = F[r][c + 1]
        BY <4>1, SetElsewhere
      <4> QED
        BY <4>2, <4>3
    <3>5. F[r][c + 1] = blank
      BY <1>0, <3>2, CellSet
    <3>6. u = [t EXCEPT !.lines = K]
      <4>1. c + 1 \in DOMAIN L[r]
        BY <1>0, <3>1
      <4>2. [L[r] EXCEPT ![c + 1].part = "whole", ![c + 1].c = Blank] = [L[r] EXCEPT ![c + 1] = blank]
        BY <3>1, <4>1 DEF blank
      <4>3. K = [L EXCEPT ![r] = [[L[r] EXCEPT ![c + 1] = blank] EXCEPT ![c] = y]]
        <5>1. K = [F EXCEPT ![r] = [F[r] EXCEPT ![c] = y]]
          BY DEF WithCell
        <5>2. F = [L EXCEPT ![r] = F[r]]
          BY <3>3 DEF WithCell
        <5> HIDE DEF F
        <5> QED
          BY <3>3, <5>1, <5>2 DEF Lines
      <4> HIDE DEF t, K
      <4> QED
        BY <1>4, <2>2, <4>1, <4>2, <4>3 DEF Written
    <3>7. u = Term(K, R, r, c, No, s)
      <4> HIDE DEF t, u, K
      <4> QED
        BY <1>4, <3>6, TermLines
    <3>8. WithCell(K, r, c + 1, z) = N
      <4>1. K[r] = [[L[r] EXCEPT ![c + 1] = blank] EXCEPT ![c] = y]
        <5> HIDE DEF F
        <5> QED
          BY <3>3 DEF WithCell, Lines
      <4>2. [K[r] EXCEPT ![c + 1] = z] = [[L[r] EXCEPT ![c] = y] EXCEPT ![c + 1] = z]
        <5> HIDE DEF K
        <5> QED
          BY <1>0, <3>1, <4>1
      <4>3. M[r] = [L[r] EXCEPT ![c] = y]
        BY DEF WithCell, Lines
      <4>4. [K EXCEPT ![r] = [K[r] EXCEPT ![c + 1] = z]] = [M EXCEPT ![r] = [K[r] EXCEPT ![c + 1] = z]]
        <5>1. \A i \in 1 .. R : i # r => K[i] = M[i]
          BY DEF WithCell, Lines
        <5> HIDE DEF K, M
        <5> QED
          BY <1>2, <3>4, <5>1 DEF Lines
      <4> HIDE DEF K, M
      <4> QED
        BY <4>2, <4>3, <4>4 DEF WithCell
    <3> HIDE DEF K, F
    <3> QED
      BY <3>2, <3>4, <3>5, <3>7, <3>8
  <2> QED
    BY <2>1, <2>2
<1>7. PICK K \in Lines(R, C) :
        /\ Written(t, y) = Term(K, R, r, c, No, s) /\ K[r][c + 1].part = "whole"
        /\ WithCell(K, r, c + 1, z) = N
  BY <1>6
<1> DEFINE left == Term(K, R, r, c, No, s)
           next == [left EXCEPT !.col = @ + 1]
<1>8. next = Term(K, R, r, c + 1, No, s)
  <2>1. left = Term(K, R, r, c, No, s) /\ left.col = c
    BY DEF Term
  <2> HIDE DEF left
  <2>2. next = [left EXCEPT !.col = c + 1]
    BY <2>1
  <2> HIDE DEF next
  <2> QED
    BY <2>1, <2>2, TermCol
<1>9. Written(next, z) = Term(N, R, r, c + 1, No, s)
  <2> HIDE DEF next, N
  <2>1. Written(Term(K, R, r, c + 1, No, s), z) = Term(WithCell(K, r, c + 1, z), R, r, c + 1, No, s)
    BY <1>0, <1>7, WrittenIs
  <2> QED
    BY <1>7, <1>8, <2>1
<1>10. PutWide(t, x) = Advanced(Written(next, z))
  <2>1. t.col < Cols(t)
    BY <1>4, <1>5
  <2>2. left = Written(t, Cell(x, "wide", t.style, <<>>)) /\ z = Cell(Blank, "spacer", t.style, <<>>)
    <3> HIDE DEF t
    <3> QED
      BY <1>4, <1>7 DEF y, z
  <2> HIDE DEF t, left, N
  <2> QED
    BY <2>1, <2>2 DEF PutWide
<1>11. Advanced(Term(N, R, r, c + 1, No, s)) = Term(N, R, r, Next1(c + 1, C), Waits(c + 1, C), s)
  <2> HIDE DEF N
  <2> QED
    BY <1>0, <1>3, AdvancedIs
<1>12. Replay(t, Put(x)) = PutWide(t, x)
  <2>1. Wrapped(t) = t
    BY NotWrapped
  <2> HIDE DEF t
  <2> QED
    BY <2>1, ApplyPut DEF PutChar
<1> QED
  <2> HIDE DEF next, N
  <2>1. Replay(t, Put(x)) = Term(N, R, r, Next1(c + 1, C), Waits(c + 1, C), s)
    BY <1>9, <1>10, <1>11, <1>12
  <2> QED
    BY <2>1 DEF N, M, y, z, t

\* A mark goes to the cell left of the cursor, and from a spacer to its glyph.
MarkCol(L, r, c, w) ==
  LET left == IF w \/ c = 1 THEN c ELSE c - 1
  IN  IF left > 1 /\ L[r][left].part = "spacer" THEN left - 1 ELSE left

LEMMA MarkColIn ==
  ASSUME NEW C \in Nat \ {0}, NEW c \in 1 .. C, NEW L, NEW r, NEW w
  PROVE  MarkCol(L, r, c, w) \in 1 .. C
BY DEF MarkCol

Marked(x, m) == [x EXCEPT !.marks = Append(@, m)]

LEMMA PutMarkIs ==
  ASSUME NEW R \in Nat \ {0}, NEW C \in Nat \ {0}, NEW L \in Lines(R, C),
         NEW r \in 1 .. R, NEW c \in 1 .. C, NEW w, NEW s, NEW m, NEW j, j = MarkCol(L, r, c, w)
  PROVE  Apply(Term(L, R, r, c, w, s), Op("mark", m, 0, 0))
           = Term(WithCell(L, r, j, Marked(L[r][j], m)), R, r, c, w, s)
<1> DEFINE t == Term(L, R, r, c, w, s)
           y == Marked(L[r][j], m)
           M == WithCell(L, r, j, y)
           o == Op("mark", m, 0, 0)
           u == Apply(t, o)
<1>1. /\ t.lines = L /\ t.row = r /\ t.col = c /\ t.wrap = w
      /\ t = Term(L, R, r, c, w, s)
  BY DEF Term
<1>2. u = PutMark(t, m)
  <2>1. o.op = "mark" /\ o.text = m
    BY DEF Op
  <2> HIDE DEF o, t
  <2> QED
    BY <2>1 DEF Apply
<1>3. u = [t EXCEPT !.lines[r][j].marks = Append(@, m)]
  <2> HIDE DEF t, u
  <2> QED
    BY <1>1, <1>2 DEF PutMark, MarkCol
<1>4. M = [L EXCEPT ![r][j].marks = Append(@, m)]
  <2>1. [L[r] EXCEPT ![j].marks = Append(@, m)] = [L[r] EXCEPT ![j] = y]
    BY DEF Marked
  <2> QED
    BY <2>1 DEF WithCell
<1>5. u = [t EXCEPT !.lines = M]
  <2> HIDE DEF t, u, M
  <2> QED
    BY <1>1, <1>3, <1>4
<1> HIDE DEF t, u, M
<1>6. u = Term(M, R, r, c, w, s)
  BY <1>1, <1>5, TermLines
<1> QED
  BY <1>6 DEF u, t, M

\* The marks of a cell change no part.
LEMMA MarkColStays ==
  ASSUME NEW R \in Nat \ {0}, NEW C \in Nat \ {0}, NEW L \in Lines(R, C),
         NEW r \in 1 .. R, NEW c \in 1 .. C, NEW w, NEW j \in 1 .. C, NEW x \in Seq(STRING)
  PROVE  MarkCol(WithCell(L, r, j, [L[r][j] EXCEPT !.marks = x]), r, c, w) = MarkCol(L, r, c, w)
<1> DEFINE y == [L[r][j] EXCEPT !.marks = x]
           M == WithCell(L, r, j, y)
<1>1. L[r][j] \in Drawable /\ L[r] \in [1 .. C -> Drawable]
  BY DEF Lines
<1>2. y.part = L[r][j].part
  BY <1>1 DEF Drawable
<1>3. M[r] = [L[r] EXCEPT ![j] = y]
  BY DEF WithCell, Lines
<1> HIDE DEF y
<1>4. \A k \in 1 .. C : M[r][k].part = L[r][k].part
  BY <1>1, <1>2, <1>3
<1> HIDE DEF M
<1>5. MarkCol(M, r, c, w) = MarkCol(L, r, c, w)
  <2> DEFINE left == IF w \/ c = 1 THEN c ELSE c - 1
  <2>1. left \in 1 .. C
    OBVIOUS
  <2> HIDE DEF left
  <2>2. M[r][left].part = L[r][left].part
    BY <1>4, <2>1
  <2> QED
    BY <2>2 DEF MarkCol, left
<1> QED
  BY <1>5 DEF M, y

First(m, i) == [k \in 1 .. i |-> m[k]]

LEMMA FirstGrows ==
  ASSUME NEW m \in Seq(STRING), NEW i \in 1 .. Len(m)
  PROVE  /\ First(m, i) \in Seq(STRING) /\ First(m, i - 1) \in Seq(STRING)
         /\ Append(First(m, i - 1), m[i]) = First(m, i)
<1>1. i \in Nat /\ i - 1 \in Nat /\ Len(m) \in Nat /\ \A k \in 1 .. Len(m) : m[k] \in STRING
  BY LenProperties, ElementOfSeq
<1>2. ASSUME NEW k \in 0 .. Len(m) PROVE First(m, k) \in Seq(STRING) /\ Len(First(m, k)) = k
  BY <1>1 DEF First
<1>3. i \in 0 .. Len(m) /\ i - 1 \in 0 .. Len(m)
  BY <1>1
<1> DEFINE a == Append(First(m, i - 1), m[i])
<1>4. /\ a \in Seq(STRING) /\ Len(a) = i
      /\ \A k \in 1 .. i : a[k] = IF k <= i - 1 THEN First(m, i - 1)[k] ELSE m[i]
  <2>1. Len(First(m, i - 1)) + 1 = i
    BY <1>1, <1>2, <1>3
  <2>2. First(m, i - 1) \in Seq(STRING) /\ m[i] \in STRING
    BY <1>1, <1>2, <1>3
  <2> QED
    BY <1>1, <1>2, <1>3, <2>1, <2>2, AppendProperties
<1>5. \A k \in 1 .. i : a[k] = m[k]
  BY <1>1, <1>4 DEF First
<1>6. a = First(m, i)
  <2> HIDE DEF a
  <2>1. a = [k \in 1 .. i |-> a[k]]
    BY <1>1, <1>4
  <2> QED
    BY <1>5, <2>1 DEF First
<1> QED
  BY <1>2, <1>3, <1>6

LEMMA MarksAreDrawn ==
  ASSUME NEW R \in Nat \ {0}, NEW C \in Nat \ {0}, NEW L \in Lines(R, C),
         NEW r \in 1 .. R, NEW c \in 1 .. C, NEW w, NEW s, NEW j, j = MarkCol(L, r, c, w),
         L[r][j].marks = <<>>, NEW cell, cell.marks \in Seq(STRING)
  PROVE  Replay(Term(L, R, r, c, w, s), PushZerowidth(cell))
           = Term(WithCell(L, r, j, [L[r][j] EXCEPT !.marks = cell.marks]), R, r, c, w, s)
<1> DEFINE m == cell.marks
           n == Len(m)
           t == Term(L, R, r, c, w, s)
           D(i) == WithCell(L, r, j, [L[r][j] EXCEPT !.marks = First(m, i)])
           f == [i \in 0 .. n |-> Term(D(i), R, r, c, w, s)]
           ops == PushZerowidth(cell)
<1>0. n \in Nat /\ j \in 1 .. C
  BY LenProperties, MarkColIn
<1>1. ops \in Seq({Op("mark", x, 0, 0) : x \in STRING}) /\ Len(ops) = n
      /\ \A i \in 1 .. n : ops[i] = Op("mark", m[i], 0, 0)
  <2>1. DOMAIN m = 1 .. n /\ \A i \in 1 .. n : m[i] \in STRING
    BY LenProperties, ElementOfSeq
  <2>2. ops = [i \in 1 .. n |-> Op("mark", m[i], 0, 0)]
    BY <2>1 DEF PushZerowidth
  <2> HIDE DEF ops, m, n
  <2> DEFINE A == {Op("mark", x, 0, 0) : x \in STRING}
  <2>3. \A i \in 1 .. n : Op("mark", m[i], 0, 0) \in A
    BY <2>1
  <2> HIDE DEF A
  <2>4. ops \in Seq(A) /\ Len(ops) = n
    BY <1>0, <2>2, <2>3
  <2> QED
    BY <2>2, <2>4 DEF A
<1>2. L[r][j] \in Drawable
  BY <1>0 DEF Lines
<1>3. D(0) = L
  <2>1. First(m, 0) = <<>>
    BY DEF First
  <2>2. [L[r][j] EXCEPT !.marks = <<>>] = L[r][j]
    BY <1>2 DEF Drawable
  <2>3. WithCell(L, r, j, L[r][j]) = L
    BY <1>0 DEF WithCell, Lines
  <2> QED
    BY <2>1, <2>2, <2>3
<1>4. ASSUME NEW i \in 1 .. n
      PROVE  Apply(Term(D(i - 1), R, r, c, w, s), ops[i]) = Term(D(i), R, r, c, w, s)
  <2> DEFINE before == First(m, i - 1)
             y == [L[r][j] EXCEPT !.marks = before]
             K == WithCell(L, r, j, y)
  <2>1. before \in Seq(STRING) /\ Append(before, m[i]) = First(m, i)
    BY FirstGrows
  <2>2. y \in Drawable
    <3> HIDE DEF before
    <3> QED
      BY <1>2, <2>1 DEF Drawable
  <2>3. K \in Lines(R, C) /\ K[r][j] = y /\ \A z : WithCell(K, r, j, z) = WithCell(L, r, j, z)
    <3> HIDE DEF y
    <3> QED
      BY <1>0, <2>2, CellSet
  <2>4. j = MarkCol(K, r, c, w)
    <3> HIDE DEF before
    <3> QED
      BY <1>0, <2>1, MarkColStays
  <2>5. Marked(y, m[i]) = [L[r][j] EXCEPT !.marks = First(m, i)]
    <3> HIDE DEF before
    <3> QED
      BY <1>2, <2>1 DEF Drawable, Marked
  <2>6. Apply(Term(K, R, r, c, w, s), Op("mark", m[i], 0, 0))
          = Term(WithCell(K, r, j, Marked(K[r][j], m[i])), R, r, c, w, s)
    <3> HIDE DEF K
    <3> QED
      BY <2>3, <2>4, PutMarkIs
  <2> HIDE DEF y
  <2>7. WithCell(K, r, j, Marked(K[r][j], m[i])) = D(i)
    <3> HIDE DEF K, before
    <3> QED
      BY <2>3, <2>5
  <2> QED
    BY <1>1, <2>6, <2>7 DEF y
<1> HIDE DEF D, ops, m
<1>5. Replays(f, t, ops, n)
  <2>1. \A i \in 0 .. n : f[i] = IF i = 0 THEN t ELSE Apply(f[i - 1], ops[i])
    <3> TAKE i \in 0 .. n
    <3>1. CASE i = 0
      BY <1>0, <1>3, <3>1
    <3>2. CASE i # 0
      <4>1. i \in 1 .. n /\ i - 1 \in 0 .. n
        BY <1>0, <3>2
      <4>2. f[i] = Term(D(i), R, r, c, w, s) /\ f[i - 1] = Term(D(i - 1), R, r, c, w, s)
        BY <4>1
      <4> HIDE DEF f
      <4> QED
        BY <1>4, <3>2, <4>1, <4>2
    <3> QED
      BY <3>1, <3>2
  <2>2. f = [i \in 0 .. n |-> f[i]]
    OBVIOUS
  <2> HIDE DEF f
  <2>3. f = [i \in 0 .. n |-> IF i = 0 THEN t ELSE Apply(f[i - 1], ops[i])]
    BY <2>1, <2>2
  <2> QED
    BY <2>3 DEF Replays
<1>6. Replay(t, ops) = f[n]
  <2> HIDE DEF f, t, n
  <2> QED
    BY <1>1, <1>5, ReplayIs
<1>7. f[n] = Term(D(n), R, r, c, w, s)
  BY <1>0
<1>8. First(m, n) = m
  BY DEF First, m
<1> QED
  <2>1. D(n) = WithCell(L, r, j, [L[r][j] EXCEPT !.marks = m])
    BY <1>8 DEF D
  <2> HIDE DEF f, t
  <2> QED
    BY <1>6, <1>7, <2>1 DEF t, ops, m

-----------------------------------------------------------------------------
(* What the operations of one cell draw.                                   *)

Ops == [op : {"cup", "sgr", "put", "mark", "show", "hide"}, text : Texts, row : Nat, col : Nat]

LEMMA OpsOf ==
  /\ \A row \in Nat, col \in Nat : Cup(row, col) \in Seq(Ops)
  /\ \A x \in Texts : Sgr(x) \in Seq(Ops) /\ Put(x) \in Seq(Ops)
<1>1. ASSUME NEW row \in Nat, NEW col \in Nat PROVE Cup(row, col) \in Seq(Ops)
  <2> DEFINE o == Op("cup", "", row, col)
  <2>1. o \in Ops
    BY TextsAre DEF Op, Ops
  <2>2. Cup(row, col) = <<o>>
    BY DEF Cup
  <2> HIDE DEF o
  <2>3. <<o>> \in Seq(Ops)
    BY <2>1
  <2> QED
    BY <2>2, <2>3
<1>2. ASSUME NEW x \in Texts PROVE Sgr(x) \in Seq(Ops)
  <2>1. Op("sgr", x, 0, 0) \in Ops
    BY DEF Op, Ops
  <2> QED
    BY <2>1 DEF Sgr
<1>3. ASSUME NEW x \in Texts PROVE Put(x) \in Seq(Ops)
  <2>1. Op("put", x, 0, 0) \in Ops
    BY DEF Op, Ops
  <2> QED
    BY <2>1 DEF Put
<1> QED
  BY <1>1, <1>2, <1>3

LEMMA OpsOfMarks == ASSUME NEW cell, cell.marks \in Seq(STRING) PROVE PushZerowidth(cell) \in Seq(Ops)
<1> DEFINE m == cell.marks
           n == Len(m)
<1>1. n \in Nat /\ DOMAIN m = 1 .. n /\ \A i \in 1 .. n : m[i] \in STRING
  BY LenProperties, ElementOfSeq
<1>2. PushZerowidth(cell) = [i \in 1 .. n |-> Op("mark", m[i], 0, 0)]
  BY <1>1 DEF PushZerowidth
<1> HIDE DEF n, m
<1>3. ASSUME NEW i \in 1 .. n PROVE Op("mark", m[i], 0, 0) \in Ops
  <2>1. m[i] \in Texts
    BY <1>1 DEF Texts
  <2> QED
    BY <2>1 DEF Op, Ops
<1> QED
  BY <1>1, <1>2, <1>3

\* One stream after another.
LEMMA Then ==
  ASSUME NEW a \in Seq(Ops), NEW b \in Seq(Ops), NEW t, NEW u, NEW v, Replay(t, a) = u, Replay(u, b) = v
  PROVE  a \o b \in Seq(Ops) /\ Replay(t, a \o b) = v
<1>1. a \o b \in Seq(Ops)
  BY ConcatProperties
<1>2. Replay(t, a \o b) = Replay(Replay(t, a), b)
  BY ReplayJoined
<1> QED
  BY <1>1, <1>2

LEMMA SyncIs ==
  ASSUME NEW L, NEW R, NEW r, NEW c, NEW w, NEW s \in Texts, NEW cell, cell.style \in Texts
  PROVE  /\ SyncSgr(s, cell) \in Seq(Ops)
         /\ Replay(Term(L, R, r, c, w, s), SyncSgr(s, cell)) = Term(L, R, r, c, w, cell.style)
<1>1. CASE s = cell.style
  <2>1. SyncSgr(s, cell) = <<>>
    BY <1>1 DEF SyncSgr
  <2>2. <<>> \in Seq(Ops)
    OBVIOUS
  <2> QED
    BY <1>1, <2>1, <2>2, ReplayNone
<1>2. CASE s # cell.style
  <2>1. SyncSgr(s, cell) = Sgr(cell.style)
    BY <1>2 DEF SyncSgr
  <2>2. Sgr(cell.style) \in Seq(Ops)
    BY OpsOf
  <2>3. Replay(Term(L, R, r, c, w, s), Sgr(cell.style)) = Term(L, R, r, c, w, cell.style)
    BY ApplySgr
  <2> QED
    BY <2>1, <2>2, <2>3
<1> QED
  BY <1>1, <1>2

\* The marks of a glyph reach it, whether the cursor moved on or waits to wrap.
LEMMA MarksOfWhole ==
  ASSUME NEW C \in Nat \ {0}, NEW j \in 1 .. C, NEW L, NEW r, L[r][j].part # "spacer"
  PROVE  MarkCol(L, r, Next1(j, C), Waits(j, C)) = j
<1>1. CASE j < C
  BY <1>1 DEF MarkCol, Next1, Waits, No
<1>2. CASE j = C
  BY <1>2 DEF MarkCol, Next1, Waits, Yes
<1> QED
  BY <1>1, <1>2

LEMMA MarksOfPair ==
  ASSUME NEW C \in Nat \ {0}, NEW j \in 1 .. C, j < C, NEW L, NEW r, L[r][j + 1].part = "spacer"
  PROVE  MarkCol(L, r, Next1(j + 1, C), Waits(j + 1, C)) = j
<1>1. CASE j + 1 < C
  BY <1>1 DEF MarkCol, Next1, Waits, No
<1>2. CASE j + 1 = C
  BY <1>2 DEF MarkCol, Next1, Waits, Yes
<1> QED
  BY <1>1, <1>2

LEMMA NextIn ==
  ASSUME NEW C \in Nat \ {0}, NEW j \in 1 .. C PROVE Next1(j, C) \in 1 .. C
BY DEF Next1

LEMMA DrawWhole ==
  ASSUME NEW R \in Nat \ {0}, NEW C \in Nat \ {0}, NEW L \in Lines(R, C),
         NEW r \in 1 .. R, NEW j \in 1 .. C, NEW s \in Texts, NEW x \in Texts, x # Tab, x \notin Wide,
         L[r][j].part = "whole", NEW cell, cell.marks \in Seq(STRING)
  PROVE  /\ Put(x) \o PushZerowidth(cell) \in Seq(Ops)
         /\ Replay(Term(L, R, r, j, No, s), Put(x) \o PushZerowidth(cell))
              = Term(WithCell(L, r, j, Cell(x, "whole", s, cell.marks)), R, r,
                     Next1(j, C), Waits(j, C), s)
<1> DEFINE y == Cell(x, "whole", s, <<>>)
           z == Cell(x, "whole", s, cell.marks)
           M == WithCell(L, r, j, y)
           t == Term(L, R, r, j, No, s)
           u == Term(M, R, r, Next1(j, C), Waits(j, C), s)
           v == Term(WithCell(L, r, j, z), R, r, Next1(j, C), Waits(j, C), s)
<1>1. Replay(t, Put(x)) = u
  BY PutWhole
<1>2. y \in Drawable /\ y.part = "whole" /\ y.marks = <<>> /\ [y EXCEPT !.marks = cell.marks] = z
  BY CellIs DEF Cell
<1>3. M \in Lines(R, C) /\ M[r][j] = y /\ \A x2 : WithCell(M, r, j, x2) = WithCell(L, r, j, x2)
  <2> HIDE DEF y
  <2> QED
    BY <1>2, CellSet
<1>4. Replay(u, PushZerowidth(cell)) = v
  <2>1. j = MarkCol(M, r, Next1(j, C), Waits(j, C))
    <3> HIDE DEF M, y
    <3> QED
      BY <1>2, <1>3, MarksOfWhole
  <2>2. Next1(j, C) \in 1 .. C
    BY NextIn
  <2>3. [M[r][j] EXCEPT !.marks = cell.marks] = z
    BY <1>2, <1>3
  <2>4. M[r][j].marks = <<>>
    BY <1>2, <1>3
  <2> HIDE DEF M, z
  <2>5. Replay(u, PushZerowidth(cell))
          = Term(WithCell(M, r, j, [M[r][j] EXCEPT !.marks = cell.marks]), R, r, Next1(j, C), Waits(j, C), s)
    BY <1>3, <2>1, <2>2, <2>4, MarksAreDrawn
  <2> QED
    BY <1>3, <2>3, <2>5
<1>5. Put(x) \in Seq(Ops) /\ PushZerowidth(cell) \in Seq(Ops)
  BY OpsOf, OpsOfMarks
<1> HIDE DEF t, u, v
<1>6. Put(x) \o PushZerowidth(cell) \in Seq(Ops) /\ Replay(t, Put(x) \o PushZerowidth(cell)) = v
  BY <1>1, <1>4, <1>5, Then
<1> QED
  BY <1>6 DEF t, v

LEMMA SetPair ==
  ASSUME NEW R \in Nat \ {0}, NEW C \in Nat \ {0}, NEW L \in Lines(R, C),
         NEW r \in 1 .. R, NEW j \in 1 .. C, j < C, NEW y \in Drawable, NEW z \in Drawable
  PROVE  LET N == WithCell(WithCell(L, r, j, y), r, j + 1, z)
         IN  /\ N \in Lines(R, C) /\ N[r][j] = y /\ N[r][j + 1] = z
             /\ \A y2 : WithCell(N, r, j, y2) = WithCell(WithCell(L, r, j, y2), r, j + 1, z)
<1> DEFINE M == WithCell(L, r, j, y)
           N == WithCell(M, r, j + 1, z)
<1>0. j + 1 \in 1 .. C /\ j + 1 # j
  OBVIOUS
<1>1. L[r] \in [1 .. C -> Drawable]
  BY DEF Lines
<1>2. M \in Lines(R, C) /\ M[r] = [L[r] EXCEPT ![j] = y]
  <2>1. M \in Lines(R, C)
    BY CellSet
  <2> QED
    BY <2>1 DEF WithCell, Lines
<1>3. N \in Lines(R, C)
  <2> HIDE DEF M
  <2> QED
    BY <1>0, <1>2, CellSet
<1>4. N[r] = [M[r] EXCEPT ![j + 1] = z]
  <2> HIDE DEF M
  <2> QED
    BY <1>2 DEF WithCell, Lines
<1>5. N[r][j] = y /\ N[r][j + 1] = z
  <2> HIDE DEF M, N
  <2> QED
    BY <1>0, <1>1, <1>2, <1>4
<1>6. ASSUME NEW y2 PROVE WithCell(N, r, j, y2) = WithCell(WithCell(L, r, j, y2), r, j + 1, z)
  <2> DEFINE K == WithCell(L, r, j, y2)
  <2>1. K[r] = [L[r] EXCEPT ![j] = y2]
    BY DEF WithCell, Lines
  <2>2. [N[r] EXCEPT ![j] = y2] = [K[r] EXCEPT ![j + 1] = z]
    <3> HIDE DEF N, M, K
    <3> QED
      BY <1>0, <1>1, <1>2, <1>4, <2>1
  <2>3. N = [L EXCEPT ![r] = N[r]]
    BY DEF WithCell, Lines
  <2>4. K = [L EXCEPT ![r] = K[r]]
    BY DEF WithCell, Lines
  <2>5. [N EXCEPT ![r] = [N[r] EXCEPT ![j] = y2]] = [L EXCEPT ![r] = [N[r] EXCEPT ![j] = y2]]
    <3> HIDE DEF N, M
    <3> QED
      BY <2>3 DEF Lines
  <2>6. [K EXCEPT ![r] = [K[r] EXCEPT ![j + 1] = z]] = [L EXCEPT ![r] = [K[r] EXCEPT ![j + 1] = z]]
    <3> HIDE DEF K
    <3> QED
      BY <2>4 DEF Lines
  <2> HIDE DEF N, M, K
  <2>7. WithCell(N, r, j, y2) = WithCell(K, r, j + 1, z)
    BY <2>2, <2>5, <2>6 DEF WithCell
  <2> QED
    BY <2>7 DEF K
<1> QED
  BY <1>3, <1>5, <1>6

LEMMA DrawPair ==
  ASSUME NEW R \in Nat \ {0}, NEW C \in Nat \ {0}, NEW L \in Lines(R, C),
         NEW r \in 1 .. R, NEW j \in 1 .. C, j < C, NEW s \in Texts, NEW x \in Texts, x # Tab, x \in Wide,
         \/ L[r][j].part = "whole" /\ L[r][j + 1].part = "whole"
         \/ L[r][j].part = "wide" /\ L[r][j + 1].part = "spacer",
         NEW cell, cell.marks \in Seq(STRING)
  PROVE  /\ Put(x) \o PushZerowidth(cell) \in Seq(Ops)
         /\ Replay(Term(L, R, r, j, No, s), Put(x) \o PushZerowidth(cell))
              = Term(WithCell(WithCell(L, r, j, Cell(x, "wide", s, cell.marks)),
                              r, j + 1, Cell(Blank, "spacer", s, <<>>)),
                     R, r, Next1(j + 1, C), Waits(j + 1, C), s)
<1> DEFINE y == Cell(x, "wide", s, <<>>)
           y2 == Cell(x, "wide", s, cell.marks)
           z == Cell(Blank, "spacer", s, <<>>)
           M == WithCell(WithCell(L, r, j, y), r, j + 1, z)
           N == WithCell(WithCell(L, r, j, y2), r, j + 1, z)
           to == Next1(j + 1, C)
           w == Waits(j + 1, C)
           t == Term(L, R, r, j, No, s)
           u == Term(M, R, r, to, w, s)
           v == Term(N, R, r, to, w, s)
<1>1. Replay(t, Put(x)) = u
  BY PutWideIs
<1>2. y \in Drawable /\ y.marks = <<>> /\ [y EXCEPT !.marks = cell.marks] = y2
  BY CellIs DEF Cell
<1>3. z \in Drawable /\ z.part = "spacer"
  BY SpacerIs
<1>4. M \in Lines(R, C) /\ M[r][j] = y /\ M[r][j + 1] = z /\ WithCell(M, r, j, y2) = N
  <2> HIDE DEF y, z, y2
  <2> QED
    BY <1>2, <1>3, SetPair
<1>5. Replay(u, PushZerowidth(cell)) = v
  <2>1. j = MarkCol(M, r, to, w)
    <3> HIDE DEF M, z
    <3> QED
      BY <1>3, <1>4, MarksOfPair
  <2>2. to \in 1 .. C
    <3>1. j + 1 \in 1 .. C
      OBVIOUS
    <3> QED
      BY <3>1, NextIn
  <2>3. [M[r][j] EXCEPT !.marks = cell.marks] = y2
    BY <1>2, <1>4
  <2>4. M[r][j].marks = <<>>
    BY <1>2, <1>4
  <2> HIDE DEF M, y2, to, w, N
  <2>5. Replay(u, PushZerowidth(cell))
          = Term(WithCell(M, r, j, [M[r][j] EXCEPT !.marks = cell.marks]), R, r, to, w, s)
    BY <1>4, <2>1, <2>2, <2>4, MarksAreDrawn
  <2> QED
    BY <1>4, <2>3, <2>5
<1>6. Put(x) \in Seq(Ops) /\ PushZerowidth(cell) \in Seq(Ops)
  BY OpsOf, OpsOfMarks
<1> HIDE DEF t, u, v
<1>7. Put(x) \o PushZerowidth(cell) \in Seq(Ops) /\ Replay(t, Put(x) \o PushZerowidth(cell)) = v
  BY <1>1, <1>5, <1>6, Then
<1> QED
  BY <1>7 DEF t, v, N, to, w, y2, z

\* A tab with its attributes and, but in the last column, its marks; then the cursor is right of it.
LEMMA DrawTab ==
  ASSUME NEW R \in Nat \ {0}, NEW C \in Nat \ {0}, NEW L \in Lines(R, C),
         NEW r \in 1 .. R, NEW j \in 1 .. C, NEW s \in Texts,
         L[r][j].part = "whole", NEW cell, cell.marks \in Seq(STRING), j = C => cell.marks = <<>>
  PROVE  /\ TabOps(cell, r, j) \in Seq(Ops)
         /\ Replay(Term(L, R, r, j, No, s), TabOps(cell, r, j))
              = Term(WithCell(L, r, j, Cell(Tab, "whole", s, cell.marks)), R, r, Next1(j, C), No, s)
<1> DEFINE b == Cell(Blank, "whole", s, <<>>)
           y == Cell(Tab, "whole", s, <<>>)
           z == Cell(Tab, "whole", s, cell.marks)
           K == WithCell(L, r, j, b)
           M == WithCell(L, r, j, y)
           N == WithCell(L, r, j, z)
           to == Next1(j, C)
           stop == NextStop(j, C)
           t0 == Term(L, R, r, j, No, s)
           t1 == Term(K, R, r, to, Waits(j, C), s)
           t2 == Term(K, R, r, j, No, s)
           t3 == Term(M, R, r, stop, No, s)
           t4 == Term(M, R, r, to, No, s)
           t5 == Term(N, R, r, to, No, s)
<1>0. j \in Nat /\ j + 1 \in Nat /\ r \in Nat
  OBVIOUS
<1>1. Replay(t0, Put(Blank)) = t1
  <2>1. Blank # Tab /\ Blank \notin Wide
    BY WideAssumption DEF Blank, Tab
  <2>2. Blank \in Texts
    BY TextsAre
  <2> QED
    BY <2>1, <2>2, PutWhole
<1>2. b \in Drawable /\ y \in Drawable /\ b.c = Blank /\ y.part = "whole"
  <2>1. Blank \in Texts /\ Tab \in Texts
    BY TextsAre
  <2>2. b \in Drawable
    BY <2>1, CellIs
  <2>3. y \in Drawable
    BY <2>1, CellIs
  <2> QED
    BY <2>2, <2>3 DEF Cell
<1>3. [b EXCEPT !.c = Tab] = y /\ y.marks = <<>> /\ [y EXCEPT !.marks = cell.marks] = z
  BY DEF Cell
<1>4. K \in Lines(R, C) /\ K[r][j] = b /\ \A x : WithCell(K, r, j, x) = WithCell(L, r, j, x)
  <2> HIDE DEF b
  <2> QED
    BY <1>2, CellSet
<1>5. M \in Lines(R, C) /\ M[r][j] = y /\ \A x : WithCell(M, r, j, x) = WithCell(L, r, j, x)
  <2> HIDE DEF y
  <2> QED
    BY <1>2, CellSet
<1>6. Replay(t1, Cup(r, j)) = t2
  <2>1. Replay(t1, Cup(r, j)) = Term(K, R, r, IF j > C THEN C ELSE j, No, s)
    <3> HIDE DEF K
    <3> QED
      BY <1>4, ApplyCup
  <2>2. ~ (j > C)
    OBVIOUS
  <2> QED
    BY <2>1, <2>2
<1>7. Replay(t2, Put(Tab)) = t3
  <2>1. WithCell(K, r, j, [K[r][j] EXCEPT !.c = Tab]) = M
    <3> HIDE DEF K, b, y
    <3> QED
      BY <1>3, <1>4
  <2>2. K[r][j].c = Blank
    BY <1>2, <1>4
  <2> HIDE DEF K, M
  <2>3. Replay(t2, Put(Tab)) = Term(WithCell(K, r, j, [K[r][j] EXCEPT !.c = Tab]), R, r, stop, No, s)
    BY <1>4, <2>2, PutTabIs
  <2> QED
    BY <2>1, <2>3
<1>8. Replay(t3, Cup(r, j + 1)) = t4
  <2>1. Replay(t3, Cup(r, j + 1)) = Term(M, R, r, IF j + 1 > C THEN C ELSE j + 1, No, s)
    <3> HIDE DEF M, stop
    <3> QED
      BY <1>5, ApplyCup
  <2>2. to = IF j + 1 > C THEN C ELSE j + 1
    BY DEF Next1
  <2> QED
    BY <2>1, <2>2
<1>9. Replay(t4, PushZerowidth(cell)) = t5
  <2>1. CASE j = C
    <3>1. cell.marks = <<>>
      BY <2>1
    <3>2. PushZerowidth(cell) = <<>>
      BY <3>1 DEF PushZerowidth
    <3>3. M = N
      BY <3>1
    <3> QED
      BY <3>2, <3>3, ReplayNone
  <2>2. CASE j < C
    <3>1. j = MarkCol(M, r, to, No)
      <4>1. No = Waits(j, C)
        BY <2>2 DEF Waits
      <4>2. M[r][j].part # "spacer"
        BY <1>2, <1>5
      <4> HIDE DEF M, to
      <4>3. MarkCol(M, r, Next1(j, C), Waits(j, C)) = j
        BY <4>2, MarksOfWhole
      <4> QED
        BY <4>1, <4>3 DEF to
    <3>2. to \in 1 .. C
      BY NextIn
    <3>3. WithCell(M, r, j, [M[r][j] EXCEPT !.marks = cell.marks]) = N
      <4> HIDE DEF M, y, z
      <4> QED
        BY <1>3, <1>5
    <3>4. M[r][j].marks = <<>>
      BY <1>3, <1>5
    <3> HIDE DEF M, to, N
    <3>5. Replay(t4, PushZerowidth(cell))
            = Term(WithCell(M, r, j, [M[r][j] EXCEPT !.marks = cell.marks]), R, r, to, No, s)
      BY <1>5, <3>1, <3>2, <3>4, MarksAreDrawn
    <3> QED
      BY <3>3, <3>5
  <2> QED
    BY <2>1, <2>2
<1>10. /\ Put(Blank) \in Seq(Ops) /\ Put(Tab) \in Seq(Ops) /\ PushZerowidth(cell) \in Seq(Ops)
       /\ Cup(r, j) \in Seq(Ops) /\ Cup(r, j + 1) \in Seq(Ops)
  BY <1>0, OpsOf, OpsOfMarks, TextsAre
<1> HIDE DEF t0, t1, t2, t3, t4, t5
<1> DEFINE a == Put(Blank) \o Cup(r, j)
           c == a \o Put(Tab)
           d == c \o Cup(r, j + 1)
           e == d \o PushZerowidth(cell)
<1>11. a \in Seq(Ops) /\ Replay(t0, a) = t2
  BY <1>1, <1>6, <1>10, Then
<1>12. c \in Seq(Ops) /\ Replay(t0, c) = t3
  <2> HIDE DEF a
  <2> QED
    BY <1>7, <1>10, <1>11, Then
<1>13. d \in Seq(Ops) /\ Replay(t0, d) = t4
  <2> HIDE DEF c
  <2> QED
    BY <1>8, <1>10, <1>12, Then
<1>14. e \in Seq(Ops) /\ Replay(t0, e) = t5
  <2> HIDE DEF d
  <2> QED
    BY <1>9, <1>10, <1>13, Then
<1>15. TabOps(cell, r, j) = e
  BY DEF TabOps
<1> QED
  BY <1>14, <1>15 DEF t0, t5

-----------------------------------------------------------------------------
(* A row of the grid, and what of it is drawn up to a column.              *)

IsLine(line, C) == line \in Seq(Cells) /\ Len(line) = C

\* (Unfaithful, of one line.)
Faithful(line) ==
  \A col \in 1 .. Len(line) :
    /\ PairedWide(line, col) => line[col].style = line[col + 1].style
    /\ line[col].marks # <<>> => ~ Orphan(line, col) /\ ~ (line[col].c = Tab /\ col = Len(line))

DrawnTo(line, k) == [i \in 1 .. Len(line) |-> IF i <= k THEN Drawn(line, i) ELSE Empty]
Placed(L, line, r, k) == [L EXCEPT ![r] = DrawnTo(line, k)]

LEMMA CellsAreDrawable ==
  ASSUME NEW x \in Cells
  PROVE  /\ x \in Drawable /\ x = Cell(x.c, x.part, x.style, x.marks)
         /\ x.c \in Texts /\ x.style \in Texts /\ x.marks \in Seq(STRING)
         /\ x.part \in {"whole", "wide", "spacer"}
         /\ x.part = "wide" <=> x.c \in Wide
<1>1. x \in [c : STRING, part : {"whole", "wide", "spacer"}, style : STRING, marks : Seq(STRING)]
      /\ (x.part = "wide" <=> x.c \in Wide)
  BY DEF Cells
<1>2. x.c \in Texts /\ x.style \in Texts
  BY <1>1 DEF Texts
<1>3. x \in Drawable
  BY <1>1, <1>2 DEF Drawable
<1>4. x = Cell(x.c, x.part, x.style, x.marks)
  BY <1>1 DEF Cell
<1> QED
  BY <1>1, <1>2, <1>3, <1>4

LEMMA CellAt ==
  ASSUME NEW C \in Nat \ {0}, NEW line, IsLine(line, C), NEW j \in 1 .. C
  PROVE  line[j] \in Cells
BY ElementOfSeq DEF IsLine

LEMMA OrphanDrawn ==
  ASSUME NEW C \in Nat \ {0}, NEW line, IsLine(line, C), Faithful(line), NEW j \in 1 .. C, Orphan(line, j)
  PROVE  /\ Drawn(line, j) = Cell(Blank, "whole", line[j].style, <<>>)
         /\ ~ PairedWide(line, j)
<1>1. line[j] \in Cells
  BY CellAt
<1>2. line[j].marks = <<>>
  BY DEF Faithful, IsLine
<1>3. line[j] = Cell(line[j].c, line[j].part, line[j].style, line[j].marks)
  BY <1>1, CellsAreDrawable
<1>4. Drawn(line, j) = [line[j] EXCEPT !.c = Blank, !.part = "whole"]
  BY DEF Drawn
<1>5. Drawn(line, j) = Cell(Blank, "whole", line[j].style, <<>>)
  BY <1>2, <1>3, <1>4 DEF Cell
<1> QED
  BY <1>5 DEF Orphan

LEMMA WholeDrawn ==
  ASSUME NEW C \in Nat \ {0}, NEW line, IsLine(line, C), NEW j \in 1 .. C,
         ~ Orphan(line, j), ~ PairedSpacer(line, j)
  PROVE  /\ Drawn(line, j) = line[j]
         /\ ~ PairedWide(line, j) => line[j].part = "whole"
         /\ PairedWide(line, j) <=> line[j].part = "wide"
BY DEF Drawn, Orphan, PairedWide

LEMMA PairDrawn ==
  ASSUME NEW C \in Nat \ {0}, NEW line, IsLine(line, C), Faithful(line), NEW j \in 1 .. C, PairedWide(line, j)
  PROVE  /\ j < C /\ PairedSpacer(line, j + 1)
         /\ Drawn(line, j + 1) = Cell(Blank, "spacer", line[j].style, <<>>)
<1>1. j < C /\ j + 1 \in 1 .. C /\ j + 1 > 1 /\ (j + 1) - 1 = j
  BY DEF PairedWide, IsLine
<1>2. PairedSpacer(line, j + 1)
  <2> DEFINE k == j + 1
  <2>1. line[k].part = "spacer" /\ k > 1 /\ line[k - 1].part = "wide"
    BY <1>1 DEF PairedWide
  <2> QED
    BY <2>1 DEF PairedSpacer
<1>3. ~ Orphan(line, j + 1)
  BY <1>2 DEF Orphan
<1>4. line[j + 1] \in Cells
  BY <1>1, CellAt
<1>5. line[j + 1] = Cell(line[j + 1].c, line[j + 1].part, line[j + 1].style, line[j + 1].marks)
  BY <1>4, CellsAreDrawable
<1>6. line[j].style = line[j + 1].style
  BY DEF Faithful, IsLine
<1>7. line[j + 1].part = "spacer"
  BY <1>2 DEF PairedSpacer
<1>8. Drawn(line, j + 1) = [line[j + 1] EXCEPT !.c = Blank, !.marks = <<>>]
  BY <1>2, <1>3 DEF Drawn
<1>9. Drawn(line, j + 1) = Cell(Blank, "spacer", line[j].style, <<>>)
  BY <1>5, <1>6, <1>7, <1>8 DEF Cell
<1> QED
  BY <1>1, <1>2, <1>9

LEMMA EmptyIs == Empty \in Drawable /\ Empty.part = "whole" /\ Empty.c = Blank
<1>1. Blank \in Texts /\ Plain \in Texts
  BY TextsAre
<1> QED
  BY <1>1, CellIs DEF Empty

LEMMA DrawnIn ==
  ASSUME NEW C \in Nat \ {0}, NEW line, IsLine(line, C), NEW j \in 1 .. C
  PROVE  Drawn(line, j) \in Drawable
<1> DEFINE x == line[j]
<1>1. x \in Drawable
  BY CellAt, CellsAreDrawable
<1>2. Blank \in Texts
  BY TextsAre
<1> HIDE DEF x
<1>3. [x EXCEPT !.c = Blank, !.part = "whole"] \in Drawable
  BY <1>1, <1>2 DEF Drawable
<1>4. [x EXCEPT !.c = Blank, !.marks = <<>>] \in Drawable
  <2>1. <<>> \in Seq(STRING)
    OBVIOUS
  <2> DEFINE none == <<>>
  <2> HIDE DEF none
  <2>2. none \in Seq(STRING)
    BY <2>1 DEF none
  <2>3. [x EXCEPT !.c = Blank, !.marks = none] \in Drawable
    BY <1>1, <1>2, <2>2 DEF Drawable
  <2> QED
    BY <2>3 DEF none
<1> QED
  BY <1>1, <1>3, <1>4 DEF Drawn, x

LEMMA PlacedIs ==
  ASSUME NEW R \in Nat \ {0}, NEW C \in Nat \ {0}, NEW L \in Lines(R, C), NEW r \in 1 .. R,
         NEW line, IsLine(line, C), NEW k \in 0 .. C
  PROVE  /\ Placed(L, line, r, k) \in Lines(R, C)
         /\ \A i \in 1 .. C : Placed(L, line, r, k)[r][i] = IF i <= k THEN Drawn(line, i) ELSE Empty
         /\ \A i \in 1 .. R : i # r => Placed(L, line, r, k)[i] = L[i]
<1>1. \A i \in 1 .. C : (IF i <= k THEN Drawn(line, i) ELSE Empty) \in Drawable
  BY DrawnIn, EmptyIs
<1>2. DrawnTo(line, k) \in [1 .. C -> Drawable]
  BY <1>1 DEF DrawnTo, IsLine
<1>3. Placed(L, line, r, k) \in Lines(R, C) /\ Placed(L, line, r, k)[r] = DrawnTo(line, k)
      /\ \A i \in 1 .. R : i # r => Placed(L, line, r, k)[i] = L[i]
  BY <1>2 DEF Placed, Lines
<1> QED
  BY <1>3 DEF DrawnTo, IsLine

LEMMA DrawOne ==
  ASSUME NEW R \in Nat \ {0}, NEW C \in Nat \ {0}, NEW L \in Lines(R, C), NEW r \in 1 .. R,
         NEW line, IsLine(line, C), NEW j \in 1 .. C
  PROVE  WithCell(Placed(L, line, r, j - 1), r, j, Drawn(line, j)) = Placed(L, line, r, j)
<1> DEFINE a == DrawnTo(line, j - 1)
           b == DrawnTo(line, j)
<1>1. [a EXCEPT ![j] = Drawn(line, j)] = b
  <2>1. \A i \in 1 .. C : i <= j <=> i <= j - 1 \/ i = j
    OBVIOUS
  <2>2. ~ (j <= j - 1)
    OBVIOUS
  <2> QED
    BY <2>1, <2>2 DEF DrawnTo, IsLine
<1>2. Placed(L, line, r, j - 1) = [L EXCEPT ![r] = a] /\ Placed(L, line, r, j) = [L EXCEPT ![r] = b]
  BY DEF Placed
<1> HIDE DEF a, b
<1> QED
  BY <1>1, <1>2 DEF WithCell, Lines

\* How far a row is drawn with a cell: the spacer of a glyph comes with it.
With(line, j) == IF j > 0 /\ PairedWide(line, j) THEN j + 1 ELSE j

\* ops takes a terminal to lines that are drawn up to column k, and to the next one.
Draws(t, ops, M, R, C, r, k, s) ==
  \E w : Replay(t, ops) = Term(M, R, r, Next1(k, C), w, s) /\ (k < C => w = No)

LEMMA CellIsDrawn ==
  ASSUME NEW R \in Nat \ {0}, NEW C \in Nat \ {0}, NEW L \in Lines(R, C), NEW r \in 1 .. R,
         NEW line, IsLine(line, C), Faithful(line), NEW j \in 1 .. C, ~ PairedSpacer(line, j),
         NEW k, k = With(line, j)
  PROVE  /\ CellOps(line, r, j) \in Seq(Ops) /\ k \in 1 .. C
         /\ Draws(Term(Placed(L, line, r, j - 1), R, r, j, No, line[j].style), CellOps(line, r, j),
                  Placed(L, line, r, k), R, C, r, k, line[j].style)
<1> DEFINE x == line[j]
           s == line[j].style
           K == Placed(L, line, r, j - 1)
           M == Placed(L, line, r, k)
           t == Term(K, R, r, j, No, s)
<1>0. j - 1 \in 0 .. C /\ ~ (j <= j - 1) /\ j > 0
  OBVIOUS
<1>1. K \in Lines(R, C) /\ K[r][j] = Empty /\ (j < C => K[r][j + 1] = Empty)
  <2>1. /\ K \in Lines(R, C)
        /\ \A i \in 1 .. C : K[r][i] = IF i <= j - 1 THEN Drawn(line, i) ELSE Empty
    BY <1>0, PlacedIs
  <2> HIDE DEF K
  <2>2. K[r][j] = Empty
    BY <1>0, <2>1
  <2>3. ASSUME j < C PROVE K[r][j + 1] = Empty
    <3>1. j + 1 \in 1 .. C /\ ~ (j + 1 <= j - 1)
      BY <2>3
    <3> QED
      BY <2>1, <3>1
  <2> QED
    BY <2>1, <2>2, <2>3
<1>2. x \in Cells /\ s \in Texts /\ x.c \in Texts /\ x.marks \in Seq(STRING)
      /\ x = Cell(x.c, x.part, x.style, x.marks) /\ (x.part = "wide" <=> x.c \in Wide)
  BY CellAt, CellsAreDrawable
<1>3. K[r][j].part = "whole"
  BY <1>1, EmptyIs
<1>4. WithCell(K, r, j, Drawn(line, j)) = Placed(L, line, r, j)
  BY DrawOne
<1>5. j < C => Waits(j, C) = No
  BY DEF Waits
<1> HIDE DEF K
<1>6. CASE Orphan(line, j)
  <2>1. k = j /\ Drawn(line, j) = Cell(Blank, "whole", s, <<>>)
    BY <1>6, OrphanDrawn DEF With
  <2>2. CellOps(line, r, j) = Put(Blank)
    BY <1>6 DEF CellOps
  <2>3. Blank # Tab /\ Blank \notin Wide
    BY WideAssumption DEF Blank, Tab
  <2>4. Blank \in Texts
    BY TextsAre
  <2>5. Replay(t, Put(Blank))
          = Term(WithCell(K, r, j, Cell(Blank, "whole", s, <<>>)), R, r, Next1(j, C), Waits(j, C), s)
    BY <1>1, <1>2, <1>3, <2>3, <2>4, PutWhole
  <2>6. Replay(t, CellOps(line, r, j)) = Term(M, R, r, Next1(k, C), Waits(j, C), s)
    BY <1>4, <2>1, <2>2, <2>5
  <2>7. CellOps(line, r, j) \in Seq(Ops)
    BY <2>2, <2>4, OpsOf
  <2> HIDE DEF t, M
  <2> DEFINE w == Waits(j, C)
  <2>11. Replay(t, CellOps(line, r, j)) = Term(M, R, r, Next1(k, C), w, s) /\ (k < C => w = No)
    BY <1>5, <2>1, <2>6
  <2> HIDE DEF w
  <2>12. Draws(t, CellOps(line, r, j), M, R, C, r, k, s)
    BY <2>11 DEF Draws
  <2> QED
    BY <2>12, <2>1, <2>7 DEF t, M, K
<1>7. CASE ~ Orphan(line, j) /\ x.c = Tab
  <2>1. x.part # "wide"
    BY <1>2, <1>7, WideAssumption
  <2>2. Drawn(line, j) = x /\ k = j /\ x.part = "whole"
    BY <1>0, <1>7, <2>1, WholeDrawn DEF With
  <2>3. CellOps(line, r, j) = TabOps(x, r, j)
    BY <1>7 DEF CellOps
  <2>4. j = C => x.marks = <<>>
    BY <1>7 DEF Faithful, IsLine
  <2>5. TabOps(x, r, j) \in Seq(Ops)
        /\ Replay(t, TabOps(x, r, j))
             = Term(WithCell(K, r, j, Cell(Tab, "whole", s, x.marks)), R, r, Next1(j, C), No, s)
    <3> HIDE DEF x
    <3> QED
      BY <1>1, <1>2, <1>3, <2>4, DrawTab
  <2>6. Cell(Tab, "whole", s, x.marks) = Drawn(line, j)
    BY <1>2, <1>7, <2>2
  <2>7. Replay(t, CellOps(line, r, j)) = Term(M, R, r, Next1(k, C), No, s)
    BY <1>4, <2>2, <2>3, <2>5, <2>6
  <2> HIDE DEF t, M
  <2> DEFINE w == No
  <2>11. Replay(t, CellOps(line, r, j)) = Term(M, R, r, Next1(k, C), w, s) /\ (k < C => w = No)
    BY <2>7
  <2> HIDE DEF w
  <2>12. Draws(t, CellOps(line, r, j), M, R, C, r, k, s)
    BY <2>11 DEF Draws
  <2> QED
    BY <2>12, <2>2, <2>3, <2>5 DEF t, M, K
<1>8. CASE ~ Orphan(line, j) /\ x.c # Tab /\ ~ PairedWide(line, j)
  <2>1. Drawn(line, j) = x /\ k = j /\ x.part = "whole"
    BY <1>8, WholeDrawn DEF With
  <2>2. x.c \notin Wide
    BY <1>2, <2>1
  <2>3. CellOps(line, r, j) = Put(x.c) \o PushZerowidth(x)
    BY <1>8 DEF CellOps, PushChar
  <2>4. Put(x.c) \o PushZerowidth(x) \in Seq(Ops)
        /\ Replay(t, Put(x.c) \o PushZerowidth(x))
             = Term(WithCell(K, r, j, Cell(x.c, "whole", s, x.marks)), R, r, Next1(j, C), Waits(j, C), s)
    <3> HIDE DEF x
    <3> QED
      BY <1>1, <1>2, <1>3, <1>8, <2>2, DrawWhole
  <2>5. Cell(x.c, "whole", s, x.marks) = Drawn(line, j)
    BY <1>2, <2>1
  <2>6. Replay(t, CellOps(line, r, j)) = Term(M, R, r, Next1(k, C), Waits(j, C), s)
    BY <1>4, <2>1, <2>3, <2>4, <2>5
  <2> HIDE DEF t, M
  <2> DEFINE w == Waits(j, C)
  <2>11. Replay(t, CellOps(line, r, j)) = Term(M, R, r, Next1(k, C), w, s) /\ (k < C => w = No)
    BY <1>5, <2>1, <2>6
  <2> HIDE DEF w
  <2>12. Draws(t, CellOps(line, r, j), M, R, C, r, k, s)
    BY <2>11 DEF Draws
  <2> QED
    BY <2>12, <2>1, <2>3, <2>4 DEF t, M, K
<1>9. CASE ~ Orphan(line, j) /\ x.c # Tab /\ PairedWide(line, j)
  <2>1. Drawn(line, j) = x /\ k = j + 1 /\ x.part = "wide"
    BY <1>0, <1>9, WholeDrawn DEF With
  <2>2. x.c \in Wide
    BY <1>2, <2>1
  <2>3. CellOps(line, r, j) = Put(x.c) \o PushZerowidth(x)
    BY <1>9 DEF CellOps, PushChar
  <2>4. j < C /\ Drawn(line, j + 1) = Cell(Blank, "spacer", s, <<>>)
    BY <1>9, PairDrawn
  <2>5. K[r][j + 1].part = "whole"
    BY <1>1, <2>4, EmptyIs
  <2>6. Put(x.c) \o PushZerowidth(x) \in Seq(Ops)
        /\ Replay(t, Put(x.c) \o PushZerowidth(x))
             = Term(WithCell(WithCell(K, r, j, Cell(x.c, "wide", s, x.marks)),
                             r, j + 1, Cell(Blank, "spacer", s, <<>>)),
                    R, r, Next1(j + 1, C), Waits(j + 1, C), s)
    <3> HIDE DEF x
    <3> QED
      BY <1>1, <1>2, <1>3, <1>9, <2>2, <2>4, <2>5, DrawPair
  <2>7. Cell(x.c, "wide", s, x.marks) = Drawn(line, j)
    BY <1>2, <2>1
  <2>8. WithCell(Placed(L, line, r, j), r, j + 1, Drawn(line, j + 1)) = Placed(L, line, r, j + 1)
    <3> DEFINE i == j + 1
    <3>1. i \in 1 .. C /\ i - 1 = j
      BY <2>4
    <3> HIDE DEF i
    <3>2. WithCell(Placed(L, line, r, i - 1), r, i, Drawn(line, i)) = Placed(L, line, r, i)
      BY <3>1, DrawOne
    <3> QED
      BY <3>1, <3>2 DEF i
  <2>9. Replay(t, CellOps(line, r, j)) = Term(M, R, r, Next1(k, C), Waits(k, C), s)
    BY <1>4, <2>1, <2>3, <2>4, <2>6, <2>7, <2>8
  <2>10. k \in 1 .. C /\ (k < C => Waits(k, C) = No)
    BY <2>1, <2>4 DEF Waits
  <2> HIDE DEF t, M
  <2> DEFINE w == Waits(k, C)
  <2>11. Replay(t, CellOps(line, r, j)) = Term(M, R, r, Next1(k, C), w, s) /\ (k < C => w = No)
    BY <2>9, <2>10
  <2> HIDE DEF w
  <2>12. Draws(t, CellOps(line, r, j), M, R, C, r, k, s)
    BY <2>11 DEF Draws
  <2> QED
    BY <2>12, <2>3, <2>6, <2>10 DEF t, M, K
<1> QED
  BY <1>6, <1>7, <1>8, <1>9

-----------------------------------------------------------------------------
(* The stream of a row draws it.                                           *)

RowStep(line, row, col, before) ==
  IF PairedSpacer(line, col) THEN before
  ELSE [ops |-> before.ops \o SyncSgr(before.state, line[col]) \o CellOps(line, row, col),
        state |-> line[col].style]

\* f is the stream of the row up to each of the first n columns, and the attributes after it.
RowUpTo(f, line, row, state, n) ==
  f = [col \in 0 .. n |-> IF col = 0 THEN [ops |-> <<>>, state |-> state]
                          ELSE RowStep(line, row, col, f[col - 1])]

LEMMA RowUpToSteps ==
  ASSUME NEW line, NEW row, NEW state, NEW n \in Nat, NEW f, RowUpTo(f, line, row, state, n)
  PROVE  /\ f[0] = [ops |-> <<>>, state |-> state]
         /\ \A i \in 1 .. n : f[i] = RowStep(line, row, i, f[i - 1])
<1>1. \A i \in 0 .. n : f[i] = IF i = 0 THEN [ops |-> <<>>, state |-> state]
                               ELSE RowStep(line, row, i, f[i - 1])
  BY DEF RowUpTo
<1>2. 0 \in 0 .. n /\ \A i \in 1 .. n : i \in 0 .. n /\ i # 0
  OBVIOUS
<1> QED
  BY <1>1, <1>2

LEMMA RowsExist ==
  ASSUME NEW line, NEW row, NEW state, NEW n \in Nat
  PROVE  \E f : RowUpTo(f, line, row, state, n)
<1> DEFINE t == [ops |-> <<>>, state |-> state]
           S == {i \in 0 .. n : \E f : RowUpTo(f, line, row, state, i)}
<1>1. 0 \in S
  <2> DEFINE f == [i \in 0 .. 0 |-> t]
  <2>1. RowUpTo(f, line, row, state, 0)
    <3>1. \A i \in 0 .. 0 : i = 0
      OBVIOUS
    <3>2. f = [i \in 0 .. 0 |-> IF i = 0 THEN t ELSE RowStep(line, row, i, f[i - 1])]
      BY <3>1
    <3> QED
      BY <3>2 DEF RowUpTo
  <2> QED
    BY <2>1
<1>2. ASSUME NEW k \in 1 .. n, k - 1 \in S PROVE k \in S
  <2>1. PICK f : RowUpTo(f, line, row, state, k - 1)
    BY <1>2
  <2>2. k - 1 \in Nat /\ k \in Nat /\ k # 0
    OBVIOUS
  <2>3. f[0] = t /\ \A i \in 1 .. k - 1 : f[i] = RowStep(line, row, i, f[i - 1])
    BY <2>1, <2>2, RowUpToSteps
  <2> DEFINE g == [i \in 0 .. k |-> IF i = k THEN RowStep(line, row, k, f[k - 1]) ELSE f[i]]
  <2> HIDE DEF t
  <2>4. \A i \in 0 .. k : g[i] = IF i = 0 THEN t ELSE RowStep(line, row, i, g[i - 1])
    <3> TAKE i \in 0 .. k
    <3>1. CASE i = 0
      BY <2>2, <2>3, <3>1
    <3>2. CASE i = k
      <4>1. k - 1 \in 0 .. k /\ k - 1 # k
        BY <2>2
      <4>2. g[k - 1] = f[k - 1] /\ g[k] = RowStep(line, row, k, f[k - 1])
        BY <4>1
      <4> HIDE DEF g
      <4> QED
        BY <2>2, <3>2, <4>2
    <3>3. CASE i # 0 /\ i # k
      <4>1. i \in 1 .. k - 1 /\ i - 1 \in 0 .. k /\ i - 1 # k
        BY <2>2, <3>3
      <4>2. g[i] = f[i] /\ g[i - 1] = f[i - 1]
        BY <3>3, <4>1
      <4> HIDE DEF g
      <4> QED
        BY <2>3, <3>3, <4>1, <4>2
    <3> QED
      BY <3>1, <3>2, <3>3
  <2>5. g = [i \in 0 .. k |-> g[i]]
    OBVIOUS
  <2> HIDE DEF g
  <2>6. g = [i \in 0 .. k |-> IF i = 0 THEN t ELSE RowStep(line, row, i, g[i - 1])]
    BY <2>4, <2>5
  <2> QED
    BY <2>6 DEF RowUpTo, t
<1> HIDE DEF S
<1>3. n \in S
  BY <1>1, <1>2, UpTo
<1> QED
  BY <1>3 DEF S

LEMMA RowOpsIs ==
  ASSUME NEW C \in Nat \ {0}, NEW line, IsLine(line, C), NEW row, NEW state
  PROVE  \E f : RowUpTo(f, line, row, state, C) /\ RowOps(line, row, state) = f[C]
<1> DEFINE f == CHOOSE h : RowUpTo(h, line, row, state, C)
<1>1. RowUpTo(f, line, row, state, C)
  <2>1. \E h : RowUpTo(h, line, row, state, C)
    BY RowsExist
  <2> QED
    BY <2>1, Zenon
<1>2. Len(line) = C
  BY DEF IsLine
<1>3. RowOps(line, row, state) = f[C]
  BY <1>2 DEF RowOps, RowUpTo, RowStep
<1> QED
  BY <1>1, <1>3

LEMMA RowIsDrawn ==
  ASSUME NEW R \in Nat \ {0}, NEW C \in Nat \ {0}, NEW L \in Lines(R, C), NEW r \in 1 .. R,
         NEW line, IsLine(line, C), Faithful(line), NEW state \in Texts,
         NEW row, row = RowOps(line, r, state)
  PROVE  /\ row.ops \in Seq(Ops) /\ row.state \in Texts
         /\ Draws(Term(Placed(L, line, r, 0), R, r, 1, No, state), row.ops,
                  Placed(L, line, r, C), R, C, r, C, row.state)
<1> DEFINE t == Term(Placed(L, line, r, 0), R, r, 1, No, state)
           To(k) == Placed(L, line, r, k)
<1>1. PICK f : RowUpTo(f, line, r, state, C) /\ row = f[C]
  BY RowOpsIs
<1>2. f[0] = [ops |-> <<>>, state |-> state] /\ \A i \in 1 .. C : f[i] = RowStep(line, r, i, f[i - 1])
  <2>1. \A i \in 0 .. C : f[i] = IF i = 0 THEN [ops |-> <<>>, state |-> state]
                                 ELSE RowStep(line, r, i, f[i - 1])
    BY <1>1 DEF RowUpTo
  <2>2. 0 \in 0 .. C /\ \A i \in 1 .. C : i \in 0 .. C /\ i # 0
    OBVIOUS
  <2> QED
    BY <2>1, <2>2
<1> DEFINE Is(j) == /\ f[j].ops \in Seq(Ops) /\ f[j].state \in Texts /\ With(line, j) \in 0 .. C
                    /\ Draws(t, f[j].ops, To(With(line, j)), R, C, r, With(line, j), f[j].state)
           S == {j \in 0 .. C : Is(j)}
<1>3. 0 \in S
  <2>1. With(line, 0) = 0
    BY DEF With
  <2>2. f[0].ops = <<>> /\ f[0].state = state /\ <<>> \in Seq(Ops)
    BY <1>2
  <2>3. Replay(t, <<>>) = t
    BY ReplayNone
  <2>4. Next1(0, C) = 1
    BY DEF Next1
  <2>5. Draws(t, <<>>, To(0), R, C, r, 0, state)
    BY <2>3, <2>4 DEF Draws
  <2> DEFINE none == <<>>
  <2>6. f[0].ops = none /\ none \in Seq(Ops) /\ Draws(t, none, To(0), R, C, r, 0, state)
    BY <2>2, <2>5
  <2> HIDE DEF t, To, none
  <2>7. Is(0)
    BY <2>1, <2>2, <2>6
  <2>8. 0 \in 0 .. C
    OBVIOUS
  <2> HIDE DEF Is
  <2> QED
    BY <2>7, <2>8
<1>4. ASSUME NEW j \in 1 .. C, j - 1 \in S PROVE j \in S
  <2> DEFINE k == With(line, j - 1)
             m == With(line, j)
             b == f[j - 1]
             x == line[j]
             a == SyncSgr(b.state, x)
             c == CellOps(line, r, j)
  <2>1. Is(j - 1)
    BY <1>4
  <2>2. f[j] = RowStep(line, r, j, b)
    BY <1>2
  <2>3. CASE PairedSpacer(line, j)
    <3>1. f[j] = b
      BY <2>2, <2>3 DEF RowStep
    <3>2. j - 1 > 0 /\ PairedWide(line, j - 1) /\ ~ PairedWide(line, j)
      <4>1. j - 1 > 0 /\ line[j].part = "spacer" /\ line[j - 1].part = "wide" /\ j - 1 < Len(line) /\ (j - 1) + 1 = j
        BY <2>3 DEF PairedSpacer, IsLine
      <4> QED
        BY <4>1 DEF PairedWide
    <3>3. k = j /\ m = j
      BY <3>2 DEF With
    <3> HIDE DEF t, To
    <3> QED
      BY <2>1, <3>1, <3>3
  <2>4. CASE ~ PairedSpacer(line, j)
    <3>1. f[j].ops = b.ops \o a \o c /\ f[j].state = x.style
      <4> DEFINE d == b.ops \o a \o c
      <4>1. f[j] = [ops |-> d, state |-> x.style]
        <5> HIDE DEF b
        <5> QED
          BY <2>2, <2>4 DEF RowStep
      <4> HIDE DEF d, x
      <4>2. f[j].ops = d /\ f[j].state = x.style
        BY <4>1
      <4> QED
        BY <4>2 DEF d
    <3>2. k = j - 1
      <4>1. ~ (j - 1 > 0 /\ PairedWide(line, j - 1))
        <5> SUFFICES ASSUME j - 1 > 0, PairedWide(line, j - 1) PROVE FALSE
          OBVIOUS
        <5>1. (j - 1) + 1 = j /\ j > 1 /\ j - 1 \in 1 .. C
          OBVIOUS
        <5>2. line[j].part = "spacer" /\ line[j - 1].part = "wide"
          BY <5>1 DEF PairedWide
        <5> QED
          BY <2>4, <5>1, <5>2 DEF PairedSpacer
      <4> QED
        BY <4>1 DEF With
    <3>3. x.style \in Texts
      BY CellAt, CellsAreDrawable
    <3>4. Replay(t, b.ops) = Term(To(j - 1), R, r, j, No, b.state) /\ b.ops \in Seq(Ops) /\ b.state \in Texts
      <4>1. Draws(t, b.ops, To(j - 1), R, C, r, j - 1, b.state) /\ b.ops \in Seq(Ops) /\ b.state \in Texts
        BY <2>1, <3>2
      <4>2. Next1(j - 1, C) = j /\ j - 1 < C
        BY DEF Next1
      <4> HIDE DEF t, To, b
      <4>3. PICK w : Replay(t, b.ops) = Term(To(j - 1), R, r, Next1(j - 1, C), w, b.state) /\ (j - 1 < C => w = No)
        BY <4>1 DEF Draws
      <4> QED
        BY <4>1, <4>2, <4>3
    <3>5. a \in Seq(Ops) /\ Replay(Term(To(j - 1), R, r, j, No, b.state), a) = Term(To(j - 1), R, r, j, No, x.style)
      <4> HIDE DEF To, b, x
      <4> QED
        BY <3>3, <3>4, SyncIs
    <3>6. /\ c \in Seq(Ops) /\ m \in 1 .. C
          /\ Draws(Term(To(j - 1), R, r, j, No, x.style), c, To(m), R, C, r, m, x.style)
      BY <2>4, CellIsDrawn
    <3> HIDE DEF t, To, a, b, c, x, m
    <3>7. PICK w : Replay(Term(To(j - 1), R, r, j, No, x.style), c) = Term(To(m), R, r, Next1(m, C), w, x.style)
                   /\ (m < C => w = No)
      BY <3>6 DEF Draws
    <3>8. b.ops \o a \in Seq(Ops) /\ Replay(t, b.ops \o a) = Term(To(j - 1), R, r, j, No, x.style)
      BY <3>4, <3>5, Then
    <3> DEFINE d == b.ops \o a
    <3>12. d \in Seq(Ops) /\ Replay(t, d) = Term(To(j - 1), R, r, j, No, x.style)
      BY <3>8
    <3> HIDE DEF d
    <3>9. d \o c \in Seq(Ops) /\ Replay(t, d \o c) = Term(To(m), R, r, Next1(m, C), w, x.style)
      BY <3>6, <3>7, <3>12, Then
    <3>10. Draws(t, d \o c, To(m), R, C, r, m, x.style)
      BY <3>7, <3>9 DEF Draws
    <3>11. f[j].ops = d \o c
      BY <3>1 DEF d
    <3>13. Is(j)
      BY <3>1, <3>3, <3>6, <3>9, <3>10, <3>11 DEF m
    <3> QED
      BY <3>13
  <2> QED
    BY <2>3, <2>4
<1> HIDE DEF S
<1>5. C \in S
  BY <1>3, <1>4, UpTo
<1>6. With(line, C) = C
  BY DEF With, PairedWide, IsLine
<1> HIDE DEF t, To
<1>7. Draws(t, row.ops, To(C), R, C, r, C, row.state) /\ row.ops \in Seq(Ops) /\ row.state \in Texts
  BY <1>1, <1>5, <1>6 DEF S
<1> QED
  BY <1>7 DEF t, To

-----------------------------------------------------------------------------
(* The stream of the screen draws its rows.                                *)

RowsStep(g, row, before) ==
  LET this == RowOps(ViewLine(g, row), row, before.state)
  IN  [ops |-> before.ops \o Cup(row, 1) \o this.ops, state |-> this.state]

ScreenUpTo(f, g, n) ==
  f = [row \in 0 .. n |-> IF row = 0 THEN [ops |-> Sgr(Plain), state |-> Plain]
                          ELSE RowsStep(g, row, f[row - 1])]

LEMMA ScreensExist ==
  ASSUME NEW g, NEW n \in Nat
  PROVE  \E f : ScreenUpTo(f, g, n)
<1> DEFINE t == [ops |-> Sgr(Plain), state |-> Plain]
           S == {i \in 0 .. n : \E f : ScreenUpTo(f, g, i)}
<1>1. 0 \in S
  <2> DEFINE f == [i \in 0 .. 0 |-> t]
  <2>1. ScreenUpTo(f, g, 0)
    <3>1. \A i \in 0 .. 0 : i = 0
      OBVIOUS
    <3>2. f = [i \in 0 .. 0 |-> IF i = 0 THEN t ELSE RowsStep(g, i, f[i - 1])]
      BY <3>1
    <3> QED
      BY <3>2 DEF ScreenUpTo
  <2> QED
    BY <2>1
<1>2. ASSUME NEW k \in 1 .. n, k - 1 \in S PROVE k \in S
  <2>1. PICK f : ScreenUpTo(f, g, k - 1)
    BY <1>2
  <2>2. k - 1 \in Nat /\ k \in Nat /\ k # 0
    OBVIOUS
  <2>3. f[0] = t /\ \A i \in 1 .. k - 1 : f[i] = RowsStep(g, i, f[i - 1])
    <3>1. \A i \in 0 .. k - 1 : f[i] = IF i = 0 THEN t ELSE RowsStep(g, i, f[i - 1])
      BY <2>1 DEF ScreenUpTo
    <3>2. 0 \in 0 .. k - 1 /\ \A i \in 1 .. k - 1 : i \in 0 .. k - 1 /\ i # 0
      BY <2>2
    <3> HIDE DEF t
    <3> QED
      BY <3>1, <3>2
  <2> DEFINE h == [i \in 0 .. k |-> IF i = k THEN RowsStep(g, k, f[k - 1]) ELSE f[i]]
  <2> HIDE DEF t
  <2>4. \A i \in 0 .. k : h[i] = IF i = 0 THEN t ELSE RowsStep(g, i, h[i - 1])
    <3> TAKE i \in 0 .. k
    <3>1. CASE i = 0
      BY <2>2, <2>3, <3>1
    <3>2. CASE i = k
      <4>1. k - 1 \in 0 .. k /\ k - 1 # k
        BY <2>2
      <4>2. h[k - 1] = f[k - 1] /\ h[k] = RowsStep(g, k, f[k - 1])
        BY <4>1
      <4> HIDE DEF h
      <4> QED
        BY <2>2, <3>2, <4>2
    <3>3. CASE i # 0 /\ i # k
      <4>1. i \in 1 .. k - 1 /\ i - 1 \in 0 .. k /\ i - 1 # k
        BY <2>2, <3>3
      <4>2. h[i] = f[i] /\ h[i - 1] = f[i - 1]
        BY <3>3, <4>1
      <4> HIDE DEF h
      <4> QED
        BY <2>3, <3>3, <4>1, <4>2
    <3> QED
      BY <3>1, <3>2, <3>3
  <2>5. h = [i \in 0 .. k |-> h[i]]
    OBVIOUS
  <2> HIDE DEF h
  <2>6. h = [i \in 0 .. k |-> IF i = 0 THEN t ELSE RowsStep(g, i, h[i - 1])]
    BY <2>4, <2>5
  <2> QED
    BY <2>6 DEF ScreenUpTo, t
<1> HIDE DEF S
<1>3. n \in S
  BY <1>1, <1>2, UpTo
<1> QED
  BY <1>3 DEF S

LEMMA ScreenOpsIs ==
  ASSUME NEW g, NEW R \in Nat, R = g.rows
  PROVE  \E f : ScreenUpTo(f, g, R) /\ ScreenOps(g) = f[R]
<1> DEFINE f == CHOOSE h : ScreenUpTo(h, g, R)
<1>1. ScreenUpTo(f, g, R)
  <2>1. \E h : ScreenUpTo(h, g, R)
    BY ScreensExist
  <2> QED
    BY <2>1, Zenon
<1>2. ScreenOps(g) = f[R]
  BY DEF ScreenOps, ScreenUpTo, RowsStep
<1> QED
  BY <1>1, <1>2

\* The rows of the view, drawn from the first on.
RowsShown(g, R, C, k) ==
  [i \in 1 .. R |-> IF i <= k THEN DrawnTo(ViewLine(g, i), C) ELSE [c \in 1 .. C |-> Empty]]

\* ops takes a terminal to the lines M, wherever its cursor is then.
LinesShow(t, ops, M, R, s) == \E a, b, w : Replay(t, ops) = Term(M, R, a, b, w, s)

LEMMA ShownIn ==
  ASSUME NEW R \in Nat \ {0}, NEW C \in Nat \ {0}, NEW g,
         \A i \in 1 .. R : IsLine(ViewLine(g, i), C), NEW k
  PROVE  RowsShown(g, R, C, k) \in Lines(R, C)
<1>1. ASSUME NEW i \in 1 .. R
      PROVE  (IF i <= k THEN DrawnTo(ViewLine(g, i), C) ELSE [c \in 1 .. C |-> Empty]) \in [1 .. C -> Drawable]
  <2> DEFINE l == ViewLine(g, i)
  <2>1. IsLine(l, C)
    OBVIOUS
  <2> HIDE DEF l
  <2>2. \A j \in 1 .. C : j <= C /\ Drawn(l, j) \in Drawable
    BY <2>1, DrawnIn
  <2>3. DrawnTo(l, C) \in [1 .. C -> Drawable]
    BY <2>1, <2>2 DEF DrawnTo, IsLine
  <2>4. [c \in 1 .. C |-> Empty] \in [1 .. C -> Drawable]
    BY EmptyIs
  <2> QED
    BY <2>3, <2>4 DEF l
<1> QED
  BY <1>1 DEF RowsShown, Lines

LEMMA ShownNext ==
  ASSUME NEW R \in Nat \ {0}, NEW C \in Nat \ {0}, NEW g,
         \A i \in 1 .. R : IsLine(ViewLine(g, i), C), NEW k \in 1 .. R, NEW L, L = RowsShown(g, R, C, k - 1)
  PROVE  /\ Placed(L, ViewLine(g, k), k, 0) = L
         /\ Placed(L, ViewLine(g, k), k, C) = RowsShown(g, R, C, k)
<1> DEFINE l == ViewLine(g, k)
<1>1. Len(l) = C
  BY DEF IsLine
<1>2. L[k] = [c \in 1 .. C |-> Empty]
  <2>1. ~ (k <= k - 1)
    OBVIOUS
  <2> QED
    BY <2>1 DEF RowsShown
<1>3. DrawnTo(l, 0) = [c \in 1 .. C |-> Empty]
  <2>1. \A c \in 1 .. C : ~ (c <= 0)
    OBVIOUS
  <2> HIDE DEF l
  <2> QED
    BY <1>1, <2>1 DEF DrawnTo
<1>4. DOMAIN L = 1 .. R /\ L = [i \in 1 .. R |-> L[i]]
  BY DEF RowsShown
<1>5. [L EXCEPT ![k] = DrawnTo(l, 0)] = L
  BY <1>2, <1>3, <1>4
<1>6. [L EXCEPT ![k] = DrawnTo(l, C)] = RowsShown(g, R, C, k)
  <2>1. \A i \in 1 .. R : i # k => (i <= k <=> i <= k - 1)
    OBVIOUS
  <2>2. k <= k
    OBVIOUS
  <2> DEFINE e == [c \in 1 .. C |-> Empty]
  <2> HIDE DEF e
  <2>3. \A i \in 1 .. R : L[i] = IF i <= k - 1 THEN DrawnTo(ViewLine(g, i), C) ELSE e
    BY DEF RowsShown, e
  <2>4. RowsShown(g, R, C, k) = [i \in 1 .. R |-> IF i <= k THEN DrawnTo(ViewLine(g, i), C) ELSE e]
    BY DEF RowsShown, e
  <2> DEFINE d == DrawnTo(l, C)
  <2>5. \A i \in 1 .. R : [L EXCEPT ![k] = d][i] = IF i <= k THEN DrawnTo(ViewLine(g, i), C) ELSE e
    <3> TAKE i \in 1 .. R
    <3>1. CASE i = k
      BY <1>4, <2>2, <3>1
    <3>2. CASE i # k
      <4> HIDE DEF d, l
      <4> QED
        BY <1>4, <2>1, <2>3, <3>2
    <3> QED
      BY <3>1, <3>2
  <2> HIDE DEF d
  <2> QED
    BY <1>4, <2>4, <2>5 DEF d
<1> QED
  BY <1>5, <1>6 DEF Placed

LEMMA ScreenIsDrawn ==
  ASSUME NEW R \in Nat \ {0}, NEW C \in Nat \ {0}, NEW g, R = g.rows,
         \A i \in 1 .. R : IsLine(ViewLine(g, i), C) /\ Faithful(ViewLine(g, i)),
         NEW screen, screen = ScreenOps(g)
  PROVE  /\ screen.ops \in Seq(Ops) /\ screen.state \in Texts
         /\ LinesShow(FreshTerm(R, C), screen.ops, RowsShown(g, R, C, R), R, screen.state)
<1> DEFINE t == FreshTerm(R, C)
           To(k) == RowsShown(g, R, C, k)
<1>1. PICK f : ScreenUpTo(f, g, R) /\ screen = f[R]
  BY ScreenOpsIs
<1>2. f[0] = [ops |-> Sgr(Plain), state |-> Plain] /\ \A i \in 1 .. R : f[i] = RowsStep(g, i, f[i - 1])
  <2>1. \A i \in 0 .. R : f[i] = IF i = 0 THEN [ops |-> Sgr(Plain), state |-> Plain]
                                 ELSE RowsStep(g, i, f[i - 1])
    BY <1>1 DEF ScreenUpTo
  <2>2. 0 \in 0 .. R /\ \A i \in 1 .. R : i \in 0 .. R /\ i # 0
    OBVIOUS
  <2> QED
    BY <2>1, <2>2
<1>3. \A k : To(k) \in Lines(R, C)
  BY ShownIn
<1> DEFINE Is(j) == /\ f[j].ops \in Seq(Ops) /\ f[j].state \in Texts
                    /\ LinesShow(t, f[j].ops, To(j), R, f[j].state)
           S == {j \in 0 .. R : Is(j)}
<1>4. 0 \in S
  <2> DEFINE a == Sgr(Plain)
  <2>1. f[0].ops = a /\ f[0].state = Plain
    <3> HIDE DEF a
    <3> QED
      BY <1>2 DEF a
  <2>2. a \in Seq(Ops) /\ Plain \in Texts
    <3>1. Plain \in Texts
      BY TextsAre
    <3> QED
      BY <3>1, OpsOf
  <2>3. To(0) = [i \in 1 .. R |-> [c \in 1 .. C |-> Empty]]
    <3>1. \A i \in 1 .. R : ~ (i <= 0)
      OBVIOUS
    <3> QED
      BY <3>1 DEF RowsShown
  <2>4. t = Term(To(0), R, 1, 1, No, Plain)
    <3> HIDE DEF To
    <3> QED
      BY <2>3 DEF Term, FreshTerm, No
  <2>5. Replay(Term(To(0), R, 1, 1, No, Plain), a) = Term(To(0), R, 1, 1, No, Plain)
    BY ApplySgr
  <2> HIDE DEF a, t, To
  <2>6. LinesShow(t, a, To(0), R, Plain)
    BY <2>4, <2>5 DEF LinesShow
  <2>7. Is(0)
    BY <2>1, <2>2, <2>6
  <2>8. 0 \in 0 .. R
    OBVIOUS
  <2> HIDE DEF Is
  <2> QED
    BY <2>7, <2>8
<1>5. ASSUME NEW j \in 1 .. R, j - 1 \in S PROVE j \in S
  <2> DEFINE b == f[j - 1]
             l == ViewLine(g, j)
             this == RowOps(l, j, b.state)
             c == Cup(j, 1)
             K == To(j - 1)
  <2>1. Is(j - 1)
    BY <1>5
  <2>2. f[j].ops = b.ops \o c \o this.ops /\ f[j].state = this.state
    <3> DEFINE d == b.ops \o c \o this.ops
               e == this.state
    <3>1. f[j] = [ops |-> d, state |-> e]
      <4> HIDE DEF b
      <4>1. f[j] = RowsStep(g, j, b)
        BY <1>2 DEF b
      <4> QED
        BY <4>1 DEF RowsStep
    <3> HIDE DEF d, e
    <3>2. f[j].ops = d /\ f[j].state = e
      BY <3>1
    <3> QED
      BY <3>2 DEF d, e
  <2>3. IsLine(l, C) /\ Faithful(l) /\ K \in Lines(R, C)
    BY <1>3
  <2>4. Placed(K, l, j, 0) = K /\ Placed(K, l, j, C) = To(j)
    BY ShownNext
  <2>5. c \in Seq(Ops)
    <3>1. j \in Nat /\ 1 \in Nat
      OBVIOUS
    <3> QED
      BY <3>1, OpsOf
  <2> HIDE DEF t, To, c, b, l, this
  <2>6. PICK x, y, w : Replay(t, b.ops) = Term(K, R, x, y, w, b.state)
    BY <2>1 DEF LinesShow, b
  <2>7. b.ops \in Seq(Ops) /\ b.state \in Texts
    BY <2>1 DEF b
  <2>8. Replay(Term(K, R, x, y, w, b.state), c) = Term(K, R, j, 1, No, b.state)
    <3>1. Replay(Term(K, R, x, y, w, b.state), Cup(j, 1)) = Term(K, R, j, IF 1 > C THEN C ELSE 1, No, b.state)
      <4> HIDE DEF K
      <4> QED
        BY <2>3, ApplyCup
    <3>2. ~ (1 > C)
      OBVIOUS
    <3> QED
      BY <3>1, <3>2 DEF c
  <2> HIDE DEF K
  <2>9. /\ this.ops \in Seq(Ops) /\ this.state \in Texts
        /\ Draws(Term(Placed(K, l, j, 0), R, j, 1, No, b.state), this.ops,
                 Placed(K, l, j, C), R, C, j, C, this.state)
    BY <2>3, <2>7, RowIsDrawn DEF this
  <2>10. PICK v : Replay(Term(K, R, j, 1, No, b.state), this.ops) = Term(To(j), R, j, Next1(C, C), v, this.state)
    BY <2>4, <2>9 DEF Draws
  <2> DEFINE d == b.ops \o c
  <2>11. d \in Seq(Ops) /\ Replay(t, d) = Term(K, R, j, 1, No, b.state)
    BY <2>5, <2>6, <2>7, <2>8, Then
  <2> HIDE DEF d
  <2> DEFINE e == d \o this.ops
  <2>12. e \in Seq(Ops) /\ Replay(t, e) = Term(To(j), R, j, Next1(C, C), v, this.state)
    BY <2>9, <2>10, <2>11, Then
  <2>13. f[j].ops = e /\ f[j].state = this.state
    BY <2>2 DEF d
  <2> HIDE DEF e
  <2>14. LinesShow(t, e, To(j), R, this.state)
    BY <2>12 DEF LinesShow
  <2>15. Is(j)
    BY <2>9, <2>12, <2>13, <2>14
  <2> HIDE DEF Is
  <2> QED
    BY <2>15
<1> HIDE DEF S
<1>6. R \in S
  BY <1>4, <1>5, UpTo
<1> HIDE DEF t, To
<1>7. Is(R)
  BY <1>6 DEF S
<1> QED
  BY <1>1, <1>7 DEF t, To

-----------------------------------------------------------------------------
(* The cursor, and what of its cell is rewritten for it to wait.           *)

\* A grid that is reproduced, with R rows of C columns.
Sound(g, R, C) ==
  /\ R \in Nat \ {0} /\ C \in Nat \ {0} /\ R = g.rows
  /\ \A i \in 1 .. R : IsLine(ViewLine(g, i), C) /\ Faithful(ViewLine(g, i))
  /\ g.row \in 1 .. R /\ g.col \in 1 .. C
  /\ g.wrap \in BOOLEAN /\ (g.wrap => g.col = C)
  /\ Cols(g) = C
  /\ g.offset = 0 => \A i \in 1 .. R : Line(g, i) = ViewLine(g, i)

\* The lines M show the grid.
IsSeen(g, M, R, C) ==
  /\ M \in Lines(R, C)
  /\ \A row \in 1 .. R, col \in 1 .. C : M[row][col] = Seen(g, row, col)

\* ops takes a terminal to the lines M and the cursor of the grid.
Ends(t, ops, M, R, g) ==
  \E v, s : Replay(t, ops) = Term(M, R, g.row, g.col, v, s) /\ (g.offset = 0 => v = g.wrap)

LEMMA ShownCells ==
  ASSUME NEW R, NEW C, NEW g, Sound(g, R, C), NEW L, L = RowsShown(g, R, C, R)
  PROVE  /\ L \in Lines(R, C)
         /\ \A row \in 1 .. R, col \in 1 .. C : L[row][col] = Drawn(ViewLine(g, row), col)
<1>1. L \in Lines(R, C)
  BY ShownIn DEF Sound
<1>2. ASSUME NEW row \in 1 .. R, NEW col \in 1 .. C PROVE L[row][col] = Drawn(ViewLine(g, row), col)
  <2>1. row <= R /\ col <= C /\ Len(ViewLine(g, row)) = C
    BY DEF Sound, IsLine
  <2>2. L[row] = DrawnTo(ViewLine(g, row), C)
    BY <2>1 DEF RowsShown
  <2> QED
    BY <2>1, <2>2 DEF DrawnTo
<1> QED
  BY <1>1, <1>2

\* No cell but the last one of the row of a cursor that waits is seen otherwise.
LEMMA SeenIsDrawn ==
  ASSUME NEW R, NEW C, NEW g, Sound(g, R, C), NEW row, NEW col,
         ~ (g.offset = 0 /\ g.wrap /\ g.row = row /\ col = C)
  PROVE  Seen(g, row, col) = Drawn(ViewLine(g, row), col)
BY DEF Seen, Sound

LEMMA CursorAddressed ==
  ASSUME NEW R, NEW C, NEW g, Sound(g, R, C), NEW L, L = RowsShown(g, R, C, R), NEW state \in Texts,
         NEW a, NEW b, NEW w, ~ (g.offset = 0 /\ g.wrap)
  PROVE  /\ CursorOps(g, state) \in Seq(Ops) /\ IsSeen(g, L, R, C)
         /\ Ends(Term(L, R, a, b, w, state), CursorOps(g, state), L, R, g)
<1> DEFINE t == Term(L, R, a, b, w, state)
<1>1. R \in Nat \ {0} /\ C \in Nat \ {0} /\ g.row \in Nat /\ g.col \in Nat /\ ~ (g.col > C)
  BY DEF Sound
<1>2. CursorOps(g, state) = Cup(g.row, g.col)
  BY DEF CursorOps
<1>3. L \in Lines(R, C) /\ \A row \in 1 .. R, col \in 1 .. C : L[row][col] = Drawn(ViewLine(g, row), col)
  BY ShownCells
<1>4. Replay(t, Cup(g.row, g.col)) = Term(L, R, g.row, IF g.col > C THEN C ELSE g.col, No, state)
  BY <1>1, <1>3, ApplyCup
<1>5. g.offset = 0 => No = g.wrap
  BY DEF Sound, No
<1> HIDE DEF t
<1>6. Ends(t, Cup(g.row, g.col), L, R, g)
  BY <1>1, <1>4, <1>5 DEF Ends
<1>7. IsSeen(g, L, R, C)
  BY <1>3, SeenIsDrawn DEF IsSeen
<1>8. Cup(g.row, g.col) \in Seq(Ops)
  BY <1>1, OpsOf
<1> QED
  BY <1>2, <1>6, <1>7, <1>8 DEF t

\* The glyph in the last two columns is written over itself.
LEMMA CursorAfterPair ==
  ASSUME NEW R, NEW C, NEW g, Sound(g, R, C), NEW L, L = RowsShown(g, R, C, R), NEW state \in Texts,
         NEW a, NEW b, NEW w, g.offset = 0, g.wrap, PairedSpacer(ViewLine(g, g.row), C)
  PROVE  /\ CursorOps(g, state) \in Seq(Ops) /\ IsSeen(g, L, R, C)
         /\ Ends(Term(L, R, a, b, w, state), CursorOps(g, state), L, R, g)
<1> DEFINE t == Term(L, R, a, b, w, state)
           row == g.row
           line == ViewLine(g, row)
           j == C - 1
           x == line[j]
<1>1. /\ R \in Nat \ {0} /\ C \in Nat \ {0} /\ row \in 1 .. R /\ row \in Nat /\ g.col = C /\ g.wrap = Yes
      /\ Cols(g) = C /\ Line(g, row) = line /\ IsLine(line, C) /\ Faithful(line)
  BY DEF Sound, Yes
<1>2. j \in 1 .. C /\ j < C /\ j + 1 = C /\ x.part = "wide" /\ PairedWide(line, j)
  <2>1. C > 1 /\ line[C].part = "spacer" /\ line[C - 1].part = "wide"
    BY DEF PairedSpacer
  <2>2. j \in 1 .. C /\ j < C /\ j + 1 = C
    BY <1>1, <2>1
  <2> HIDE DEF line
  <2> QED
    BY <1>1, <2>1, <2>2 DEF PairedWide, IsLine
<1>3. x \in Cells
  BY <1>1, <1>2, CellAt
<1>4. /\ x.c \in Texts /\ x.style \in Texts /\ x.marks \in Seq(STRING) /\ x.c \in Wide
      /\ x = Cell(x.c, x.part, x.style, x.marks)
  <2> HIDE DEF x
  <2> QED
    BY <1>2, <1>3, CellsAreDrawable
<1>5. x.c # Tab /\ x.c \in Wide
  BY <1>4, WideAssumption
<1> DEFINE c1 == Cup(row, j)
           c2 == SyncSgr(state, x)
           c3 == Put(x.c)
           c4 == PushZerowidth(x)
<1>6. CursorOps(g, state) = c1 \o c2 \o c3 \o c4
  <2>1. Line(g, g.row) = line /\ C - 1 # C /\ Cols(g) = C
    BY <1>1
  <2> HIDE DEF line
  <2> QED
    BY <1>5, <2>1 DEF CursorOps, line
<1>7. L \in Lines(R, C) /\ \A i \in 1 .. R, col \in 1 .. C : L[i][col] = Drawn(ViewLine(g, i), col)
  BY ShownCells
<1>8. /\ L[row][j] = Drawn(line, j) /\ L[row][j + 1] = Drawn(line, j + 1)
      /\ Drawn(line, j) = x /\ Drawn(line, j + 1) = Cell(Blank, "spacer", x.style, <<>>)
  <2>1. L[row][j] = Drawn(line, j) /\ L[row][j + 1] = Drawn(line, j + 1)
    BY <1>1, <1>2, <1>7
  <2>2. Drawn(line, j + 1) = Cell(Blank, "spacer", x.style, <<>>)
    BY <1>1, <1>2, PairDrawn
  <2>3. Drawn(line, j) = x
    BY <1>2 DEF Drawn, Orphan, PairedSpacer
  <2> QED
    BY <2>1, <2>2, <2>3
<1> HIDE DEF t, x, line, j
<1>9. Replay(t, c1) = Term(L, R, row, j, No, state) /\ c1 \in Seq(Ops)
  <2>1. Replay(t, c1) = Term(L, R, row, IF j > C THEN C ELSE j, No, state)
    BY <1>1, <1>7, ApplyCup DEF t
  <2>2. ~ (j > C) /\ j \in Nat
    BY <1>1, <1>2
  <2>3. c1 \in Seq(Ops)
    BY <1>1, <2>2, OpsOf
  <2> QED
    BY <2>1, <2>2, <2>3
<1>10. c2 \in Seq(Ops) /\ Replay(Term(L, R, row, j, No, state), c2) = Term(L, R, row, j, No, x.style)
  BY <1>4, SyncIs
<1> DEFINE N == WithCell(WithCell(L, row, j, Cell(x.c, "wide", x.style, x.marks)),
                         row, j + 1, Cell(Blank, "spacer", x.style, <<>>))
           to == Next1(j + 1, C)
           v == Waits(j + 1, C)
<1>11. c3 \o c4 \in Seq(Ops) /\ Replay(Term(L, R, row, j, No, x.style), c3 \o c4) = Term(N, R, row, to, v, x.style)
  <2>1. L[row][j].part = "wide" /\ L[row][j + 1].part = "spacer"
    BY <1>2, <1>8 DEF Cell
  <2> QED
    BY <1>1, <1>2, <1>4, <1>5, <1>7, <2>1, DrawPair
<1>12. N = L
  <2>1. Cell(x.c, "wide", x.style, x.marks) = L[row][j]
    BY <1>2, <1>4, <1>8
  <2>2. Cell(Blank, "spacer", x.style, <<>>) = L[row][j + 1]
    BY <1>8
  <2>3. ASSUME NEW i \in 1 .. C PROVE WithCell(L, row, i, L[row][i]) = L
    BY <1>1, <1>7 DEF WithCell, Lines
  <2>4. j + 1 \in 1 .. C
    BY <1>2
  <2> QED
    BY <1>2, <2>1, <2>2, <2>3, <2>4
<1>13. to = g.col /\ v = g.wrap
  <2>1. ~ (j + 1 < C) /\ g.col = C /\ g.wrap = Yes
    <3>1. ~ (j + 1 < C)
      BY <1>1, <1>2
    <3>2. g.col = C
      BY <1>1
    <3>3. g.wrap = Yes
      BY <1>1, Zenon
    <3> QED
      BY <3>1, <3>2, <3>3, Zenon
  <2>2. to = C
    BY <2>1 DEF Next1
  <2>3. v = Yes
    BY <2>1 DEF Waits
  <2> HIDE DEF to, v
  <2> QED
    BY <2>1, <2>2, <2>3
<1>14. c3 \in Seq(Ops) /\ c4 \in Seq(Ops)
  BY <1>4, OpsOf, OpsOfMarks
<1> HIDE DEF c1, c2, c3, c4, N, to, v
<1> DEFINE d == c1 \o c2
<1>15. d \in Seq(Ops) /\ Replay(t, d) = Term(L, R, row, j, No, x.style)
  BY <1>9, <1>10, Then
<1> DEFINE e == c3 \o c4
           end == Term(L, R, row, g.col, g.wrap, x.style)
<1> HIDE DEF d
<1>16. d \o c3 \o c4 = d \o e
  <2>1. d \in Seq(Ops) /\ c3 \in Seq(Ops) /\ c4 \in Seq(Ops)
    BY <1>14, <1>15
  <2> QED
    BY <2>1, ConcatAssociative
<1>17. e \in Seq(Ops) /\ Replay(Term(L, R, row, j, No, x.style), e) = end
  BY <1>11, <1>12, <1>13
<1> HIDE DEF e, end
<1>18. d \o e \in Seq(Ops) /\ Replay(t, d \o e) = end
  BY <1>15, <1>17, Then
<1>19. CursorOps(g, state) = d \o e
  BY <1>6, <1>16 DEF d
<1>20. Ends(t, d \o e, L, R, g)
  BY <1>18 DEF Ends, end
<1>21. IsSeen(g, L, R, C)
  <2> SUFFICES ASSUME NEW i \in 1 .. R, NEW col \in 1 .. C PROVE L[i][col] = Seen(g, i, col)
    BY <1>7 DEF IsSeen
  <2>1. L[i][col] = Drawn(ViewLine(g, i), col)
    BY <1>7
  <2>2. CASE i = row /\ col = C
    <3>1. Drawn(ViewLine(g, i), col).c # Tab
      <4>1. Drawn(ViewLine(g, i), col) = Cell(Blank, "spacer", x.style, <<>>)
        BY <1>2, <1>8, <2>2 DEF line
      <4>2. Cell(Blank, "spacer", x.style, <<>>).c = Blank
        BY DEF Cell
      <4>3. Blank # Tab
        BY DEF Blank, Tab
      <4> QED
        BY <4>1, <4>2, <4>3
    <3> QED
      BY <2>1, <3>1 DEF Seen
  <2>3. CASE ~ (i = row /\ col = C)
    BY <2>1, <2>3, SeenIsDrawn
  <2> QED
    BY <2>2, <2>3
<1> QED
  BY <1>18, <1>19, <1>20, <1>21 DEF t

\* What is written into the last cell: it is what is seen there.
LEMMA LastIsSeen ==
  ASSUME NEW R, NEW C, NEW g, Sound(g, R, C), g.offset = 0, g.wrap,
         NEW line, line = ViewLine(g, g.row), ~ PairedSpacer(line, C),
         NEW x, x = line[C], NEW y, y = IF x.c = Tab \/ x.part = "wide" THEN Blank ELSE x.c
  PROVE  /\ y \in Texts /\ y # Tab /\ y \notin Wide
         /\ x.style \in Texts /\ x.marks \in Seq(STRING)
         /\ Drawn(line, C).part = "whole"
         /\ Cell(y, "whole", x.style, x.marks) = Seen(g, g.row, C)
<1>1. C \in Nat \ {0} /\ C \in 1 .. C /\ IsLine(line, C) /\ Faithful(line) /\ Cols(g) = C
  BY DEF Sound
<1>2. x \in Cells
  BY <1>1, CellAt
<1>3. /\ x.c \in Texts /\ x.style \in Texts /\ x.marks \in Seq(STRING) /\ x.part \in {"whole", "wide", "spacer"}
      /\ x = Cell(x.c, x.part, x.style, x.marks) /\ (x.part = "wide" <=> x.c \in Wide)
  BY <1>2, CellsAreDrawable
<1>4. Blank # Tab /\ Blank \notin Wide /\ Tab \notin Wide
  BY WideAssumption DEF Blank, Tab
<1>5. y \in Texts /\ y # Tab /\ y \notin Wide
  <2>1. Blank \in Texts
    BY TextsAre
  <2> QED
    BY <1>3, <1>4, <2>1
<1> DEFINE d == Drawn(line, C)
<1>6. Seen(g, g.row, C) = IF d.c = Tab THEN [d EXCEPT !.c = Blank] ELSE d
  BY <1>1 DEF Seen
<1>7. CASE Orphan(line, C)
  <2>1. d = Cell(Blank, "whole", x.style, <<>>)
    BY <1>1, <1>7, OrphanDrawn
  <2>2. x.marks = <<>>
    BY <1>1, <1>7 DEF Faithful, IsLine
  <2>3. x.part # "whole"
    BY <1>7 DEF Orphan
  <2>4. y = Blank
    <3>1. CASE x.part = "wide"
      BY <3>1
    <3>2. CASE x.part = "spacer"
      <4>1. x.c \in {Blank, Tab}
        BY <1>2, <3>2 DEF Cells
      <4> QED
        BY <3>2, <4>1
    <3> QED
      BY <1>3, <2>3, <3>1, <3>2
  <2>5. d.c = Blank /\ d.part = "whole"
    BY <2>1 DEF Cell
  <2> HIDE DEF d
  <2>6. Seen(g, g.row, C) = d
    BY <1>4, <1>6, <2>5
  <2>7. Cell(y, "whole", x.style, x.marks) = d
    BY <2>1, <2>2, <2>4
  <2> QED
    BY <1>3, <1>5, <2>5, <2>6, <2>7 DEF d
<1>8. CASE ~ Orphan(line, C)
  <2>1. ~ PairedWide(line, C)
    BY <1>1 DEF PairedWide, IsLine
  <2>2. d = x /\ x.part = "whole"
    BY <1>1, <1>8, <2>1, WholeDrawn
  <2>3. Cell(y, "whole", x.style, x.marks) = IF x.c = Tab THEN [x EXCEPT !.c = Blank] ELSE x
    <3>1. CASE x.c = Tab
      <4>1. x = Cell(x.c, "whole", x.style, x.marks) /\ y = Blank
        BY <1>3, <2>2, <3>1
      <4>2. [x EXCEPT !.c = Blank] = Cell(Blank, "whole", x.style, x.marks)
        BY <4>1 DEF Cell
      <4> QED
        BY <3>1, <4>1, <4>2
    <3>2. CASE x.c # Tab
      BY <1>3, <2>2, <3>2
    <3> QED
      BY <3>1, <3>2
  <2> HIDE DEF d
  <2>4. Cell(y, "whole", x.style, x.marks) = Seen(g, g.row, C)
    BY <1>6, <2>2, <2>3
  <2> QED
    BY <1>3, <1>5, <2>2, <2>4 DEF d
<1> QED
  BY <1>7, <1>8

LEMMA CursorInLast ==
  ASSUME NEW R, NEW C, NEW g, Sound(g, R, C), NEW L, L = RowsShown(g, R, C, R), NEW state \in Texts,
         NEW a, NEW b, NEW w, g.offset = 0, g.wrap, ~ PairedSpacer(ViewLine(g, g.row), C)
  PROVE  /\ CursorOps(g, state) \in Seq(Ops)
         /\ \E M : IsSeen(g, M, R, C) /\ Ends(Term(L, R, a, b, w, state), CursorOps(g, state), M, R, g)
<1> DEFINE t == Term(L, R, a, b, w, state)
           row == g.row
           line == ViewLine(g, row)
           x == line[C]
           y == IF x.c = Tab \/ x.part = "wide" THEN Blank ELSE x.c
           z == Cell(y, "whole", x.style, x.marks)
<1>1. /\ R \in Nat \ {0} /\ C \in Nat \ {0} /\ C \in 1 .. C /\ row \in 1 .. R /\ row \in Nat /\ g.col = C
      /\ Cols(g) = C /\ Line(g, row) = line
  BY DEF Sound
<1>2. g.wrap = Yes
  <2>1. g.wrap \in BOOLEAN
    BY DEF Sound
  <2> QED
    BY <2>1 DEF Yes
<1> DEFINE c1 == Cup(row, C)
           c2 == SyncSgr(state, x)
           c3 == Put(y)
           c4 == PushZerowidth(x)
<1>3. CursorOps(g, state) = c1 \o c2 \o c3 \o c4
  <2>1. Line(g, g.row) = line /\ Cols(g) = C
    BY <1>1
  <2> HIDE DEF line
  <2> QED
    BY <2>1 DEF CursorOps, line
<1>4. L \in Lines(R, C) /\ \A i \in 1 .. R, col \in 1 .. C : L[i][col] = Drawn(ViewLine(g, i), col)
  BY ShownCells
<1>5. /\ y \in Texts /\ y # Tab /\ y \notin Wide
      /\ x.style \in Texts /\ x.marks \in Seq(STRING)
      /\ Drawn(line, C).part = "whole" /\ z = Seen(g, row, C)
  BY LastIsSeen
<1>6. z \in Drawable
  <2> HIDE DEF y
  <2> QED
    BY <1>5 DEF Cell, Drawable
<1>7. L[row][C].part = "whole"
  BY <1>1, <1>4, <1>5
<1> HIDE DEF t, x, y, line
<1>8. Replay(t, c1) = Term(L, R, row, C, No, state) /\ c1 \in Seq(Ops)
  <2>1. Replay(t, c1) = Term(L, R, row, IF C > C THEN C ELSE C, No, state)
    BY <1>1, <1>4, ApplyCup DEF t
  <2>2. C \in Nat
    BY <1>1
  <2>3. c1 \in Seq(Ops)
    BY <1>1, <2>2, OpsOf
  <2> QED
    BY <2>1, <2>3
<1>9. c2 \in Seq(Ops) /\ Replay(Term(L, R, row, C, No, state), c2) = Term(L, R, row, C, No, x.style)
  BY <1>5, SyncIs
<1> DEFINE N == WithCell(L, row, C, z)
           to == Next1(C, C)
           v == Waits(C, C)
           end == Term(N, R, row, g.col, g.wrap, x.style)
<1>10. c3 \o c4 \in Seq(Ops) /\ Replay(Term(L, R, row, C, No, x.style), c3 \o c4) = Term(N, R, row, to, v, x.style)
  BY <1>1, <1>4, <1>5, <1>7, DrawWhole
<1>11. to = g.col /\ v = g.wrap
  <2>1. ~ (C < C)
    BY <1>1
  <2>2. to = C
    BY <2>1 DEF Next1
  <2>3. v = Yes
    BY <2>1 DEF Waits
  <2> HIDE DEF to, v
  <2>4. to = g.col
    BY <1>1, <2>2
  <2>5. v = g.wrap
    BY <1>2, <2>3, Zenon
  <2> QED
    BY <2>4, <2>5, Zenon
<1>12. c3 \in Seq(Ops) /\ c4 \in Seq(Ops)
  BY <1>5, OpsOf, OpsOfMarks
<1> HIDE DEF c1, c2, c3, c4, N, to, v
<1> DEFINE d == c1 \o c2
           e == c3 \o c4
<1>13. d \in Seq(Ops) /\ Replay(t, d) = Term(L, R, row, C, No, x.style)
  BY <1>8, <1>9, Then
<1> HIDE DEF d
<1>14. d \o c3 \o c4 = d \o e
  <2>1. d \in Seq(Ops) /\ c3 \in Seq(Ops) /\ c4 \in Seq(Ops)
    BY <1>12, <1>13
  <2> QED
    BY <2>1, ConcatAssociative
<1>15. e \in Seq(Ops) /\ Replay(Term(L, R, row, C, No, x.style), e) = end
  BY <1>10, <1>11
<1> HIDE DEF e, end
<1>16. d \o e \in Seq(Ops) /\ Replay(t, d \o e) = end
  BY <1>13, <1>15, Then
<1>17. CursorOps(g, state) = d \o e
  BY <1>3, <1>14 DEF d
<1>18. Ends(t, d \o e, N, R, g)
  BY <1>16 DEF Ends, end
<1>19. IsSeen(g, N, R, C)
  <2>0. N \in Lines(R, C) /\ N[row][C] = z
        /\ \A i \in 1 .. R : i # row => N[i] = L[i]
    <3> HIDE DEF z
    <3>1. row \in 1 .. R /\ C \in 1 .. C /\ R \in Nat \ {0} /\ C \in Nat \ {0}
      BY <1>1
    <3> HIDE DEF row
    <3>2. N \in Lines(R, C)
      BY <1>4, <1>6, <3>1, CellSet DEF N
    <3>3. N[row] = [L[row] EXCEPT ![C] = z] /\ \A i \in 1 .. R : i # row => N[i] = L[i]
      BY <1>4, <3>1 DEF N, WithCell, Lines
    <3>4. L[row] \in [1 .. C -> Drawable]
      BY <1>4, <3>1 DEF Lines
    <3> QED
      BY <3>1, <3>2, <3>3, <3>4
  <2> SUFFICES ASSUME NEW i \in 1 .. R, NEW col \in 1 .. C PROVE N[i][col] = Seen(g, i, col)
    BY <2>0 DEF IsSeen
  <2>1. L[i][col] = Drawn(ViewLine(g, i), col)
    BY <1>4
  <2>2. CASE i = row /\ col = C
    BY <1>5, <2>0, <2>2
  <2>3. CASE ~ (i = row /\ col = C)
    <3>1. N[i][col] = L[i][col]
      <4>1. CASE i # row
        BY <2>0, <4>1
      <4>2. CASE i = row /\ col # C
        <5> HIDE DEF z
        <5>0. row \in 1 .. R /\ C \in 1 .. C /\ R \in Nat \ {0} /\ C \in Nat \ {0} /\ col # C
          BY <1>1, <4>2
        <5> HIDE DEF row
        <5>1. N[row][col] = L[row][col]
          BY <1>4, <5>0, SetElsewhere DEF N
        <5> QED
          BY <4>2, <5>1
      <4> QED
        BY <2>3, <4>1, <4>2
    <3>2. Seen(g, i, col) = Drawn(ViewLine(g, i), col)
      BY <2>3, SeenIsDrawn
    <3> QED
      BY <2>1, <3>1, <3>2
  <2> QED
    BY <2>2, <2>3
<1> QED
  BY <1>16, <1>17, <1>18, <1>19 DEF t

LEMMA CursorIsPut ==
  ASSUME NEW R, NEW C, NEW g, Sound(g, R, C), NEW L, L = RowsShown(g, R, C, R), NEW state \in Texts,
         NEW a, NEW b, NEW w
  PROVE  /\ CursorOps(g, state) \in Seq(Ops)
         /\ \E M : IsSeen(g, M, R, C) /\ Ends(Term(L, R, a, b, w, state), CursorOps(g, state), M, R, g)
<1>1. CASE ~ (g.offset = 0 /\ g.wrap)
  BY <1>1, CursorAddressed
<1>2. CASE g.offset = 0 /\ g.wrap /\ PairedSpacer(ViewLine(g, g.row), C)
  BY <1>2, CursorAfterPair
<1>3. CASE g.offset = 0 /\ g.wrap /\ ~ PairedSpacer(ViewLine(g, g.row), C)
  BY <1>3, CursorInLast
<1> QED
  BY <1>1, <1>2, <1>3

-----------------------------------------------------------------------------
(* The whole stream, and the plain text.                                   *)

LEMMA GridIsSound ==
  ASSUME NEW g, IsGrid(g), ~ Unfaithful(g)
  PROVE  Sound(g, g.rows, Cols(g)) /\ g.shown \in BOOLEAN
<1> DEFINE n == Len(g.lines)
           R == g.rows
           C == Cols(g)
<1>1. /\ n \in Nat /\ R \in 1 .. n /\ g.offset \in 0 .. n - R /\ g.row \in 1 .. R /\ g.col \in 1 .. C
      /\ g.lines \in Seq(Seq(Cells)) /\ \A i \in 1 .. n : Len(g.lines[i]) = C /\ g.lines[i] \in Seq(Cells)
  <2>1. n \in Nat /\ DOMAIN g.lines = 1 .. n /\ \A i \in 1 .. n : g.lines[i] \in Seq(Cells)
    BY LenProperties, ElementOfSeq DEF IsGrid
  <2> QED
    BY <2>1 DEF IsGrid
<1>2. C \in Nat \ {0} /\ R \in Nat \ {0}
  <2>1. 1 \in 1 .. n
    BY <1>1
  <2>2. C \in Nat
    <3>1. Len(g.lines[1]) \in Nat
      BY <1>1, <2>1, LenProperties
    <3> QED
      BY <3>1 DEF Cols
  <2> HIDE DEF C
  <2> QED
    BY <1>1, <2>2
<1> HIDE DEF C, n
<1>3. ASSUME NEW i \in 1 .. R PROVE IsLine(ViewLine(g, i), C)
  <2>1. n - R + i - g.offset \in 1 .. n
    BY <1>1
  <2> QED
    BY <1>1, <2>1 DEF ViewLine, IsLine, n
<1>4. ASSUME NEW i \in 1 .. R PROVE Faithful(ViewLine(g, i))
  <2>1. \A col \in 1 .. C :
          ~ LET line == ViewLine(g, i)
            IN  \/ PairedWide(line, col) /\ line[col].style # line[col + 1].style
                \/ line[col].marks # <<>> /\ (Orphan(line, col) \/ (line[col].c = Tab /\ col = C))
    BY DEF Unfaithful, C
  <2>2. Len(ViewLine(g, i)) = C
    BY <1>3 DEF IsLine
  <2> QED
    BY <2>1, <2>2 DEF Faithful
<1>5. ASSUME g.offset = 0, NEW i \in 1 .. R PROVE Line(g, i) = ViewLine(g, i)
  <2>1. n - R + i - g.offset = n - R + i
    BY <1>1, <1>5
  <2> QED
    BY <2>1 DEF Line, ViewLine, n
<1>6. g.wrap \in BOOLEAN /\ g.shown \in BOOLEAN /\ (g.wrap => g.col = C)
  BY DEF IsGrid, C
<1> QED
  BY <1>1, <1>2, <1>3, <1>4, <1>5, <1>6 DEF Sound, C

LEMMA FormattedIs ==
  ASSUME NEW R, NEW C, NEW g, Sound(g, R, C), g.shown \in BOOLEAN
  PROVE  \E M, v : /\ IsSeen(g, M, R, C) /\ (g.offset = 0 => v = g.wrap)
                   /\ Replay(FreshTerm(R, C), Formatted(g))
                        = [Term(M, R, g.row, g.col, v, Plain) EXCEPT !.shown = g.shown]
<1> DEFINE screen == ScreenOps(g)
           t == FreshTerm(R, C)
           L == RowsShown(g, R, C, R)
           o == Op(IF g.shown THEN "show" ELSE "hide", "", 0, 0)
           c1 == screen.ops
           c2 == CursorOps(g, screen.state)
           c3 == Sgr(Plain)
           c4 == <<o>>
<1>1. Formatted(g) = c1 \o c2 \o c3 \o c4
  BY DEF Formatted
<1>2. c1 \in Seq(Ops) /\ screen.state \in Texts /\ LinesShow(t, c1, L, R, screen.state)
  <2>1. /\ R \in Nat \ {0} /\ C \in Nat \ {0} /\ R = g.rows
        /\ \A i \in 1 .. R : IsLine(ViewLine(g, i), C) /\ Faithful(ViewLine(g, i))
    BY DEF Sound
  <2> HIDE DEF screen
  <2>2. screen = ScreenOps(g)
    BY DEF screen
  <2> QED
    BY <2>1, <2>2, ScreenIsDrawn
<1> DEFINE state == screen.state
<1> HIDE DEF t, L, screen, state
<1>3. PICK a, b, w : Replay(t, c1) = Term(L, R, a, b, w, state)
  BY <1>2 DEF LinesShow, state
<1>4. state \in Texts /\ L = RowsShown(g, R, C, R)
  BY <1>2 DEF state, L
<1>5. CursorOps(g, state) \in Seq(Ops)
      /\ \E M : IsSeen(g, M, R, C) /\ Ends(Term(L, R, a, b, w, state), CursorOps(g, state), M, R, g)
  BY <1>4, CursorIsPut
<1>6. c2 \in Seq(Ops) /\ c2 = CursorOps(g, state)
  BY <1>5 DEF state
<1>7. PICK M : IsSeen(g, M, R, C) /\ Ends(Term(L, R, a, b, w, state), CursorOps(g, state), M, R, g)
  BY <1>5
<1> HIDE DEF c1, c2
<1>8. PICK v, s : Replay(Term(L, R, a, b, w, state), c2) = Term(M, R, g.row, g.col, v, s)
                  /\ (g.offset = 0 => v = g.wrap)
  BY <1>6, <1>7 DEF Ends
<1> DEFINE u3 == Term(M, R, g.row, g.col, v, Plain)
           u4 == [u3 EXCEPT !.shown = g.shown]
           d1 == c1 \o c2
           d2 == d1 \o c3
           d3 == d2 \o c4
<1>9. c3 \in Seq(Ops) /\ Replay(Term(M, R, g.row, g.col, v, s), c3) = u3
  <2>1. Plain \in Texts
    BY TextsAre
  <2> QED
    BY <2>1, OpsOf, ApplySgr
<1>10. c4 \in Seq(Ops) /\ Replay(u3, c4) = u4
  <2>1. o \in Ops
    BY TextsAre DEF Op, Ops
  <2>2. Apply(u3, o) = u4
    <3>1. CASE g.shown
      <4>1. o.op = "show" /\ g.shown = TRUE
        BY <3>1 DEF Op
      <4> HIDE DEF o, u3
      <4> QED
        BY <4>1 DEF Apply
    <3>2. CASE ~ g.shown
      <4>1. o.op = "hide" /\ g.shown = FALSE
        BY <3>2 DEF Op
      <4> HIDE DEF o, u3
      <4> QED
        BY <4>1 DEF Apply
    <3> QED
      BY <3>1, <3>2
  <2> HIDE DEF o, u3, u4
  <2>3. Replay(u3, <<o>>) = Apply(u3, o)
    BY ReplayOne
  <2> QED
    BY <2>1, <2>2, <2>3
<1> HIDE DEF c3, c4, u3, u4
<1>11. d1 \in Seq(Ops) /\ Replay(t, d1) = Term(M, R, g.row, g.col, v, s)
  <2>1. c1 \in Seq(Ops)
    BY <1>2
  <2> QED
    BY <1>3, <1>6, <1>8, <2>1, Then
<1> HIDE DEF d1
<1>12. d2 \in Seq(Ops) /\ Replay(t, d2) = u3
  BY <1>9, <1>11, Then
<1> HIDE DEF d2
<1>13. d3 \in Seq(Ops) /\ Replay(t, d3) = u4
  BY <1>10, <1>12, Then
<1>14. Formatted(g) = d3
  BY <1>1 DEF d1, d2
<1> HIDE DEF d3
<1>15. Replay(t, Formatted(g)) = [Term(M, R, g.row, g.col, v, Plain) EXCEPT !.shown = g.shown]
  BY <1>13, <1>14 DEF u4, u3
<1> QED
  BY <1>7, <1>8, <1>15 DEF t

\* A cell is read as text from what is seen of it as it is from the grid.
LEMMA CellTextIs ==
  ASSUME NEW R, NEW C, NEW g, Sound(g, R, C), NEW M, IsSeen(g, M, R, C), NEW row \in 1 .. R,
         NEW line, line = ViewLine(g, row), NEW col \in 1 .. C
  PROVE  CellText(M[row], col) = CellText(line, col)
<1> DEFINE m == M[row]
           D(i) == Drawn(line, i)
<1>1. IsLine(line, C) /\ Faithful(line) /\ C \in Nat \ {0} /\ R \in Nat \ {0} /\ Len(line) = C
  BY DEF Sound, IsLine
<1>2. Len(m) = C
  <2>1. m \in [1 .. C -> Drawable]
    BY DEF IsSeen, Lines
  <2> QED
    BY <1>1, <2>1
<1>3. ASSUME NEW i \in 1 .. C
      PROVE  m[i] = D(i) \/ (D(i).c = Tab /\ m[i] = [D(i) EXCEPT !.c = Blank])
  <2>1. m[i] = Seen(g, row, i)
    BY DEF IsSeen
  <2> QED
    BY <2>1 DEF Seen
<1>4. ASSUME NEW i \in 1 .. C
      PROVE  /\ m[i].part = D(i).part /\ m[i].style = D(i).style /\ m[i].marks = D(i).marks
             /\ m[i].c = D(i).c \/ (D(i).c = Tab /\ m[i].c = Blank)
  <2>1. D(i) \in Drawable
    BY <1>1, DrawnIn
  <2> HIDE DEF D, m
  <2>2. m[i] = D(i) \/ (D(i).c = Tab /\ m[i] = [D(i) EXCEPT !.c = Blank])
    BY <1>3
  <2> QED
    BY <2>1, <2>2 DEF Drawable
<1>5. ASSUME NEW i \in 1 .. C
      PROVE  /\ D(i).part = IF Orphan(line, i) THEN "whole" ELSE line[i].part
             /\ D(i).style = line[i].style
             /\ ~ PairedSpacer(line, i) => D(i).marks = line[i].marks
             /\ Orphan(line, i) => D(i).c = Blank
             /\ ~ Orphan(line, i) /\ ~ PairedSpacer(line, i) => D(i).c = line[i].c
  <2> DEFINE x == line[i]
  <2>1. x \in Drawable
    BY <1>1, CellAt, CellsAreDrawable
  <2>2. Orphan(line, i) => ~ PairedSpacer(line, i)
    BY DEF Orphan
  <2>3. D(i) = IF Orphan(line, i) THEN [x EXCEPT !.c = Blank, !.part = "whole"]
               ELSE IF PairedSpacer(line, i) THEN [x EXCEPT !.c = Blank, !.marks = <<>>]
               ELSE x
    BY DEF Drawn
  <2> HIDE DEF x, D
  <2>4. CASE Orphan(line, i)
    <3>1. D(i) = [x EXCEPT !.c = Blank, !.part = "whole"]
      BY <2>3, <2>4
    <3>2. D(i).part = "whole" /\ D(i).style = x.style /\ D(i).marks = x.marks /\ D(i).c = Blank
      BY <2>1, <3>1 DEF Drawable
    <3> QED
      BY <2>4, <3>2 DEF x
  <2>5. CASE PairedSpacer(line, i)
    <3>1. D(i) = [x EXCEPT !.c = Blank, !.marks = <<>>]
      BY <2>2, <2>3, <2>5
    <3>2. D(i).part = x.part /\ D(i).style = x.style
      BY <2>1, <3>1 DEF Drawable
    <3> QED
      BY <2>2, <2>5, <3>2 DEF x
  <2>6. CASE ~ Orphan(line, i) /\ ~ PairedSpacer(line, i)
    BY <2>3, <2>6 DEF x
  <2> QED
    BY <2>4, <2>5, <2>6
<1> HIDE DEF m, D
<1>6. PairedSpacer(m, col) <=> PairedSpacer(line, col)
  <2>1. ASSUME PairedSpacer(line, col) PROVE PairedSpacer(m, col)
    <3>1. line[col].part = "spacer" /\ col > 1 /\ line[col - 1].part = "wide" /\ col - 1 \in 1 .. C
          /\ (col - 1) + 1 = col /\ col - 1 < C
      BY <1>1, <2>1 DEF PairedSpacer
    <3>2. ~ Orphan(line, col)
      BY <2>1 DEF Orphan
    <3>3. PairedWide(line, col - 1)
      BY <1>1, <3>1 DEF PairedWide
    <3>4. ~ Orphan(line, col - 1)
      BY <3>3 DEF Orphan
    <3>5. m[col].part = "spacer" /\ m[col - 1].part = "wide"
      BY <1>4, <1>5, <3>1, <3>2, <3>4
    <3> QED
      BY <3>1, <3>5 DEF PairedSpacer
  <2>2. ASSUME PairedSpacer(m, col) PROVE PairedSpacer(line, col)
    <3>1. m[col].part = "spacer"
      BY <2>2 DEF PairedSpacer
    <3>2. D(col).part = "spacer"
      BY <1>4, <3>1
    <3>3. ~ Orphan(line, col) /\ line[col].part = "spacer"
      BY <1>5, <3>2
    <3> QED
      BY <3>3 DEF Orphan, PairedWide
  <2> QED
    BY <2>1, <2>2
<1>7. ~ Orphan(m, col)
  <2> SUFFICES ASSUME m[col].part # "whole", ~ PairedWide(m, col), ~ PairedSpacer(m, col) PROVE FALSE
    BY DEF Orphan
  <2>1. D(col).part # "whole"
    BY <1>4
  <2>2. ~ Orphan(line, col) /\ line[col].part # "whole"
    BY <1>5, <2>1
  <2>3. PairedWide(line, col)
    BY <1>6, <2>2 DEF Orphan
  <2>4. col < C /\ PairedSpacer(line, col + 1) /\ line[col].part = "wide"
    BY <1>1, <2>3, PairDrawn DEF PairedWide
  <2>5. col + 1 \in 1 .. C /\ line[col + 1].part = "spacer" /\ ~ Orphan(line, col + 1)
    <3>1. col + 1 \in 1 .. C
      BY <1>1, <2>4
    <3> QED
      BY <2>4, <3>1 DEF PairedSpacer, Orphan
  <2>6. m[col].part = "wide"
    BY <1>4, <1>5, <2>2, <2>4
  <2>7. m[col + 1].part = "spacer"
    BY <1>4, <1>5, <2>5
  <2> QED
    BY <1>2, <2>4, <2>6, <2>7 DEF PairedWide
<1>8. m[col].style = line[col].style
  BY <1>4, <1>5
<1>9. CASE line[col].style = Hidden \/ PairedSpacer(line, col)
  BY <1>6, <1>8, <1>9 DEF CellText, m
<1>10. CASE ~ (line[col].style = Hidden \/ PairedSpacer(line, col))
  <2>1. m[col].marks = line[col].marks
    BY <1>4, <1>5, <1>10
  <2>2. (IF m[col].c = Tab \/ Orphan(m, col) THEN Blank ELSE m[col].c)
          = (IF line[col].c = Tab \/ Orphan(line, col) THEN Blank ELSE line[col].c)
    <3>1. CASE Orphan(line, col)
      BY <1>4, <1>5, <1>7, <3>1
    <3>2. CASE ~ Orphan(line, col)
      <4>1. D(col).c = line[col].c
        BY <1>5, <1>10, <3>2
      <4> QED
        BY <1>4, <1>7, <3>2, <4>1
    <3> QED
      BY <3>1, <3>2
  <2> QED
    BY <1>6, <1>8, <1>10, <2>1, <2>2 DEF CellText, m
<1> QED
  BY <1>9, <1>10

LEMMA ContentsAre ==
  ASSUME NEW R, NEW C, NEW g, Sound(g, R, C), NEW M, IsSeen(g, M, R, C),
         NEW t, t.lines = M, t.rows = R, t.offset = 0
  PROVE  Contents(t) = Contents(g)
<1>1. R \in Nat \ {0} /\ C \in Nat \ {0} /\ g.rows = R
  BY DEF Sound
<1>2. M \in Lines(R, C) /\ Len(M) = R
  <2>1. M \in Lines(R, C)
    BY DEF IsSeen
  <2> QED
    BY <1>1, <2>1 DEF Lines
<1>3. ASSUME NEW row \in 1 .. R PROVE ViewLine(t, row) = M[row]
  <2>1. Len(t.lines) - t.rows + row - t.offset = row
    BY <1>1, <1>2
  <2> QED
    BY <2>1 DEF ViewLine
<1>4. ASSUME NEW row \in 1 .. R PROVE RowText(M[row]) = RowText(ViewLine(g, row))
  <2> DEFINE m == M[row]
             line == ViewLine(g, row)
  <2>1. Len(m) = C
    <3>1. m \in [1 .. C -> Drawable]
      BY <1>2 DEF Lines
    <3> QED
      BY <1>1, <3>1
  <2>2. Len(line) = C
    BY DEF Sound, IsLine
  <2>3. \A col \in 1 .. C : CellText(m, col) = CellText(line, col)
    BY CellTextIs
  <2> HIDE DEF m, line
  <2>4. [col \in 1 .. Len(m) |-> CellText(m, col)] = [col \in 1 .. Len(line) |-> CellText(line, col)]
    BY <2>1, <2>2, <2>3
  <2>5. RowText(m) = RowText(line)
    BY <2>4 DEF RowText
  <2> QED
    BY <2>5 DEF m, line
<1>5. \A row \in 1 .. R : Trimmed(RowText(ViewLine(t, row))) = Trimmed(RowText(ViewLine(g, row)))
  BY <1>3, <1>4
<1> QED
  BY <1>1, <1>5 DEF Contents

LEMMA ShownIsSeen ==
  ASSUME NEW g, IsGrid(g), ~ Unfaithful(g),
         NEW t, t = Replay(FreshTerm(g.rows, Cols(g)), Formatted(g))
  PROVE  /\ \A row \in 1 .. g.rows, col \in 1 .. Cols(g) : t.lines[row][col] = Seen(g, row, col)
         /\ t.row = g.row /\ t.col = g.col /\ t.shown = g.shown /\ t.style = Plain
         /\ g.offset = 0 => t.wrap = g.wrap
         /\ Contents(t) = Contents(g)
<1> DEFINE R == g.rows
           C == Cols(g)
<1>1. Sound(g, R, C) /\ g.shown \in BOOLEAN
  BY GridIsSound
<1> HIDE DEF R, C
<1>2. PICK M, v : /\ IsSeen(g, M, R, C) /\ (g.offset = 0 => v = g.wrap)
                  /\ Replay(FreshTerm(R, C), Formatted(g))
                       = [Term(M, R, g.row, g.col, v, Plain) EXCEPT !.shown = g.shown]
  BY <1>1, FormattedIs
<1>3. t = [Term(M, R, g.row, g.col, v, Plain) EXCEPT !.shown = g.shown]
  BY <1>2 DEF R, C
<1>4. /\ t.lines = M /\ t.rows = R /\ t.offset = 0 /\ t.row = g.row /\ t.col = g.col
      /\ t.style = Plain /\ t.shown = g.shown
  BY <1>3 DEF Term
<1>5. t.wrap = v
  BY <1>3 DEF Term
<1>6. Contents(t) = Contents(g)
  BY <1>1, <1>2, <1>4, ContentsAre
<1>7. \A row \in 1 .. R, col \in 1 .. C : t.lines[row][col] = Seen(g, row, col)
  BY <1>2, <1>4 DEF IsSeen
<1>8. g.offset = 0 => t.wrap = g.wrap
  BY <1>2, <1>5
<1> QED
  BY <1>4, <1>6, <1>7, <1>8 DEF R, C

\* A client is shown what the grid displays, for grids of any size and history that are not
\* Unfaithful, wherever the cursor is (ansi.rs:3-8). Unfaithful are those in which the halves of a
\* pair differ in their attributes, a lost half has marks, or a tab in the last column has: the
\* code does not reproduce them, and the theorem does not speak of them.
THEOREM ScreensAreShown == ReplayShows
<1> SUFFICES ASSUME NEW g \in {h \in Grids : ~Unfaithful(h)},
                    NEW t, t = Replay(FreshTerm(g.rows, Cols(g)), Formatted(g))
             PROVE  /\ \A row \in 1 .. g.rows, col \in 1 .. Cols(g) : t.lines[row][col] = Seen(g, row, col)
                    /\ t.row = g.row /\ t.col = g.col /\ t.shown = g.shown /\ t.style = Plain
                    /\ g.offset = 0 => t.wrap = g.wrap
                    /\ Contents(t) = Contents(g)
  BY DEF ReplayShows, Replayed
<1>1. IsGrid(g) /\ ~ Unfaithful(g)
  BY GridsAssumption
<1> QED
  BY <1>1, ShownIsSeen

\* Once the child has written, a client is shown what it displays, unless the grid is Unfaithful,
\* and an agent's status is read where the agent puts it, with the exclusions of StatusIsFound
\* (ansi.rs:3-8, summary.rs:20-30).
THEOREM ScreensAlwaysHold == Spec => []ScreensHold
<1>1. ScreensHold
  BY ScreensAreShown, StatusIsFound DEF ScreensHold
<1> QED
  BY <1>1, PTL
================================================================================
