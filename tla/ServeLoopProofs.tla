---------------------------- MODULE ServeLoopProofs ----------------------------
(***************************************************************************)
(* What a connection leaves behind and what it is sent, for any number of  *)
(* tasks, screens and commands on the way, and any succession of clients.  *)
(***************************************************************************)
EXTENDS ServeLoop, SequenceTheorems, TLAPS

LEMMA WatchTypes ==
  ASSUME TypeOK, NEW w \in Watching, Watch(w)
  PROVE  /\ watch' \in Watching /\ last' \in View \cup {NoView}
         /\ back' \in [Task -> BOOLEAN] /\ clip' \in [Task -> {"none", "own", "other"}]
BY DEF TypeOK, Watch, Disowned

LEMMA NoWatchTyped == NoWatch \in Watching
BY DEF NoWatch, Watching

\* The command at the front of the channel.
LEMMA Front ==
  ASSUME TypeOK, wakes # <<>>
  PROVE  /\ Head(wakes) \in Wake /\ Head(wakes) = wakes[1]
         /\ Tail(wakes) \in Seq(Wake) /\ Len(Tail(wakes)) = Len(wakes) - 1
         /\ Len(wakes) \in Nat \ {0}
         /\ \A i \in 1 .. Len(wakes) - 1 : Tail(wakes)[i] = wakes[i + 1]
BY HeadTailProperties, LenProperties, EmptySeq DEF TypeOK

\* What was behind the end of the channel.
LEMMA Behind ==
  ASSUME TypeOK, NEW c \in Wake
  PROVE  /\ Append(wakes, c) \in Seq(Wake) /\ Len(Append(wakes, c)) = Len(wakes) + 1
         /\ Len(wakes) \in Nat /\ Append(wakes, c)[Len(wakes) + 1] = c
         /\ \A i \in 1 .. Len(wakes) : Append(wakes, c)[i] = wakes[i]
BY AppendProperties, LenProperties DEF TypeOK

LEMMA CommandsTyped ==
  /\ \A w \in Watching : WatchCmd(w) \in Wake
  /\ \A t \in Task \cup {NoTask} : ScrollCmd(t) \in Wake
  /\ Bare("hangup") \in Wake /\ Bare("shutdown") \in Wake
BY DEF Watching, WatchCmd, ScrollCmd, Bare, Wake

\* Type correctness of every step of the loop, the threads and the client.
LEMMA TypeStep ==
  ASSUME TypeOK, ConnInv, [Next]_vars
  PROVE  TypeOK'
<1>a. Len(<<>>) = 0 /\ <<>> \in Seq(Wake) /\ MaxWakes \in Nat /\ NoView \in View \cup {NoView}
  BY EmptySeq, ServeLoopAssumption
<1>b. Len(wakes) \in Nat
  BY LenProperties DEF TypeOK
<1>c. NothingLeft \in Left
  BY DEF NothingLeft, Left
<1> USE DEF loopVars, linkVars, clientVars, coreVars, taskVars
<1>1. CASE IdleStop \/ Serve \/ Join \/ LookAtStop \/ ApplyOutput \/ RecvTimesOut \/ Drained
  <2>1. CASE IdleStop \/ Join \/ LookAtStop
    BY <2>1, SMTT(30) DEF TypeOK, IdleStop, Join, LookAtStop
  <2>2. CASE Serve
    BY <2>2, SMTT(30) DEF TypeOK, Serve
  <2>3. CASE ApplyOutput
    <3>1. pc' = "drain" /\ output' \in BOOLEAN /\ dirty' \in BOOLEAN
      BY <2>3 DEF ApplyOutput
    <3>2. UNCHANGED <<leaving, stop, since, wakes, waker, reader, clientVars, coreVars, taskVars>>
      BY <2>3 DEF ApplyOutput
    <3> QED
      BY <3>1, <3>2, SMTT(30) DEF TypeOK
  <2>4. CASE RecvTimesOut \/ Drained
    <3>1. pc' \in {"drain", "tick", "top"}
      BY <2>4 DEF RecvTimesOut, Drained
    <3>2. UNCHANGED <<leaving, stop, dirty, since, linkVars, clientVars, coreVars, taskVars>>
      BY <2>4 DEF RecvTimesOut, Drained
    <3> QED
      BY <3>1, <3>2, SMTT(30) DEF TypeOK
  <2> QED
    BY <1>1, <2>1, <2>2, <2>3, <2>4
<1>2. CASE CleanUp
  <2>1. Watch(NoWatch) /\ ClientIsGone /\ LoopIsGone
    BY <1>2 DEF CleanUp
  <2>2. /\ watch' \in Watching /\ last' \in View \cup {NoView}
        /\ back' \in [Task -> BOOLEAN] /\ clip' \in [Task -> {"none", "own", "other"}]
    BY <2>1, WatchTypes, NoWatchTyped
  <2>3. wakes' \in Seq(Wake) /\ Len(wakes') <= MaxWakes + 1
    BY <2>1, <1>a DEF LoopIsGone
  <2> QED
    BY <1>2, <2>1, <2>2, <2>3, NoWatchTyped DEF TypeOK, CleanUp, ClientIsGone, LoopIsGone
<1>3. CASE Apply
  <2>1. Head(wakes) \in Wake /\ wakes' \in Seq(Wake) /\ Len(wakes') <= MaxWakes + 1
    BY <1>3, <1>a, Front DEF Apply, TypeOK
  <2>2. /\ watch' \in Watching /\ last' \in View \cup {NoView}
        /\ back' \in [Task -> BOOLEAN] /\ clip' \in [Task -> {"none", "own", "other"}]
    <3> DEFINE w == [id |-> Head(wakes).id, attached |-> Head(wakes).attached]
    <3>1. w \in Watching
      BY <2>1 DEF Wake, Watching
    <3>2. CASE Head(wakes).op = "watch"
      <4>1. Watch(w)
        BY <1>3, <3>2 DEF Apply
      <4> HIDE DEF w
      <4> QED
        BY <3>1, <4>1, WatchTypes
    <3>3. CASE Head(wakes).op = "scroll"
      <4>1. Scroll(Head(wakes).id)
        BY <1>3, <3>3 DEF Apply
      <4> QED
        BY <4>1 DEF TypeOK, Scroll
    <3>4. CASE Head(wakes).op \notin {"watch", "scroll"}
      <4>1. UNCHANGED <<watch, last, back, clip>>
        BY <1>3, <3>4 DEF Apply
      <4> QED
        BY <4>1 DEF TypeOK
    <3> QED
      BY <3>2, <3>3, <3>4
  <2>3. /\ pc' \in {"cleanup", "drain"} /\ leaving' \in BOOLEAN /\ dirty' \in BOOLEAN
        /\ UNCHANGED <<stop, since, output, waker, reader, clientVars, left, ver, unsignalled>>
    BY <1>3 DEF Apply
  <2> QED
    BY <2>1, <2>2, <2>3 DEF TypeOK
<1>4. CASE Tick \/ TickFails
  <2>1. ScreenDue => Screen \in View
    BY DEF ScreenDue, Screen, View, TypeOK, Watching
  <2>2. clip' \in [Task -> {"none", "own", "other"}]
    BY <1>4 DEF Tick, TickFails
  <2>3. last' \in View \cup {NoView} /\ got' \in View \cup {NoView}
    <3>1. Shipped \in View \cup {NoView}
      BY <2>1 DEF Shipped, TypeOK, Left
    <3>2. got' \in {Shipped, got} /\ last' \in {Screen, last} /\ (last' = last \/ ScreenDue)
      BY <1>4 DEF Tick, TickFails
    <3> QED
      BY <2>1, <3>1, <3>2 DEF TypeOK
  <2>4. left' \in Left
    BY <1>4, <1>c DEF Tick, TickFails
  <2> QED
    BY <1>4, <2>2, <2>3, <2>4 DEF Tick, TickFails, TypeOK
<1>13. CASE RowsPanic \/ ScreenPanics
  <2>1. ScreenDue => Screen \in View
    BY DEF ScreenDue, Screen, View, TypeOK, Watching
  <2>2. clip' \in [Task -> {"none", "own", "other"}]
    BY <1>13 DEF RowsPanic, ScreenPanics, TypeOK
  <2>3. \A s \in View \cup {NoView} : Queued(s) \in Left
    <3>1. (left.store \/ Forwards) \in BOOLEAN
      BY DEF TypeOK, Left, Forwards, Watching
    <3> QED
      BY <3>1 DEF Queued, Left
  <2>4. left.screen \in View \cup {NoView}
    BY DEF TypeOK, Left
  <2>5. last' \in View \cup {NoView} /\ left' \in Left
    <3>1. CASE RowsPanic
      BY <3>1 DEF RowsPanic, TypeOK
    <3>2. CASE ScreenPanics
      BY <3>2, <2>1, <2>3, <2>4 DEF ScreenPanics, TypeOK
    <3> QED
      BY <1>13, <3>1, <3>2
  <2> QED
    BY <1>13, <2>2, <2>5 DEF RowsPanic, ScreenPanics, TypeOK
<1>5. CASE Panic \/ RaiseStop
  <2>1. CASE Panic
    BY <2>1, SMTT(30) DEF Panic, TypeOK
  <2>2. CASE RaiseStop
    BY <2>2, SMTT(30) DEF RaiseStop, TypeOK
  <2> QED
    BY <1>5, <2>1, <2>2
<1>12. CASE Elapse
  <2>1. since' \in {"frame", "floor", "idle"}
    BY <1>12 DEF Elapse
  <2> QED
    BY <1>12, <2>1 DEF Elapse, TypeOK
<1>6. CASE ReaderHangsUp
  <2>1. wakes' \in Seq(Wake) /\ Len(wakes') <= MaxWakes + 1
    <3>1. CASE wakes' = wakes
      BY <3>1 DEF TypeOK
    <3>2. CASE wakes' = Append(wakes, Bare("hangup"))
      <4>1. Len(wakes) <= MaxWakes
        BY <1>6 DEF ReaderHangsUp, ConnInv, RoomForHangup
      <4> QED
        BY <3>2, <4>1, <1>a, <1>b, Behind, CommandsTyped
    <3> QED
      BY <1>6, <3>1, <3>2 DEF ReaderHangsUp
  <2> QED
    BY <1>6, <2>1 DEF ReaderHangsUp, TypeOK
<1>7. ASSUME NEW c \in Wake, Sends(c)
      PROVE  /\ wakes' \in Seq(Wake) /\ Len(wakes') <= MaxWakes + 1
             /\ UNCHANGED <<loopVars, stop, output, waker, reader, open, got, coreVars, taskVars>>
  BY <1>7, <1>a, <1>b, Behind DEF Sends
<1>8. CASE Client
  <2>1. ASSUME NEW w \in Watching, ClientWatches(w) PROVE TypeOK'
    BY <2>1, <1>7, CommandsTyped DEF ClientWatches, TypeOK, Watching
  <2>2. CASE ClientScrolls
    <3>1. ScrollCmd(want.id) \in Wake
      BY CommandsTyped DEF TypeOK, Watching
    <3> QED
      BY <2>2, <3>1, <1>7 DEF ClientScrolls, TypeOK
  <2>3. CASE ClientQuits
    BY <2>3, <1>7, CommandsTyped, SMTT(30) DEF ClientQuits, TypeOK
  <2>4. CASE ClientCloses
    <3>1. open' \in BOOLEAN /\ asked' \subseteq Task
          /\ want' \in Watching /\ got' \in View \cup {NoView}
      BY <2>4, NoWatchTyped DEF ClientCloses, ClientIsGone
    <3>2. UNCHANGED <<loopVars, stop, linkVars, coreVars, taskVars>>
      BY <2>4 DEF ClientCloses
    <3> QED
      BY <3>1, <3>2, SMTT(30) DEF TypeOK
  <2> QED
    BY <1>8, <2>1, <2>2, <2>3, <2>4 DEF Client
<1>9. ASSUME NEW t \in Task, Output(t) PROVE TypeOK'
  <2>1. ver' \in [Task -> 0 .. MaxVer] /\ clip' \in [Task -> {"none", "own", "other"}]
    <3>1. CASE ver[t] < MaxVer /\ ver' = [ver EXCEPT ![t] = @ + 1] /\ UNCHANGED clip
      BY <3>1, ServeLoopAssumption DEF TypeOK
    <3>2. CASE UNCHANGED ver /\ \E c \in {"own", "other"} : clip' = [clip EXCEPT ![t] = c]
      BY <3>2 DEF TypeOK
    <3> QED
      BY <1>9, <3>1, <3>2 DEF Output
  <2> QED
    BY <1>9, <2>1 DEF Output, TypeOK
<1>10. ASSUME NEW t \in Task, Signal(t) PROVE TypeOK'
  BY <1>10 DEF Signal, TypeOK
<1>11. CASE UNCHANGED vars
  BY <1>11 DEF vars, TypeOK
<1> QED
  BY <1>1, <1>2, <1>3, <1>4, <1>5, <1>6, <1>8, <1>9, <1>10, <1>11, <1>12, <1>13
     DEF Next, Loop, Ticking, Panics

-----------------------------------------------------------------------------
(* What the core will watch, once it has read what is on its way.          *)

\* Reading the front changes when the core watches, not what.
LEMMA SeesTail ==
  ASSUME NEW q, NEW r, NEW n \in Nat \ {0}, \A i \in 1 .. n - 1 : r[i] = q[i + 1],
         NEW v, NEW w, IF q[1].op = "watch" THEN w = q[1].id ELSE w = v,
         NEW k \in 1 .. n, NEW t, Sees(q, v, k, t)
  PROVE  Sees(r, w, k - 1, t)
<1>1. ASSUME NEW j \in 1 .. k, q[j].op = "watch", q[j].id = t,
             \A m \in (j + 1) .. k : q[m].op # "watch"
      PROVE  Sees(r, w, k - 1, t)
  <2>1. \A m \in j .. k - 1 : r[m].op # "watch"
    BY <1>1
  <2>2. CASE j = 1
    BY <2>1, <2>2, <1>1 DEF Sees
  <2>3. CASE j # 1
    <3>1. j - 1 \in 1 .. k - 1 /\ r[j - 1] = q[j] /\ (j - 1) + 1 = j
      BY <2>3
    <3> QED
      BY <1>1, <2>1, <3>1 DEF Sees
  <2> QED
    BY <2>2, <2>3
<1>2. ASSUME v = t, \A m \in 1 .. k : q[m].op # "watch"
      PROVE  Sees(r, w, k - 1, t)
  <2>1. w = t
    BY <1>2
  <2>2. \A m \in 1 .. k - 1 : r[m].op # "watch"
    BY <1>2
  <2> QED
    BY <2>1, <2>2 DEF Sees
<1> QED
  BY <1>1, <1>2 DEF Sees

\* A command at the end is the last to be read.
LEMMA SeesAppend ==
  ASSUME NEW q, NEW r, NEW n \in Nat, \A i \in 1 .. n : r[i] = q[i], NEW v
  PROVE  /\ \A t : \A k \in 1 .. n : Sees(q, v, k, t) => Sees(r, v, k, t)
         /\ r[n + 1].op = "watch" => Sees(r, v, n + 1, r[n + 1].id)
         /\ \A t : r[n + 1].op # "watch" /\ Sees(q, v, n, t) => Sees(r, v, n + 1, t)
<1>1. ASSUME NEW k \in 1 .. n, NEW t, Sees(q, v, k, t) PROVE Sees(r, v, k, t)
  <2>1. \A m \in 1 .. k : r[m] = q[m]
    OBVIOUS
  <2> QED
    BY <1>1, <2>1 DEF Sees
<1>2. ASSUME r[n + 1].op = "watch" PROVE Sees(r, v, n + 1, r[n + 1].id)
  BY <1>2 DEF Sees
<1>3. ASSUME NEW t, r[n + 1].op # "watch", Sees(q, v, n, t) PROVE Sees(r, v, n + 1, t)
  <2>1. ASSUME NEW j \in 1 .. n, q[j].op = "watch", q[j].id = t,
               \A m \in (j + 1) .. n : q[m].op # "watch"
        PROVE  Sees(r, v, n + 1, t)
    <3>1. j \in 1 .. n + 1 /\ r[j] = q[j]
      OBVIOUS
    <3>2. \A m \in (j + 1) .. n + 1 : r[m].op # "watch"
      BY <1>3, <2>1
    <3> QED
      BY <2>1, <3>1, <3>2 DEF Sees
  <2>2. ASSUME v = t, \A m \in 1 .. n : q[m].op # "watch" PROVE Sees(r, v, n + 1, t)
    <3>1. \A m \in 1 .. n + 1 : r[m].op # "watch"
      BY <1>3, <2>2
    <3> QED
      BY <2>2, <3>1 DEF Sees
  <2> QED
    BY <1>3, <2>1, <2>2 DEF Sees
<1> QED
  BY <1>1, <1>2, <1>3

\* With nothing on its way, the core watches what it will.
LEMMA SeesNow == ASSUME NEW q, NEW w PROVE Sees(q, w, 0, w)
BY DEF Sees

-----------------------------------------------------------------------------
(* What every step keeps.                                                  *)

\* A step that touches nothing of the connection, and does not end it.
LEMMA QuietStep ==
  ASSUME ConnInv, UNCHANGED <<wakes, waker, reader, clientVars, coreVars, back, clip>>,
         (pc' \notin {"accept", "join", "ended"} /\ pc # "cleanup") \/ pc' = pc
  PROVE  ConnInv'
<1> USE DEF clientVars, coreVars
<1>1. InStep'
  BY DEF ConnInv, InStep, Sees
<1>2. LeftWaits'
  BY DEF ConnInv, LeftWaits
<1> QED
  BY <1>1, <1>2 DEF ConnInv, BackIsWatched, AskedFor, StoresAreOwn, NothingShown, LeftClean, RoomForHangup

\* The daemon between two clients.
LEMMA OutsideStep ==
  ASSUME TypeOK, ConnInv, IdleStop \/ Serve \/ CleanUp \/ Join
  PROVE  ConnInv'
<1>a. Len(<<>>) = 0 /\ MaxWakes \in Nat /\ NoTask \notin Task
  BY ServeLoopAssumption
<1> USE DEF linkVars, clientVars, coreVars, taskVars
<1>1. CASE IdleStop
  <2>1. InStep'
    BY <1>1 DEF IdleStop, ConnInv, InStep, Sees
  <2>2. LeftWaits'
    BY <1>1 DEF IdleStop, ConnInv, LeftWaits
  <2> QED
    BY <1>1, <2>1, <2>2 DEF IdleStop, ConnInv, BackIsWatched, AskedFor, StoresAreOwn, NothingShown,
                      LeftClean, RoomForHangup
<1>2. CASE Serve
  <2>1. /\ wakes' = <<>> /\ watch' = NoWatch /\ want' = NoWatch /\ last' = NoView
        /\ \A t \in Task : ~back'[t]
    BY <1>2 DEF Serve, ConnInv, AskedFor, LeftClean
  <2>2. InStep'
    BY <2>1, <1>a DEF InStep, Sees
  <2>3. LeftWaits'
    BY <1>2 DEF Serve, ConnInv, LeftWaits
  <2> QED
    BY <1>2, <1>a, <2>1, <2>2, <2>3 DEF Serve, NoWatch, ConnInv, BackIsWatched, AskedFor,
         StoresAreOwn, NothingShown, LeftClean, RoomForHangup
<1>3. CASE CleanUp
  <2>1. /\ wakes' = <<>> /\ watch' = NoWatch /\ want' = NoWatch /\ asked' = {}
        /\ open' = FALSE /\ waker' = FALSE /\ pc' = "join"
    BY <1>3 DEF CleanUp, Watch, ClientIsGone, LoopIsGone
  <2>2. InStep'
    BY <2>1, <1>a DEF InStep
  <2>3. \A t \in Task : ~back'[t]
    BY <1>3, <1>a DEF CleanUp, Watch, NoWatch, ConnInv, BackIsWatched
  <2>4. last' = NoView
    BY <1>3 DEF CleanUp, Watch, NoWatch, ConnInv, NothingShown
  <2>5. LeftWaits'
    BY <1>3, <2>4 DEF CleanUp, ClientIsGone, LeftWaits
  <2> QED
    BY <1>a, <2>1, <2>2, <2>3, <2>4, <2>5 DEF NoWatch, ConnInv, BackIsWatched, AskedFor,
         StoresAreOwn, NothingShown, LeftClean, RoomForHangup
<1>4. CASE Join
  <2>1. InStep'
    BY <1>4 DEF Join, ConnInv, InStep, Sees
  <2>2. LeftWaits'
    BY <1>4 DEF Join, ConnInv, LeftWaits
  <2> QED
    BY <1>4, <2>1, <2>2 DEF Join, ConnInv, BackIsWatched, AskedFor, StoresAreOwn, NothingShown,
                      LeftClean, RoomForHangup
<1> QED
  BY <1>1, <1>2, <1>3, <1>4

\* A command folded into the core.
LEMMA ApplyStep ==
  ASSUME TypeOK, ConnInv, Apply
  PROVE  ConnInv'
<1> DEFINE c == Head(wakes)
           n == Len(wakes)
<1>1. /\ c \in Wake /\ c = wakes[1] /\ n \in Nat \ {0} /\ wakes' = Tail(wakes)
      /\ Len(wakes') = n - 1 /\ \A i \in 1 .. n - 1 : wakes'[i] = wakes[i + 1]
  BY Front DEF Apply
<1>2. UNCHANGED <<reader, open, asked, want>> /\ pc' \in {"cleanup", "drain"}
  BY DEF Apply, clientVars
<1>a. c.op = "watch" => Watch([id |-> c.id, attached |-> c.attached])
  BY DEF Apply
<1>b. c.op # "watch" => UNCHANGED <<watch, last, clip>>
  BY DEF Apply, Scroll
<1>c. /\ watch'.id = IF c.op = "watch" THEN c.id ELSE watch.id
      /\ watch \in Watching
  BY <1>a, <1>b DEF Watch, TypeOK
<1> HIDE DEF n, c
<1>4. InStep'
  <2>1. ASSUME NEW k \in 1 .. n, NEW t, Sees(wakes, watch.id, k, t)
        PROVE  Sees(wakes', watch'.id, k - 1, t)
    <3>1. IF wakes[1].op = "watch" THEN watch'.id = wakes[1].id ELSE watch'.id = watch.id
      BY <1>1, <1>c
    <3> QED
      BY <1>1, <2>1, <3>1, SeesTail
  <2>2. ASSUME NEW k \in 1 .. n - 1, wakes'[k].op = "scroll"
        PROVE  Sees(wakes', watch'.id, k, wakes'[k].id)
    <3>1. wakes'[k] = wakes[k + 1] /\ k + 1 \in 1 .. n /\ (k + 1) - 1 = k
      BY <1>1
    <3>2. Sees(wakes, watch.id, k + 1, wakes[k + 1].id)
      BY <2>2, <3>1 DEF ConnInv, InStep, n
    <3> QED
      BY <2>1, <3>1, <3>2
  <2>3. open => Sees(wakes', watch'.id, n - 1, want.id)
    <3>1. open => Sees(wakes, watch.id, n, want.id)
      BY DEF ConnInv, InStep, n
    <3> QED
      BY <1>1, <2>1, <3>1
  <2> QED
    BY <1>1, <1>2, <2>2, <2>3 DEF InStep
<1>5. BackIsWatched'
  <2>1. CASE c.op = "watch"
    BY <2>1, <1>a, <1>c DEF Watch, ConnInv, BackIsWatched
  <2>2. CASE c.op = "scroll"
    <3>1. Sees(wakes, watch.id, 1, c.id)
      BY <1>1, <2>2 DEF ConnInv, InStep, n
    <3>2. c.id = watch.id /\ UNCHANGED watch
      BY <1>1, <1>b, <2>2, <3>1 DEF Sees
    <3> QED
      BY <2>2, <3>2 DEF Apply, Scroll, ConnInv, BackIsWatched, TypeOK, c
  <2>3. CASE c.op \notin {"watch", "scroll"}
    BY <2>3, <1>b DEF Apply, ConnInv, BackIsWatched, c
  <2> QED
    BY <2>1, <2>2, <2>3
<1>6. AskedFor'
  <2>1. ~open' => asked' = {} /\ want' = NoWatch
    BY <1>2 DEF ConnInv, AskedFor
  <2>2. ASSUME open'
        PROVE  /\ watch'.id \in asked' \cup {NoTask}
               /\ \A k \in 1 .. n - 1 : wakes'[k].op = "watch" => wakes'[k].id \in asked' \cup {NoTask}
    <3>1. watch.id \in asked \cup {NoTask}
      BY <2>2, <1>2 DEF ConnInv, AskedFor
    <3>2. \A k \in 1 .. n : wakes[k].op = "watch" => wakes[k].id \in asked \cup {NoTask}
      BY <2>2, <1>2 DEF ConnInv, AskedFor, n
    <3>3. \A k \in 1 .. n - 1 : k + 1 \in 1 .. n /\ wakes'[k] = wakes[k + 1]
      BY <1>1
    <3>4. c.op = "watch" => c.id \in asked \cup {NoTask}
      BY <1>1, <3>2
    <3> QED
      BY <1>2, <1>c, <3>1, <3>2, <3>3, <3>4
  <2> QED
    BY <1>1, <2>1, <2>2 DEF AskedFor
<1>7. StoresAreOwn' /\ NothingShown'
  <2>1. CASE c.op = "watch"
    <3> DEFINE w == [id |-> c.id, attached |-> c.attached]
    <3>1. watch' = w /\ w.id = c.id
      BY <2>1, <1>a DEF Watch
    <3>2. c.id # NoTask => c.id \in Task
      BY <1>1 DEF Wake
    <3>3. CASE w = watch
      <4>1. c.id \in Task => clip'[c.id] = clip[c.id]
        BY <2>1, <3>3, <1>a DEF Watch
      <4>2. last' = last
        BY <2>1, <3>3, <1>a DEF Watch
      <4> QED
        BY <3>1, <3>2, <3>3, <4>1, <4>2 DEF ConnInv, StoresAreOwn, NothingShown
    <3>4. CASE w # watch
      <4>1. c.id \in Task => clip'[c.id] = "none"
        BY <2>1, <3>1, <3>4, <1>a DEF Watch
      <4>2. last' = NoView
        BY <2>1, <3>4, <1>a DEF Watch
      <4> QED
        BY <3>1, <3>2, <4>1, <4>2 DEF StoresAreOwn, NothingShown
    <3> QED
      BY <3>3, <3>4
  <2>2. CASE c.op # "watch"
    BY <2>2, <1>b DEF ConnInv, StoresAreOwn, NothingShown
  <2> QED
    BY <2>1, <2>2
<1>8. LeftClean'
  BY <1>2 DEF LeftClean
<1>9. RoomForHangup'
  BY <1>1, <1>2, ServeLoopAssumption DEF ConnInv, RoomForHangup, n
<1>10. LeftWaits'
  <2>1. pc # "cleanup" /\ UNCHANGED <<left, got>>
    BY DEF Apply, clientVars
  <2>2. last' \in {last, NoView}
    BY <1>a, <1>b DEF Watch
  <2> QED
    BY <2>1, <2>2 DEF ConnInv, LeftWaits
<1> QED
  BY <1>4, <1>5, <1>6, <1>7, <1>8, <1>9, <1>10 DEF ConnInv

\* The client sends a command: what the core will watch stays what it wants.
LEMMA SendsStep ==
  ASSUME TypeOK, ConnInv, NEW c \in Wake, Sends(c),
         c.op = "watch" => /\ want'.id = c.id /\ c.id \in asked' \cup {NoTask}
                           /\ asked \subseteq asked',
         c.op # "watch" => UNCHANGED <<asked, want>>,
         c.op = "scroll" => c.id = want.id
  PROVE  ConnInv'
<1> DEFINE n == Len(wakes)
<1>1. /\ Len(wakes') = n + 1 /\ n \in Nat /\ n < MaxWakes /\ wakes'[n + 1] = c
      /\ \A i \in 1 .. n : wakes'[i] = wakes[i]
  BY Behind DEF Sends
<1>2. /\ open /\ open' = open
      /\ UNCHANGED <<pc, waker, reader, got, watch, last, left, back, clip>>
  BY DEF Sends, loopVars, coreVars, taskVars
<1> HIDE DEF n
<1>3. InStep'
  <2>1. /\ \A t : \A k \in 1 .. n : Sees(wakes, watch.id, k, t) => Sees(wakes', watch.id, k, t)
        /\ c.op = "watch" => Sees(wakes', watch.id, n + 1, c.id)
        /\ \A t : c.op # "watch" /\ Sees(wakes, watch.id, n, t) => Sees(wakes', watch.id, n + 1, t)
    BY <1>1, SeesAppend
  <2>2. Sees(wakes, watch.id, n, want.id)
    BY <1>2 DEF ConnInv, InStep, n
  <2>3. Sees(wakes', watch.id, n + 1, want'.id)
    BY <2>1, <2>2
  <2>4. ASSUME NEW k \in 1 .. n + 1, wakes'[k].op = "scroll"
        PROVE  Sees(wakes', watch.id, k, wakes'[k].id)
    <3>1. CASE k = n + 1
      BY <3>1, <1>1, <2>1, <2>2, <2>4
    <3>2. CASE k # n + 1
      <4>1. k \in 1 .. n /\ wakes'[k] = wakes[k]
        BY <3>2, <1>1
      <4>2. Sees(wakes, watch.id, k, wakes[k].id)
        BY <2>4, <4>1 DEF ConnInv, InStep, n
      <4> QED
        BY <2>1, <4>1, <4>2
    <3> QED
      BY <3>1, <3>2
  <2> QED
    BY <1>1, <1>2, <2>3, <2>4 DEF InStep
<1>4. AskedFor'
  <2>1. asked \subseteq asked'
    OBVIOUS
  <2>2. watch'.id \in asked' \cup {NoTask}
    BY <1>2, <2>1 DEF ConnInv, AskedFor
  <2>3. ASSUME NEW k \in 1 .. n + 1, wakes'[k].op = "watch"
        PROVE  wakes'[k].id \in asked' \cup {NoTask}
    <3>1. CASE k = n + 1
      BY <3>1, <1>1, <2>3
    <3>2. CASE k # n + 1
      <4>1. k \in 1 .. n /\ wakes'[k] = wakes[k]
        BY <3>2, <1>1
      <4>2. wakes[k].id \in asked \cup {NoTask}
        BY <1>2, <2>3, <4>1 DEF ConnInv, AskedFor, n
      <4> QED
        BY <2>1, <4>1, <4>2
    <3> QED
      BY <3>1, <3>2
  <2> QED
    BY <1>1, <1>2, <2>2, <2>3 DEF AskedFor
<1>5. BackIsWatched' /\ StoresAreOwn' /\ NothingShown'
  BY <1>2 DEF ConnInv, BackIsWatched, StoresAreOwn, NothingShown
<1>6. LeftClean'
  BY <1>2 DEF ConnInv, LeftClean
<1>7. RoomForHangup'
  BY <1>1, ServeLoopAssumption DEF RoomForHangup
<1>8. LeftWaits'
  BY <1>2 DEF ConnInv, LeftWaits
<1> QED
  BY <1>3, <1>4, <1>5, <1>6, <1>7, <1>8 DEF ConnInv

LEMMA ClientStep ==
  ASSUME TypeOK, ConnInv, Client
  PROVE  ConnInv'
<1>1. ASSUME NEW w \in Watching, ClientWatches(w) PROVE ConnInv'
  <2>1. WatchCmd(w) \in Wake /\ WatchCmd(w).op = "watch" /\ WatchCmd(w).id = w.id
    BY CommandsTyped DEF WatchCmd
  <2>2. Sends(WatchCmd(w)) /\ want' = w /\ asked' = (asked \cup {w.id}) \ {NoTask}
    BY <1>1 DEF ClientWatches
  <2>3. asked \subseteq asked'
    BY <2>2, ServeLoopAssumption DEF TypeOK
  <2> QED
    BY <2>1, <2>2, <2>3, SendsStep
<1>2. CASE ClientScrolls
  <2>1. /\ ScrollCmd(want.id) \in Wake /\ ScrollCmd(want.id).op = "scroll"
        /\ ScrollCmd(want.id).id = want.id
    BY CommandsTyped DEF ScrollCmd, TypeOK, Watching
  <2> QED
    BY <1>2, <2>1, SendsStep DEF ClientScrolls
<1>3. CASE ClientQuits
  <2>1. Bare("shutdown") \in Wake /\ Bare("shutdown").op = "shutdown"
    BY CommandsTyped DEF Bare
  <2> QED
    BY <1>3, <2>1, SendsStep DEF ClientQuits
<1>4. CASE ClientCloses
  <2>1. /\ open /\ open' = FALSE /\ asked' = {} /\ want' = NoWatch /\ got' = NoView
        /\ UNCHANGED <<pc, wakes, waker, reader, watch, last, left, back, clip>>
    BY <1>4 DEF ClientCloses, ClientIsGone, loopVars, linkVars, coreVars, taskVars
  <2>2. InStep'
    BY <2>1 DEF ConnInv, InStep, Sees
  <2>3. LeftWaits'
    BY <2>1 DEF ConnInv, LeftWaits
  <2> QED
    BY <2>1, <2>2, <2>3 DEF ConnInv, BackIsWatched, AskedFor, StoresAreOwn, NothingShown,
                      LeftClean, RoomForHangup
<1> QED
  BY <1>1, <1>2, <1>3, <1>4 DEF Client

\* End of file, passed on as the last the connection's thread says.
LEMMA HangUpStep ==
  ASSUME TypeOK, ConnInv, ReaderHangsUp
  PROVE  ConnInv'
<1>1. /\ ~open /\ reader = "reading" /\ reader' = "ended"
      /\ UNCHANGED <<pc, open, asked, want, got, waker, watch, last, left, back, clip>>
  BY DEF ReaderHangsUp, loopVars, clientVars, coreVars, taskVars
<1>2. InStep'
  <2>1. CASE wakes' = wakes
    BY <1>1, <2>1 DEF ConnInv, InStep, Sees
  <2>2. CASE wakes' = Append(wakes, Bare("hangup"))
    <3> DEFINE n == Len(wakes)
    <3>1. /\ Len(wakes') = n + 1 /\ n \in Nat /\ wakes'[n + 1].op = "hangup"
          /\ \A i \in 1 .. n : wakes'[i] = wakes[i]
      BY <2>2, Behind, CommandsTyped DEF Bare
    <3> HIDE DEF n
    <3>2. \A t : \A k \in 1 .. n : Sees(wakes, watch.id, k, t) => Sees(wakes', watch.id, k, t)
      BY <3>1, SeesAppend
    <3>3. ASSUME NEW k \in 1 .. n + 1, wakes'[k].op = "scroll"
          PROVE  Sees(wakes', watch.id, k, wakes'[k].id)
      <4>1. k \in 1 .. n /\ wakes'[k] = wakes[k]
        BY <3>1, <3>3
      <4>2. Sees(wakes, watch.id, k, wakes[k].id)
        BY <3>3, <4>1 DEF ConnInv, InStep, n
      <4> QED
        BY <3>2, <4>1, <4>2
    <3> QED
      BY <1>1, <3>1, <3>3 DEF InStep
  <2> QED
    BY <2>1, <2>2 DEF ReaderHangsUp
<1>3. LeftClean'
  BY <1>1 DEF ReaderHangsUp, ConnInv, LeftClean
<1>4. LeftWaits'
  BY <1>1 DEF ConnInv, LeftWaits
<1> QED
  BY <1>1, <1>2, <1>3, <1>4 DEF ConnInv, BackIsWatched, AskedFor, StoresAreOwn, NothingShown, RoomForHangup

\* A tick remembers only the screen of the watched task, and forwards every store; one
\* that panics behind the rows leaves them in the queue.
LEMMA TickStep ==
  ASSUME TypeOK, ConnInv, Ticking \/ ScreenPanics
  PROVE  ConnInv'
<1>1. /\ pc' \in {"top", "cleanup"}
      /\ UNCHANGED <<wakes, waker, reader, open, asked, want, watch, back>>
      /\ clip' = [t \in Task |-> "none"]
      /\ watch.id = NoTask => last' = last
  BY DEF Ticking, Tick, TickFails, ScreenPanics, ScreenDue, linkVars, clientVars
<1>4. left' = NothingLeft \/ pc' = "cleanup"
  BY DEF Ticking, Tick, TickFails, ScreenPanics
<1>5. LeftWaits'
  BY <1>4 DEF LeftWaits
<1>2. InStep'
  BY <1>1 DEF ConnInv, InStep, Sees
<1>3. StoresAreOwn'
  BY <1>1 DEF StoresAreOwn, TypeOK, Watching
<1> QED
  BY <1>1, <1>2, <1>3, <1>5 DEF ConnInv, BackIsWatched, AskedFor, NothingShown, LeftClean, RoomForHangup

\* Rows that panic drop stores, and forward none.
LEMMA RowsStep ==
  ASSUME TypeOK, ConnInv, RowsPanic
  PROVE  ConnInv'
<1>1. /\ pc' = "cleanup"
      /\ UNCHANGED <<wakes, waker, reader, open, asked, want, watch, last, back>>
      /\ \A t \in Task : clip'[t] \in {"none", clip[t]}
  BY DEF RowsPanic, linkVars, clientVars, coreVars
<1>2. InStep'
  BY <1>1 DEF ConnInv, InStep, Sees
<1>3. StoresAreOwn'
  BY <1>1 DEF ConnInv, StoresAreOwn, TypeOK, Watching
<1>4. LeftWaits'
  BY <1>1 DEF LeftWaits
<1> QED
  BY <1>1, <1>2, <1>3, <1>4 DEF ConnInv, BackIsWatched, AskedFor, NothingShown, LeftClean,
                                RoomForHangup

\* A store is captured for whom its task is attached to at that moment.
LEMMA OutputStep ==
  ASSUME TypeOK, ConnInv, NEW t \in Task, Output(t)
  PROVE  ConnInv'
<1>1. UNCHANGED <<pc, wakes, waker, reader, open, asked, want, got, watch, last, left, back>>
  BY DEF Output, loopVars, linkVars, clientVars, coreVars
<1>2. InStep'
  BY <1>1 DEF ConnInv, InStep, Sees
<1>3. StoresAreOwn'
  <2>1. CASE UNCHANGED clip
    BY <1>1, <2>1 DEF ConnInv, StoresAreOwn
  <2>2. CASE clip' = [clip EXCEPT ![t] = IF watch = [id |-> t, attached |-> TRUE]
                                         THEN "own" ELSE "other"]
    <3>1. ASSUME watch.attached, watch.id = t PROVE clip'[t] = "own"
      <4>1. watch = [id |-> t, attached |-> TRUE]
        BY <3>1 DEF TypeOK, Watching
      <4> QED
        BY <2>2, <4>1 DEF TypeOK
    <3>2. ASSUME watch.id # t, watch.id \in Task PROVE clip'[watch.id] = clip[watch.id]
      BY <2>2, <3>2 DEF TypeOK
    <3> QED
      BY <1>1, <3>1, <3>2 DEF ConnInv, StoresAreOwn, TypeOK, Watching
  <2> QED
    BY <2>1, <2>2 DEF Output
<1>4. LeftWaits'
  BY <1>1 DEF ConnInv, LeftWaits
<1> QED
  BY <1>1, <1>2, <1>3, <1>4 DEF ConnInv, BackIsWatched, AskedFor, NothingShown, LeftClean, RoomForHangup

LEMMA ConnStep ==
  ASSUME TypeOK, ConnInv, [Next]_vars
  PROVE  ConnInv'
<1>1. CASE IdleStop \/ Serve \/ CleanUp \/ Join
  BY <1>1, OutsideStep
<1>2. CASE Apply
  BY <1>2, ApplyStep
<1>3. CASE LookAtStop \/ ApplyOutput \/ RecvTimesOut \/ Drained \/ Panic \/ RaiseStop \/ Elapse
  BY <1>3, QuietStep DEF LookAtStop, ApplyOutput, RecvTimesOut, Drained, Panic, RaiseStop, Elapse,
                         loopVars, linkVars, clientVars, coreVars, taskVars
<1>4. CASE Ticking \/ ScreenPanics
  BY <1>4, TickStep
<1>10. CASE RowsPanic
  BY <1>10, RowsStep
<1>5. CASE ReaderHangsUp
  BY <1>5, HangUpStep
<1>6. CASE Client
  BY <1>6, ClientStep
<1>7. ASSUME NEW t \in Task, Output(t) PROVE ConnInv'
  BY <1>7, OutputStep
<1>8. ASSUME NEW t \in Task, Signal(t) PROVE ConnInv'
  BY <1>8, QuietStep DEF Signal, loopVars, clientVars, coreVars
<1>9. CASE UNCHANGED vars
  BY <1>9, QuietStep DEF vars, loopVars, linkVars, clientVars, coreVars, taskVars
<1> QED
  BY <1>1, <1>2, <1>3, <1>4, <1>5, <1>6, <1>7, <1>8, <1>9, <1>10
     DEF Next, Loop, Panics

LEMMA ConnInit ==
  ASSUME Init
  PROVE  TypeOK /\ ConnInv
<1>1. Len(<<>>) = 0 /\ <<>> \in Seq(Wake)
  BY EmptySeq
<1>2. TypeOK
  <2>1. ver \in [Task -> 0 .. MaxVer] /\ Len(wakes) <= MaxWakes + 1
    BY <1>1, ServeLoopAssumption DEF Init
  <2> QED
    BY <1>1, <2>1, NoWatchTyped DEF Init, TypeOK, Left, NothingLeft
<1>3. InStep
  BY <1>1 DEF Init, InStep
<1> QED
  BY <1>1, <1>2, <1>3, ServeLoopAssumption
     DEF Init, ConnInv, LeftWaits, BackIsWatched, AskedFor, StoresAreOwn, NothingShown, LeftClean,
         RoomForHangup, NoWatch

(***************************************************************************)
(* The state of the daemon, its connection and its client is well-typed,   *)
(* and the strengthening holds, in every reachable state.                  *)
(***************************************************************************)
THEOREM ConnectionHolds == Spec => [](TypeOK /\ ConnInv)
<1>1. Init => TypeOK /\ ConnInv
  BY ConnInit
<1>2. TypeOK /\ ConnInv /\ [Next]_vars => (TypeOK /\ ConnInv)'
  BY TypeStep, ConnStep
<1> QED
  BY <1>1, <1>2, PTL DEF Spec

(***************************************************************************)
(* Whichever way a connection ended (Shutdown, Hangup, a failed write, a   *)
(* panic, the signal flag), its waker, its watch, its screen and its       *)
(* viewport are not there for the next client.                             *)
(***************************************************************************)
THEOREM NextClientStartsClean == Spec => []IdleIsClean
<1>1. ConnInv => IdleIsClean
  BY DEF ConnInv, LeftClean, IdleIsClean
<1> QED
  BY <1>1, ConnectionHolds, PTL

(***************************************************************************)
(* A tick queues screens only of tasks its client asked to watch, and      *)
(* clipboard stores only that were made while it was attached. What a      *)
(* panic has left in the queue goes out with the client's first tick only. *)
(***************************************************************************)
THEOREM SentOnlyWhatWasAsked == Spec => OnlyWhatWasAsked
<1> DEFINE Own == /\ ScreenDue => watch.id \in asked
                  /\ Forwards => clip[watch.id] = "own"
                  /\ left # NothingLeft => got = NoView /\ last = NoView
<1>1. ASSUME TypeOK, ConnInv, Tick PROVE Own
  <2>1. open /\ pc = "tick"
    BY <1>1 DEF Tick
  <2>2. ScreenDue => watch.id \in asked
    BY <1>1, <2>1 DEF ConnInv, AskedFor, ScreenDue
  <2>3. Forwards => clip[watch.id] = "own"
    BY <1>1 DEF ConnInv, StoresAreOwn, Forwards, TypeOK, Watching
  <2>4. left # NothingLeft => got = NoView /\ last = NoView
    BY <1>1, <2>1 DEF ConnInv, LeftWaits
  <2> QED
    BY <2>2, <2>3, <2>4
<1>2. TypeOK /\ ConnInv /\ [Next]_vars => [Tick => Own]_vars
  BY <1>1
<1> QED
  BY <1>2, ConnectionHolds, PTL DEF Spec, OnlyWhatWasAsked
=============================================================================
