--------------------------- MODULE MCSocketTransport ---------------------------
(* Small instances of SocketTransport and Wire: three texts, one byte string that is no text, *)
(* and rows that differ from an ordinary one in one field. *)
EXTENDS SocketTransport, TLC

MCBase64 == ("" :> "") @@ ("a" :> "YQ==") @@ ("ab" :> "YWI=") @@ ("ff" :> "/w==")

Row == [id |-> 1, command |-> "ab", cwd |-> "ff", tagged |-> FALSE, flagship |-> FALSE,
        managed |-> TRUE, group |-> {}, name |-> {"a"}, life |-> "active", preview |-> "ab",
        src |-> "floor", rule |-> {}, frozen |-> FALSE, working |-> TRUE, started |-> {3},
        quiet |-> {2}, finished |-> {}]

MCViews ==
  {Row} \cup {[Row EXCEPT !.life = l] : l \in Lifecycles} \cup {[Row EXCEPT !.src = s] : s \in Sources}
    \cup {[Row EXCEPT !.flagship = TRUE, !.tagged = TRUE, !.managed = FALSE],
          [Row EXCEPT !.rule = {"claude"}, !.frozen = TRUE], [Row EXCEPT !.working = FALSE],
          [Row EXCEPT !.group = {""}, !.name = {}],
          [Row EXCEPT !.started = {0}, !.quiet = {}, !.finished = {1}]}

MCEntries == [stem : {"ab"}, label : {"", "a"}, tasks : {0, U32}, age : {U64}]

MCScreens ==
  [id : {1}, lines : {<<>>, <<"", "ab">>}, formatted : {<<>>, <<"ff", "a">>},
   cursor : {<<0, U16>>}, hide : BOOLEAN, mouse : BOOLEAN, alt : BOOLEAN, ascr : BOOLEAN,
   sb : {0, U64}]

MCContexts ==
  [cwd : {"ab", "ff"}, env : {<<>>, <<<<"a", "ff">>, <<"a", "">>>>}]
=============================================================================
