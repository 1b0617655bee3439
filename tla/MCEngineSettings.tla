--------------------------- MODULE MCEngineSettings ---------------------------
(* Two redlines, two igniters and three sensors, one without nodes; at most one of the commands goes wrong, except once. *)
EXTENDS EngineSettings

Good == [redlines |-> <<"valid", "valid">>, delays |-> TRUE, igniters |-> <<TRUE, TRUE>>]

MCRequests ==
  {Good}
  \cup {[Good EXCEPT !.redlines = r] :
           r \in {<<"unsent", "valid">>, <<"invalid", "valid">>, <<"valid", "invalid">>, <<"valid", "incomplete">>}}
  \cup {[Good EXCEPT !.igniters = g] : g \in {<<TRUE, FALSE>>, <<FALSE, TRUE>>, <<TRUE>>}}
  \cup {[Good EXCEPT !.delays = FALSE],
        [redlines |-> <<"valid", "invalid">>, delays |-> FALSE, igniters |-> <<TRUE, FALSE>>]}

R(s, v) == [sensor |-> s, valid |-> v]
MCTables == {<<R(1, TRUE), R(0, TRUE), R(2, TRUE)>>, <<R(2, TRUE), R(3, TRUE), R(1, FALSE)>>, <<R(1, TRUE), R(1, TRUE)>>}

=============================================================================
