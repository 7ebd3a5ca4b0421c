---------------------------- MODULE MCConversation ----------------------------
(* Small conversations. *)
EXTENDS Conversation

\* Five directories with six rule files.
MCChain == <<"home", "root">>
MCChildren == [root |-> <<"lib", "src">>, lib |-> <<"deep">>, src |-> <<>>, deep |-> <<>>]
MCAgentFiles == [home |-> <<"h">>, root |-> <<"r", "rx">>, lib |-> <<"l">>, src |-> <<"s">>, deep |-> <<"d">>]
MCSize == [h |-> 1, r |-> 2, rx |-> 1, l |-> 1, s |-> 2, d |-> 1]

=============================================================================
