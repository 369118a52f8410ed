--------------------------- MODULE MCConversation ---------------------------
(* An instance of Conversation for TLC.                                     *)
EXTENDS Conversation

\* "ceo" is a short name of both studios, and the later one's in the map.
MCKnown == << <<"amz", "scout">>, <<"amz", "ceo">>, <<"app", "ceo">> >>

MCBots == { <<"app", "ceo">> }

=============================================================================
