--------------------------- MODULE MCConversation ---------------------------
EXTENDS Conversation

\* A new session, or one whose old header says two messages are summarized.
NewOrLegacy == {0, 2}

\* One silent call, or two calls beside some text.
SilentOrTwo == {[calls |-> 1, text |-> FALSE], [calls |-> 2, text |-> TRUE]}
=============================================================================
