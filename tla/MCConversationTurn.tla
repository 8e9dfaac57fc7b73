-------------------------- MODULE MCConversationTurn --------------------------
(* The turn pipeline on a small instance: contacts, channels and services   *)
(* are only compared with each other, so each may be permuted.              *)
EXTENDS ConversationTurn, TLC

MCSymmetry ==
    Permutations(Contacts) \cup Permutations(Channels) \cup Permutations(Services)
=============================================================================
