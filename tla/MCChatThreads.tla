---------------------------- MODULE MCChatThreads ----------------------------
(* Two turns of at most three tokens, two at a time.                        *)
EXTENDS ChatThreads
=============================================================================
