---------------------------- MODULE MCChatWindow ----------------------------
(***************************************************************************)
(* Model-checking instance of ChatWindow: one own message and one of      *)
(* another participant, at most three room events queued.                 *)
(***************************************************************************)
EXTENDS ChatWindow
CONSTANTS o1, p1
OwnMsgs == {o1}
OtherMsgs == {p1}
=============================================================================
