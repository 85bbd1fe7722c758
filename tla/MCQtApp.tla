------------------------------ MODULE MCQtApp -------------------------------
(***************************************************************************)
(* Model-checking instance of QtApp: one chat, at most two notifications  *)
(* queued in the event loop.                                              *)
(***************************************************************************)
EXTENDS QtApp
CONSTANTS c1
OneChat == {c1}

\* The history variables freed and nullUse are read by no guard and by no
\* property this model checks, so states that differ only in them are
\* one state.
QtAppView == <<phase, mSid, mLoginDialog, pending, shown, sidFile, mode,
               chatVars>>

\* The SDK's extra change flags.  A title change alone leaves the item as
\* it is and needs no reorder: applied, it changes nothing the properties
\* read, so the checked updates carry no extra flag or the last-timestamp
\* flag that forces a reorder.
CheckedExtras == {{}, {"lastTs"}}
=============================================================================
