---------------------------- MODULE MCProcess -------------------------------
(* Instance of Process for TLC; the constants are set in the .cfg files. *)
EXTENDS Process

\* A negative offset as u64, one step back from there, and one from the end.
MCSeeks == {<<-1, "SET">>, <<-4, "CUR">>, <<-1, "END">>}
=============================================================================
