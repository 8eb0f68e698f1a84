-------------------------------- MODULE Pages --------------------------------
(***************************************************************************)
(* What the pages of the web app share.  A handler runs to its first await *)
(* in one step.  The call it makes is sent, takes effect on the server and *)
(* is answered in steps of their own; a call that fails (an error, or the  *)
(* 8 second timeout of apiClient) has taken effect already or never will.  *)
(***************************************************************************)
EXTENDS Naturals, SequencesExt

Nothing == [st |-> "none"]    \* no call, or nothing loaded yet

\* One request of apiClient: sent, then done with the server's answer.
Sent(v) == [st |-> "sent", v |-> v]
Done(v) == [st |-> "done", v |-> v]

Keys(s) == {s[i].key : i \in DOMAIN s}
KeyAt(s, k) == CHOOSE i \in DOMAIN s : s[i].key = k
=============================================================================
