------------------------- MODULE ConnectionContract -------------------------
(***************************************************************************)
(* What a WebSocket connection promises to the program that owns it, in    *)
(* terms of the handlers it calls (connection.hpp, the comments above      *)
(* open_handler, close_handler and fail_handler): an attempt is answered   *)
(* once, by the open handler or by the fail handler, and close is called   *)
(* exactly once, for an opened connection only.  Nobody sets the http      *)
(* handler, so an attempt that was a plain HTTP request fails.             *)
(***************************************************************************)
EXTENDS Sequences

VARIABLE calls

Init == calls = <<>>

Answer == calls = <<>> /\ calls' \in {<<"open">>, <<"fail">>}

Close == calls = <<"open">> /\ calls' = Append(calls, "close")

Next == Answer \/ Close

Spec == Init /\ [][Next]_calls /\ WF_calls(Answer)
=============================================================================
