------------------------------- MODULE BytePipe -------------------------------
(***************************************************************************)
(* What one direction of a socket promises, without promises, locks or     *)
(* buffers: bytes come out in the order in which they went in, none twice  *)
(* and none left out, and no news overtakes them.  That the pipe has ended *)
(* or failed, or that nothing is left in it, is only told once all bytes   *)
(* are out, and then for a reason.                                         *)
(***************************************************************************)
EXTENDS Naturals

VARIABLES
  put,   \* number of bytes that have gone in
  got,   \* number of bytes that have come out
  end,   \* of the side where they go in: open, closed or broken
  told   \* what the side where they come out was told last

vars == <<put, got, end, told>>

Init == put = 0 /\ got = 0 /\ end = "open" /\ told = "nothing"

Put ==
  /\ end = "open" /\ put' \in Nat /\ put' >= put
  /\ UNCHANGED <<got, end, told>>

Stop ==
  /\ end = "open" /\ end' \in {"closed", "broken"}
  /\ UNCHANGED <<put, got, told>>

Take ==
  /\ got' \in got..put /\ told' = "bytes"
  /\ UNCHANGED <<put, end>>

Tell(news) ==
  /\ got = put
  /\ news = "end" => end = "closed"
  /\ news = "error" => end # "open"
  /\ told' = news
  /\ UNCHANGED <<put, got, end>>

Next == Put \/ Stop \/ Take \/ \E news \in {"end", "error", "empty"} : Tell(news)

Spec == Init /\ [][Next]_vars
=============================================================================
