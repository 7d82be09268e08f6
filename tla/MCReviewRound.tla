--------------------------- MODULE MCReviewRound ---------------------------
(* A panel of two seats: the first may have a suite finding, the second has  *)
(* a code finding and a note.                                                *)
EXTENDS ReviewRound

TwoSeats == <<"fury-correctness", "generalist-review">>
FewReports(seat) == IF seat = TwoSeats[1] THEN {{}, {"suite"}} ELSE {{"code", "advisory"}}
=============================================================================
