---------------------------- MODULE SeatPromise ----------------------------
(***************************************************************************)
(* What the order promises each buyer about his payment, without locks,    *)
(* sessions, postings or faults: he is charged, the charge is held in      *)
(* escrow, and only then is he seated; a charge that led to no seat is     *)
(* returned and the affair is over; a seated buyer leaves by his escrow    *)
(* being released first, and does not come back.                           *)
(***************************************************************************)
CONSTANT Buyers

VARIABLE phase   \* how far each buyer has come

Phases == {"out", "charged", "held", "seated", "returned", "leaving", "gone"}

\* The moves of one buyer.
Moves == {<<"out", "charged">>, <<"charged", "held">>, <<"held", "seated">>,
          <<"charged", "returned">>, <<"held", "returned">>,
          <<"seated", "leaving">>, <<"leaving", "gone">>}

Init == phase = [b \in Buyers |-> "out"]

Move(b) ==
  \E to \in Phases :
    /\ <<phase[b], to>> \in Moves
    /\ phase' = [phase EXCEPT ![b] = to]

Next == \E b \in Buyers : Move(b)

Spec == Init /\ [][Next]_phase
=============================================================================
