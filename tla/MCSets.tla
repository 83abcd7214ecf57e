-------------------------------- MODULE MCSets --------------------------------
(* FrommelSets with few bytes, for TLC. *)
EXTENDS FrommelSets

\* Some numbers of one, two and four bytes that are Apart, and all numbers.
Some == {<<0, 0, 0, 4>>, <<0, 0, 0, 5>>, <<0, 0, 2, 1>>, <<1, 2, 3, 4>>}
All  == [1..IdLen -> Byte] \ {Zeroes}

ASSUME SomeAreApart == Id = Some => Apart
=============================================================================
