------------------------------- MODULE MCCpabe -------------------------------
(* Policies over three attributes: leaves, gates of every threshold, nested  *)
(* gates, gates that ask for nothing and names that occur twice.             *)
EXTENDS Cpabe

Leaf1 == Leaf(1)
Leaf2 == Leaf(2)
Leaf3 == Leaf(3)

Policies ==
  {Leaf1, Or(<<Leaf1, Leaf2>>), Or(<<Leaf2, Leaf1>>),
   Or(<<And(<<Leaf1, Leaf2>>), Leaf3>>), And(<<Or(<<Leaf1, Leaf2>>), Leaf3>>),
   And(<<Leaf1, Or(<<Leaf2, Leaf1>>)>>), And(<<Leaf1, Leaf1>>),
   Gate(2, <<Leaf1, Leaf2, Leaf3>>), Gate(3, <<Leaf1, Leaf2>>),
   Gate(2, <<And(<<Leaf1, Leaf2>>), Leaf3, Or(<<Leaf2, Leaf3>>)>>),
   Gate(0, <<Leaf1>>), Or(<<Gate(0, <<Leaf1>>), Leaf2>>)}
=============================================================================
